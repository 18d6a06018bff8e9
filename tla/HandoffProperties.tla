-------------------------- MODULE HandoffProperties --------------------------
(***************************************************************************)
(* What makes Handoff correct, and where the code falls short of its words.*)
(***************************************************************************)
EXTENDS Handoff

TypeOK ==
  /\ live \in [Conversation -> Seq(Lead \cup {ByHand})]
  /\ pauses \in [Conversation -> Nat]
  /\ lead \in [Lead -> {"none", "new", "in_progress", "closed"}]
  /\ session \in [Conversation -> Nat]
  /\ waiting \in [Conversation -> BOOLEAN]
  /\ tries \in [Conversation -> 0 .. MaxAttempts]
  /\ turn \in [Conversation -> Working \cup {"idle"}]
  /\ since \in [Conversation -> Nat]
  /\ sending \in [Admin -> Conversation \cup {Nobody}]
  /\ faults \in 0 .. MaxFaults
  /\ spoken \in [Conversation -> Nat]
  /\ sorry \in [Conversation -> Nat]
  /\ mishaps \in [Conversation -> Nat]
  /\ byHand \in [Conversation -> BOOLEAN]
  /\ freed \in [Conversation -> BOOLEAN]
  /\ leftover \in [Conversation -> BOOLEAN]
  /\ requeued \in [Conversation -> BOOLEAN]

\* A release leaves nothing half closed: at most one handoff row is live, so
\* two admins who both pause need only one release (repo.ts pauseConversation).
OneLiveHandoff == \A c \in Conversation : Len(live[c]) <= 1

\* Once a human has a conversation the agent answers in it at most once more, in
\* the attempt that was in flight, whatever is retried or replayed (index.ts
\* onMessage).  The apology of a batch given up looks at no pause (index.ts
\* onBatchFailure); still, all the customer reads of the agent is one message,
\* and at most one more for each death, refused statement or lost answer since.
AgentFallsSilent ==
  \A c \in Conversation : Paused(c) =>
    /\ spoken[c] <= 1
    /\ spoken[c] + sorry[c] <= 1 + mishaps[c]

\* Out of a handoff the agent neither holds nor adds to a transcript that began
\* before it was over, through any number of handoffs, resumed turns and restarts:
\* unless the release was torn, or found the agent being asked (console.ts: both
\* ways of releasing drop the session).
SessionForgetsHandoff ==
  \A c \in Conversation :
    ~Paused(c) /\ ~leftover[c] /\ session[c] # 0 => session[c] = pauses[c] + 1

\* A pause that was set by hand stays until somebody asks for its release,
\* whatever is done to the leads of that conversation meanwhile.
PauseByHandStands ==
  [][\A c \in Conversation :
       Paused(c) /\ Head(live[c]) = ByHand /\ live'[c] # live[c]
         => byHand[c] /\ ~byHand'[c]]_vars

\* A lead somebody is handling keeps the agent silent, whichever lead caused the
\* pause and whichever is handed back, torn or not: the agent has a conversation
\* of which a lead is held only if somebody asked for the release, or if a lead
\* was taken by a request that ended between its two commits (console.ts 746, 767).
HeldLeadKeepsSilence ==
  \A l \in Lead :
    lead[l] = "in_progress" /\ ConversationOf[l] # Nobody
      => Paused(ConversationOf[l]) \/ freed[ConversationOf[l]]

CausedByLead(c) == Paused(c) /\ Head(live[c]) # ByHand

\* Nobody is left between an agent that will not answer and a human who has
\* stepped away: a pause a lead caused outlives the last lead a human took or
\* finished only if a lead went back to the queue past the hand-back, closed
\* before, or by a request that ended between its commits (console.ts 746, 790).
HandBackStrandsNobody ==
  \A c \in Conversation :
    CausedByLead(c) /\ ~requeued[c] =>
      \E l \in Lead : ConversationOf[l] = c /\ lead[l] \in {"in_progress", "closed"}

-----------------------------------------------------------------------------
(* What the console's header and comments say, and the code does not do. *)

\* While an admin's words go out, the agent does not speak (console.ts: the
\* pause happens before the message, so no window is left).
NoTwoVoices ==
  [][\A c \in Conversation :
       Paused(c) /\ (\E a \in Admin : sending[a] = c)
         => spoken'[c] <= spoken[c] /\ sorry'[c] <= sorry[c]]_vars

\* After a release the agent starts fresh: it holds no session from before the
\* handoff (console.ts, the release route).
NoStaleSession ==
  \A c \in Conversation : ~Paused(c) /\ session[c] # 0 => session[c] = pauses[c] + 1

\* A lead does not undo what an admin asked for by hand (console.ts, condition
\* 2 of the hand-back).
LeadUndoesNoPause == \A c \in Conversation : byHand[c] => Paused(c)

-----------------------------------------------------------------------------
(* The strengthening that makes the safety properties inductive. *)

\* The agent's one answer after a pause is that of an attempt that is past it.
AnswersOnce ==
  \A c \in Conversation : Paused(c) =>
    \/ spoken[c] = 0
    \/ spoken[c] = 1 /\ turn[c] \notin {"noticing", "resuming", "asking", "delivering"}

\* Without a further mishap the customer reads something yet.
MaySpeak(c) ==
  \/ turn[c] \in Working \ {"read"}
  \/ turn[c] = "idle" /\ tries[c] = MaxAttempts

\* What was read, and what may be, is paid for.
WordsArePaidFor ==
  \A c \in Conversation : Paused(c) =>
    /\ spoken[c] + sorry[c] <= 1 + mishaps[c]
    /\ MaySpeak(c) => spoken[c] + sorry[c] <= mishaps[c]

\* Only a handoff that is live is counted in.
CountsAreOfThePause ==
  \A c \in Conversation :
    ~Paused(c) => spoken[c] = 0 /\ sorry[c] = 0 /\ mishaps[c] = 0

\* A batch that is given up leaves no claims behind.
GivenUpIsForgotten ==
  \A c \in Conversation : turn[c] = "apologising" => tries[c] = 0

\* Nor does the agent, being asked, add to such a transcript.
AttemptIsCurrent ==
  \A c \in Conversation :
    ~Paused(c) /\ ~leftover[c] /\ turn[c] \in Asked => since[c] = pauses[c] + 1

\* A live row set by hand is one nobody has asked to release.
ByHandIsWanted ==
  \A c \in Conversation : Paused(c) /\ Head(live[c]) = ByHand => byHand[c]

IInv ==
  /\ TypeOK
  /\ OneLiveHandoff
  /\ AnswersOnce
  /\ WordsArePaidFor
  /\ CountsAreOfThePause
  /\ GivenUpIsForgotten
  /\ SessionForgetsHandoff
  /\ AttemptIsCurrent
  /\ HeldLeadKeepsSilence
  /\ HandBackStrandsNobody
  /\ ByHandIsWanted
=============================================================================
