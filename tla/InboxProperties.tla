--------------------------- MODULE InboxProperties ---------------------------
(***************************************************************************)
(* What makes InboxBatcher correct.                                        *)
(***************************************************************************)
EXTENDS InboxBatcher

Phases == {"idle", "resolving", "asking", "notifying"}

\* Type invariant: the table, the timers, the queue and the counters.
TypeOK ==
  /\ status \in [Message -> Unsettled \cup Settled \cup {"unseen"}]
  /\ attempts \in [Message -> Nat]
  /\ rowId \in [Message -> Nat]
  /\ lastId \in Nat
  /\ up \in BOOLEAN
  /\ posting \in SUBSET Message
  /\ burst \in SUBSET Conversation
  /\ retry \in SUBSET Conversation
  /\ queued \in [Conversation -> Nat]
  /\ phase \in [Conversation -> Phases]
  /\ claimed \in [Conversation -> SUBSET Message]
  /\ turnKey \in [Conversation -> Message \cup {NoMessage}]
  /\ runs \in [Message -> Nat]
  /\ crashes \in 0..MaxCrashes
  /\ dbFaults \in 0..MaxDbFaults

-----------------------------------------------------------------------------
(* Safety *)

\* Something in memory will still look at row m: a live turn that holds it, a
\* job, a timer, or the handler that is about to open its burst.
Woken(m) ==
  LET c == ConversationOf[m] IN
  \/ m \in claimed[c]
  \/ m \in posting
  \/ c \in burst
  \/ c \in retry
  \/ queued[c] > 0

\* No lost wakeup: while the process is up every unsettled row has something
\* left that will pick it up (batcher.ts: every path that leaves a row
\* unsettled arms a timer or a job), through bursts, retries that yield to
\* bursts, the webhook's await and a replay at boot.
NoRowStranded ==
  up => \A m \in Message : status[m] \in Unsettled => Woken(m)

\* The same, granted that SQLite refuses no statement of the worker.
NoRowStrandedByDesign == dbFaults = 0 => NoRowStranded

\* A conversation's messages are settled in the order they arrived: no row is
\* done or failed while an older row of its conversation is not.
SettledInOrder ==
  \A m, n \in Message :
    /\ ConversationOf[m] = ConversationOf[n]
    /\ rowId[m] \in 1..rowId[n]
    /\ status[n] \in Settled
    => status[m] \in Settled

\* No message is put to the agent more often than MAX_BATCH_ATTEMPTS, however
\* the attempts are spread over retries, bursts and restarts.
AttemptBudget == \A m \in Message : runs[m] <= MaxAttempts

\* A row is never marked done unread: it was in the prompt of some turn, or it
\* has no words. A row that arrives while a turn runs is not settled by it.
DoneWasRead ==
  \A m \in Message : status[m] = "done" => runs[m] > 0 \/ m \in Wordless

\* A row fails only by an exhausted budget: its own, or that of an older row
\* of its conversation whose batch it joined.
FailureHasCause ==
  \A m \in Message : status[m] = "failed" =>
    \E n \in Message :
      /\ ConversationOf[n] = ConversationOf[m]
      /\ rowId[n] <= rowId[m]
      /\ status[n] = "failed"
      /\ attempts[n] >= MaxAttempts

\* An agent exchange is answered alone: its turn never merges two callers'
\* messages, at a live call, a retry or a replay (data/repo.ts
\* insertAgentInboxMessage).
ExchangeAlone ==
  \A c \in AgentConversation : \A m, n \in claimed[c] : m = n

\* Two jobs never own the same conversation: while the process is up, what a
\* live turn claimed is exactly what it must settle.
TurnOwnsItsRows ==
  \A c \in Conversation :
    /\ \A m \in claimed[c] : ConversationOf[m] = c /\ status[m] = "processing"
    /\ claimed[c] # {} <=> phase[c] \in {"resolving", "asking"}

-----------------------------------------------------------------------------
(* The strengthening that makes the above inductive *)

\* Ids are positive, distinct and never ahead of the counter.
RowIds ==
  /\ \A m \in Message :
       /\ status[m] = "unseen" <=> rowId[m] = 0
       /\ status[m] = "unseen" => attempts[m] = 0
       /\ rowId[m] <= lastId
  /\ \A m, n \in Message : rowId[m] = rowId[n] => (m = n \/ rowId[m] = 0)

\* A row a live turn does not hold is younger than every row it does.
ClaimsAreOldest ==
  \A c \in Conversation : \A m \in claimed[c] :
    \A n \in Claimable(c) \ claimed[c] : rowId[m] < rowId[n]

\* Every prompt consumed a claim of its own.
RunsAreClaims ==
  /\ \A m \in Message : runs[m] <= attempts[m]
  /\ \A c \in Conversation : \A m \in claimed[c] :
       /\ attempts[m] <= MaxAttempts
       /\ phase[c] = "resolving" => runs[m] < attempts[m]
       /\ phase[c] = "asking" => runs[m] > 0

\* Older unsettled rows have been claimed at least as often as younger ones.
OlderTriedMore ==
  \A m, n \in Message :
    /\ ConversationOf[m] = ConversationOf[n]
    /\ status[m] \in Unsettled /\ status[n] \in Unsettled
    /\ rowId[m] <= rowId[n]
    => attempts[m] >= attempts[n]

\* The latest turn key names a row no unsettled row is older than.
KeyIsOldest ==
  \A c \in Conversation : turnKey[c] # NoMessage =>
    /\ ConversationOf[turnKey[c]] = c
    /\ status[turnKey[c]] # "unseen"
    /\ \A n \in Claimable(c) : rowId[turnKey[c]] <= rowId[n]

\* An agent conversation has at most one exchange that is not settled.
OneExchange ==
  \A c \in AgentConversation : \A m, n \in Claimable(c) : m = n

IInv ==
  /\ TypeOK
  /\ RowIds
  /\ TurnOwnsItsRows
  /\ ClaimsAreOldest
  /\ SettledInOrder
  /\ RunsAreClaims
  /\ AttemptBudget
  /\ DoneWasRead
  /\ OlderTriedMore
  /\ FailureHasCause
  /\ KeyIsOldest
  /\ OneExchange
  /\ NoRowStrandedByDesign

-----------------------------------------------------------------------------
(* Action properties *)

\* A turn key survives retries and restarts: the key of a conversation's turns
\* changes only once the row that anchored it is settled, however many
\* messages the retried batch absorbs (batcher.ts processBatch).
TurnKeyIsStable ==
  [][\A c \in Conversation :
       turnKey[c] # NoMessage /\ turnKey'[c] # turnKey[c]
         => status[turnKey[c]] \in Settled]_vars

\* done and failed are final: no retry, redelivery or replay reopens a row.
SettledIsFinal ==
  [][\A m \in Message : status[m] \in Settled => status'[m] = status[m]]_vars

-----------------------------------------------------------------------------
(* The abstract specification *)

stage == [m \in Message |-> IF status[m] \in Unsettled THEN "owed" ELSE status[m]]

Promise == INSTANCE InboxPromise WITH position <- rowId, arrivals <- lastId

\* The inbox keeps its promise: accepted messages are settled in whole,
\* oldest-first batches, whatever timers, retries and crashes do.
KeepsPromise == Promise!Safety

\* ... and while a message is owed, its conversation does get settled.
KeepsPromiseLive == Promise!Spec

\* At least once: a message the door accepted is settled in the end, through
\* any interleaving of new messages, failed turns and restarts.
EveryMessageSettles ==
  \A m \in Message : status[m] \in Unsettled ~> status[m] \in Settled
=============================================================================
