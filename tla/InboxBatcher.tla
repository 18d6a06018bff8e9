---------------------------- MODULE InboxBatcher ----------------------------
(***************************************************************************)
(* The durable inbox and the worker that turns it into agent turns:        *)
(* server/src/inbox/{webhook,batcher,queue,a2a}.ts over the inbox table of *)
(* server/src/data/repo.ts.                                                *)
(*                                                                         *)
(* Two doors write rows.  The WhatsApp webhook persists a message and      *)
(* opens (or extends) its phone's burst window; the agent door persists    *)
(* one exchange and runs it at once.  A burst that closes, a retry that    *)
(* fires and an agent exchange all enqueue the same job on the             *)
(* conversation's FIFO queue: claim every unsettled row of the             *)
(* conversation, run one agent turn over them, settle them together.       *)
(*                                                                         *)
(* status, attempts and rowId are the SQLite table and survive a crash;    *)
(* posting, burst, retry, queued, phase and claimed are the process's      *)
(* memory and do not.  runs and turnKey are history: how many prompts a    *)
(* message has been in, and the turn key last used for a conversation.     *)
(***************************************************************************)
EXTENDS Naturals, FiniteSets

CONSTANTS
  Conversation,
  AgentConversation,  \* the 'a2a:' keys; the others are phones
  Message,            \* events a transport may deliver, by dedupe key
  ConversationOf,     \* the conversation each message belongs to
  Releasing,          \* messages carrying a file this deployment drops
  Wordless,           \* rows that render to no prompt text at all
  NoMessage,
  MaxAttempts,        \* MAX_BATCH_ATTEMPTS
  MaxCrashes,         \* bound: crashes of the process
  MaxDbFaults         \* bound: statements SQLite refuses on the worker

ASSUME InboxAssumption ==
  /\ AgentConversation \subseteq Conversation
  /\ ConversationOf \in [Message -> Conversation]
  /\ NoMessage \notin Message
  /\ MaxAttempts \in Nat \ {0}
  /\ MaxCrashes \in Nat
  /\ MaxDbFaults \in Nat

VARIABLES
  status,    \* inbox.status of each message's row, "unseen" without a row
  attempts,  \* inbox.attempts
  rowId,     \* inbox.id: arrival order, 0 without a row
  lastId,    \* the AUTOINCREMENT counter
  up,        \* is the process running
  posting,   \* rows whose webhook handler still awaits releaseMedia
  burst,     \* conversations with an open burst window (batcher.timers)
  retry,     \* conversations with a retry timer armed (batcher.retries)
  queued,    \* jobs behind the running one on each conversation's queue
  phase,     \* where the running job of each conversation is
  claimed,   \* the rows the running job claimed and has not settled
  turnKey,   \* dedupe key of the first row of the latest turn
  runs,      \* prompts each message has been part of
  crashes, dbFaults

table   == <<status, attempts, rowId, lastId>>
timers  == <<posting, burst, retry>>
worker  == <<queued, phase, claimed>>
history == <<turnKey, runs>>
faults  == <<crashes, dbFaults>>
vars    == <<table, up, timers, worker, history, faults>>

Unsettled == {"pending", "processing"}
Settled   == {"done", "failed"}

MessagesOf(c) == {m \in Message : ConversationOf[m] = c}

\* Faulty variant: rows a crash left 'processing' are not selected.
ClaimablePendingOnly(c) == {m \in MessagesOf(c) : status[m] = "pending"}

\* Rows claimInboxBatch selects: pending, plus processing ones left by a crash.
Claimable(c) == {m \in MessagesOf(c) : status[m] \in Unsettled}

\* Faulty variant: keyed by the newest row.
FirstNewest(rows) == CHOOSE m \in rows : \A n \in rows : rowId[n] <= rowId[m]

\* rows[0] of a claim, ordered by arrival.
First(rows) == CHOOSE m \in rows : \A n \in rows : rowId[m] <= rowId[n]

Mark(rows, s) == [m \in Message |-> IF m \in rows THEN s ELSE status[m]]

Init ==
  /\ status = [m \in Message |-> "unseen"]
  /\ attempts = [m \in Message |-> 0]
  /\ rowId = [m \in Message |-> 0]
  /\ lastId = 0
  /\ up = TRUE
  /\ posting = {}
  /\ burst = {}
  /\ retry = {}
  /\ queued = [c \in Conversation |-> 0]
  /\ phase = [c \in Conversation |-> "idle"]
  /\ claimed = [c \in Conversation |-> {}]
  /\ turnKey = [c \in Conversation |-> NoMessage]
  /\ runs = [m \in Message |-> 0]
  /\ crashes = 0
  /\ dbFaults = 0

-----------------------------------------------------------------------------
(* The doors. *)

\* INSERT OR IGNORE on the UNIQUE dedupe key: a redelivery changes nothing.
Insert(m) ==
  /\ status[m] = "unseen"
  /\ status' = [status EXCEPT ![m] = "pending"]
  /\ rowId' = [rowId EXCEPT ![m] = lastId + 1]
  /\ lastId' = lastId + 1
  /\ UNCHANGED attempts

Enqueue(c) == queued' = [queued EXCEPT ![c] = @ + 1]

\* POST /webhook for one message: persist it, then open or extend its burst.
\* A message whose file is not wanted awaits releaseMedia between the two.
Post(m) ==
  LET c == ConversationOf[m] IN
  /\ up
  /\ c \notin AgentConversation
  /\ Insert(m)
  /\ \/ /\ m \in Releasing
        /\ posting' = posting \cup {m}
        /\ UNCHANGED burst
     \/ /\ m \notin Releasing
        /\ burst' = burst \cup {c}
        /\ UNCHANGED posting
  /\ UNCHANGED <<up, retry, worker, history, faults>>

\* The handler resumes after the await and schedules the row it inserted.
Schedule(m) ==
  /\ up
  /\ m \in posting
  /\ posting' = posting \ {m}
  /\ burst' = burst \cup {ConversationOf[m]}
  /\ UNCHANGED <<table, up, retry, worker, history, faults>>

\* Faulty variant: no look for an exchange in flight before the insert.
AgentPostUnchecked(m) ==
  LET c == ConversationOf[m] IN
  /\ up
  /\ c \in AgentConversation
  /\ Insert(m)
  /\ Enqueue(c)
  /\ UNCHANGED <<up, timers, phase, claimed, history, faults>>

\* POST /agents/:id/messages: refused as busy while the conversation has an
\* unsettled row, otherwise persisted and run with no debounce.
AgentPost(m) ==
  LET c == ConversationOf[m] IN
  /\ up
  /\ c \in AgentConversation
  /\ Claimable(c) = {}
  /\ Insert(m)
  /\ Enqueue(c)
  /\ UNCHANGED <<up, timers, phase, claimed, history, faults>>

-----------------------------------------------------------------------------
(* The timers. *)

\* The silence or the cap timer of a burst fires.
Flush(c) ==
  /\ up
  /\ c \in burst
  /\ burst' = burst \ {c}
  /\ Enqueue(c)
  /\ UNCHANGED <<table, up, posting, retry, phase, claimed, history, faults>>

\* A retry timer fires: an open burst will claim the rows itself.
RetryFires(c) ==
  /\ up
  /\ c \in retry
  /\ retry' = retry \ {c}
  /\ IF c \in burst THEN UNCHANGED queued ELSE Enqueue(c)
  /\ UNCHANGED <<table, up, posting, burst, phase, claimed, history, faults>>

-----------------------------------------------------------------------------
(* The job: processBatch, one at a time on each conversation's queue. *)

\* Faulty variant: the job runs again after its entry is gone.
DequeueUnguarded(c) ==
  /\ up
  /\ phase[c] = "idle"
  /\ queued' = [queued EXCEPT ![c] = @ - 1]

Dequeue(c) ==
  /\ up
  /\ queued[c] > 0
  /\ phase[c] = "idle"
  /\ queued' = [queued EXCEPT ![c] = @ - 1]

\* An earlier job already settled everything.
ClaimNothing(c) ==
  /\ Dequeue(c)
  /\ Claimable(c) = {}
  /\ UNCHANGED <<table, up, timers, phase, claimed, history, faults>>

Claim(c) ==
  /\ Claimable(c) # {}
  /\ attempts' = [m \in Message |->
                    IF m \in Claimable(c) THEN attempts[m] + 1 ELSE attempts[m]]
  /\ turnKey' = [turnKey EXCEPT ![c] = First(Claimable(c))]
  /\ UNCHANGED <<rowId, lastId, runs>>

\* Faulty variant: compares the budget with the claims before this one.
CapExceededLate(rows) == \E m \in rows : attempts[m] > MaxAttempts

\* max(attempts) > MAX_BATCH_ATTEMPTS, counting the claim being made.
CapExceeded(rows) == \E m \in rows : attempts[m] >= MaxAttempts

ClaimBatch(c) ==
  /\ Dequeue(c)
  /\ Claim(c)
  /\ ~CapExceeded(Claimable(c))
  /\ status' = Mark(Claimable(c), "processing")
  /\ claimed' = [claimed EXCEPT ![c] = Claimable(c)]
  /\ phase' = [phase EXCEPT ![c] = "resolving"]
  /\ UNCHANGED <<up, timers, faults>>

\* Faulty variant: no return after giving up, the turn runs all the same.
AbandonAndRun(c) ==
  /\ Dequeue(c)
  /\ Claim(c)
  /\ CapExceeded(Claimable(c))
  /\ status' = Mark(Claimable(c), "failed")
  /\ claimed' = [claimed EXCEPT ![c] = Claimable(c)]
  /\ phase' = [phase EXCEPT ![c] = "resolving"]
  /\ UNCHANGED <<up, timers, faults>>

\* The budget was spent by processes that died mid-turn: settle, run nothing.
AbandonBatch(c) ==
  /\ Dequeue(c)
  /\ Claim(c)
  /\ CapExceeded(Claimable(c))
  /\ status' = Mark(Claimable(c), "failed")
  /\ phase' = [phase EXCEPT ![c] = "notifying"]
  /\ UNCHANGED <<up, timers, claimed, faults>>

\* Media fetched and voice notes transcribed; there is a prompt to run.
AskAgent(c) ==
  /\ up
  /\ phase[c] = "resolving"
  /\ ~(claimed[c] \subseteq Wordless)
  /\ phase' = [phase EXCEPT ![c] = "asking"]
  /\ runs' = [m \in Message |-> IF m \in claimed[c] THEN runs[m] + 1 ELSE runs[m]]
  /\ UNCHANGED <<table, up, timers, queued, claimed, turnKey, faults>>

\* Faulty variant: settles by conversation, not by the claimed ids.
ReleaseConversation(c, s, next) ==
  /\ up
  /\ status' = Mark(Claimable(c), s)
  /\ claimed' = [claimed EXCEPT ![c] = {}]
  /\ phase' = [phase EXCEPT ![c] = next]
  /\ UNCHANGED <<attempts, rowId, lastId, up, posting, burst, queued, history, faults>>

\* What the job does to the rows it claimed when it is over with them.
Release(c, s, next) ==
  /\ up
  /\ status' = Mark(claimed[c], s)
  /\ claimed' = [claimed EXCEPT ![c] = {}]
  /\ phase' = [phase EXCEPT ![c] = next]
  /\ UNCHANGED <<attempts, rowId, lastId, up, posting, burst, queued, history, faults>>

\* No text in the whole batch: settled without a turn.
SkipEmptyBatch(c) ==
  /\ phase[c] = "resolving"
  /\ claimed[c] \subseteq Wordless
  /\ Release(c, "done", "idle")
  /\ UNCHANGED retry

\* onMessage returned: answered, or swallowed by one of its gates.
TurnSucceeds(c) ==
  /\ phase[c] = "asking"
  /\ Release(c, "done", "idle")
  /\ UNCHANGED retry

\* Faulty variant: gives up one attempt early.
LastAttemptEarly(rows) == \E m \in rows : attempts[m] >= MaxAttempts - 1

LastAttempt(rows) == \E m \in rows : attempts[m] >= MaxAttempts

\* Faulty variant: back to pending with no timer to pick the rows up.
TurnFailsUnarmed(c) ==
  /\ phase[c] = "asking"
  /\ ~LastAttempt(claimed[c])
  /\ Release(c, "pending", "notifying")
  /\ UNCHANGED retry

\* onMessage threw with budget left: back to pending, one retry timer.
TurnFails(c) ==
  /\ phase[c] = "asking"
  /\ ~LastAttempt(claimed[c])
  /\ Release(c, "pending", "notifying")
  /\ retry' = retry \cup {c}

\* onMessage threw on the last attempt: the whole batch is given up.
TurnFailsFinally(c) ==
  /\ phase[c] = "asking"
  /\ LastAttempt(claimed[c])
  /\ Release(c, "failed", "notifying")
  /\ UNCHANGED retry

\* The onBatchFailure hook is awaited before the queue may move on.
Notified(c) ==
  /\ up
  /\ phase[c] = "notifying"
  /\ phase' = [phase EXCEPT ![c] = "idle"]
  /\ UNCHANGED <<table, up, timers, queued, claimed, history, faults>>

-----------------------------------------------------------------------------
(* What goes wrong. *)

\* claimInboxBatch throws (its transaction rolls back). The rejection lands on
\* the queue's tail, which swallows it: no row changes and nothing is armed.
ClaimThrows(c) ==
  /\ dbFaults < MaxDbFaults
  /\ Dequeue(c)
  /\ Claimable(c) # {}
  /\ dbFaults' = dbFaults + 1
  /\ UNCHANGED <<table, up, timers, phase, claimed, history, crashes>>

\* A statement outside the try (resolving), or the one that settles the rows
\* in the catch (asking), throws: the rows are left 'processing'.
WorkerThrows(c) ==
  /\ up
  /\ dbFaults < MaxDbFaults
  /\ phase[c] \in {"resolving", "asking"}
  /\ dbFaults' = dbFaults + 1
  /\ phase' = [phase EXCEPT ![c] = "idle"]
  /\ claimed' = [claimed EXCEPT ![c] = {}]
  /\ UNCHANGED <<table, up, timers, queued, history, crashes>>

\* The process dies, or stops: memory is lost, the table is not.
Crash ==
  /\ up
  /\ crashes < MaxCrashes
  /\ up' = FALSE
  /\ crashes' = crashes + 1
  /\ posting' = {}
  /\ burst' = {}
  /\ retry' = {}
  /\ queued' = [c \in Conversation |-> 0]
  /\ phase' = [c \in Conversation |-> "idle"]
  /\ claimed' = [c \in Conversation |-> {}]
  /\ UNCHANGED <<table, history, dbFaults>>

\* Faulty variant: replays only rows that never started.
BootUnstartedOnly ==
  /\ ~up
  /\ up' = TRUE
  /\ burst' = {c \in Conversation \ AgentConversation :
                 \E m \in Claimable(c) : status[m] = "pending"}
  /\ queued' = [c \in Conversation |->
                  IF c \in AgentConversation /\ Claimable(c) # {} THEN 1 ELSE 0]
  /\ UNCHANGED <<table, posting, retry, phase, claimed, history, faults>>

\* Faulty variant: replays through the burst windows alone.
BootPhonesOnly ==
  /\ ~up
  /\ up' = TRUE
  /\ burst' = {c \in Conversation \ AgentConversation : Claimable(c) # {}}
  /\ UNCHANGED <<table, posting, retry, queued, phase, claimed, history, faults>>

\* replayPending, before the server listens: a phone's rows open a burst, an
\* agent's row is run at once.
Boot ==
  /\ ~up
  /\ up' = TRUE
  /\ burst' = {c \in Conversation \ AgentConversation : Claimable(c) # {}}
  /\ queued' = [c \in Conversation |->
                  IF c \in AgentConversation /\ Claimable(c) # {} THEN 1 ELSE 0]
  /\ UNCHANGED <<table, posting, retry, phase, claimed, history, faults>>

Work(c) ==
  \/ Flush(c) \/ RetryFires(c)
  \/ ClaimNothing(c) \/ ClaimBatch(c) \/ AbandonBatch(c)
  \/ AskAgent(c) \/ SkipEmptyBatch(c)
  \/ TurnSucceeds(c) \/ TurnFails(c) \/ TurnFailsFinally(c)
  \/ Notified(c)

Next ==
  \/ \E m \in Message : Post(m) \/ Schedule(m) \/ AgentPost(m)
  \/ \E c \in Conversation : Work(c) \/ ClaimThrows(c) \/ WorkerThrows(c)
  \/ Crash
  \/ Boot

Spec == Init /\ [][Next]_vars

-----------------------------------------------------------------------------
(***************************************************************************)
(* Fairness.  A cap timer bounds every burst however long its sender keeps *)
(* talking, and Node fires due timers; the queue runs its next job when    *)
(* the previous one ends; a turn ends because the agent process it awaits  *)
(* returns or fails (the code sets no timeout of its own on it); the host  *)
(* restarts a dead process.  Nothing is assumed of the senders.            *)
(***************************************************************************)
Fairness ==
  /\ \A m \in Message : WF_vars(Schedule(m))
  /\ \A c \in Conversation :
       /\ WF_vars(Flush(c))
       /\ WF_vars(RetryFires(c))
       /\ WF_vars(ClaimNothing(c) \/ ClaimBatch(c) \/ AbandonBatch(c))
       /\ WF_vars(AskAgent(c) \/ SkipEmptyBatch(c))
       /\ WF_vars(TurnSucceeds(c) \/ TurnFails(c) \/ TurnFailsFinally(c))
       /\ WF_vars(Notified(c))
  /\ WF_vars(Boot)

FairSpec == Spec /\ Fairness
=============================================================================
