------------------------- MODULE AgentDoorProperties -------------------------
(***************************************************************************)
(* What makes AgentDoor correct.                                           *)
(***************************************************************************)
EXTENDS AgentDoor

Outcomes == {"refused", "conversation_busy", "duplicate_message", "accepted",
             "ok", "no_reply_in_time", "turn_failed", "error", "gone"}

TypeOK ==
  /\ call \in [Request -> {"idle"} \cup Open \cup Outcomes]
  /\ waiter \in [Key -> Request \cup {Nobody}]
  /\ row \in [Request -> Unsettled \cup {"unseen", "done", "failed"}]
  /\ attempts \in [Request -> Nat]
  /\ hop \in [Request -> 0..MaxHop]
  /\ due \in SUBSET Key
  /\ phase \in [Key -> {"idle", "asking", "posting", "settling", "failing"}]
  /\ asked \in [Key -> SUBSET Request]
  /\ crashes \in 0..MaxCrashes
  /\ dbFaults \in 0..MaxDbFaults
  /\ answer \in [Request -> SUBSET Request]
  /\ posted \in SUBSET Request

\* A caller is never given somebody else's answer: the reply it gets is that of
\* a turn that read its message and no other (a2a.ts runSyncExchange, agent-reply.ts).
AnswerIsOwn == \A r \in Request : answer[r] # {} => answer[r] = {r}

\* A parked caller holds its conversation's spot, and its row is still in play:
\* so a 504 means what the door says it means. And a spot nobody waits on is
\* never left taken, or the conversation could not be used again.
ParkedIsOwed ==
  /\ \A r \in Request : call[r] = "waiting" =>
       waiter[KeyOf[r]] = r /\ row[r] \in Unsettled
  /\ \A k \in Key : waiter[k] # Nobody =>
       KeyOf[waiter[k]] = k /\ call[waiter[k]] = "waiting"

\* A caller told that nothing is coming (502) is told the truth: its row has
\* failed, for good.
FailedMeansFailed ==
  \A r \in Request : call[r] \in {"rejected", "turn_failed"} => row[r] = "failed"

\* No answer is lost on the way back: a row is done only if its reply reached
\* its callback, or its caller, or that caller had stopped waiting before.
DoneWasAnswered ==
  \A r \in Request : row[r] = "done" =>
    IF r \in Async THEN r \in posted
    ELSE answer[r] = {r} \/ call[r] \in {"expired", "no_reply_in_time", "gone"}

\* A chain of calls, each made by the turn of the one before, one longer than
\* MAX_HOP allows.
TooLongChains ==
  {chain \in [1..(MaxHop + 1) -> Request] :
     \A i \in 1..MaxHop : ParentOf[chain[i + 1]] = chain[i]}

\* However agents ask each other, the last call of such a chain is never made
\* (a2a-protocol.ts MAX_HOP).
ChainsAreBounded ==
  \A chain \in TooLongChains : row[chain[MaxHop + 1]] = "unseen"

\* Every caller that holds an open request gets an outcome, though a statement
\* was refused and its row is stuck, or agents wait on each other.
EveryCallReturns ==
  \A r \in Request : call[r] \in Open ~> call[r] \in Outcomes

\* A turn that asks another agent does not wait for ever, even when the row of
\* the agent it asked is stuck.
TurnsEnd == \A k \in Key : phase[k] = "asking" ~> phase[k] # "asking"

-----------------------------------------------------------------------------
(* The abstract specification *)

ExchangeOf(r) ==
  IF row[r] # "unseen"
    THEN IF row[r] \in Unsettled THEN "owed" ELSE row[r]
    ELSE IF call[r] = "idle" THEN "unasked" ELSE "turned away"

ToldTo(r) ==
  IF call[r] = "ok" THEN "reply"
  ELSE IF call[r] = "turn_failed" THEN "failure"
  ELSE IF call[r] \in {"expired", "no_reply_in_time", "error", "gone"} THEN "silence"
  ELSE "nothing"

Exchange == INSTANCE ExchangePromise WITH
  exchange <- [r \in Request |-> ExchangeOf(r)],
  reply <- {r \in Request : answer[r] # {}} \cup posted,
  told <- [r \in Request |-> ToldTo(r)]

\* Whatever retries, timers, callbacks, restarts and refused statements come
\* between: exchanges of a conversation follow one another, each is over only when
\* its reply was handed over, its caller left, or it failed, and what a caller is
\* told is told once and so (a2a.ts, agent-reply.ts, agents-port.ts, batcher.ts).
OneExchangeAtATime == Exchange!ExchangeSafety

-----------------------------------------------------------------------------
(* What makes the safety properties inductive. *)

\* A conversation has at most one exchange in play.
OneExchangePerKey ==
  \A r, q \in Request :
    KeyOf[r] = KeyOf[q] /\ row[r] \in Unsettled /\ row[q] \in Unsettled => r = q

\* A turn runs over claimed rows of its own conversation, and over some.
TurnsReadClaimedRows ==
  \A k \in Key :
    /\ phase[k] = "idle" <=> asked[k] = {}
    /\ \A r \in asked[k] : KeyOf[r] = k /\ row[r] = "processing"

\* Once the reply is on its way nobody is parked for it, and a turn settles only
\* after its callback has it.
RepliesAreSpent ==
  \A k \in Key :
    /\ phase[k] \in {"posting", "settling"} => waiter[k] = Nobody
    /\ phase[k] = "settling" => asked[k] \cap Async \subseteq posted

\* A row in play or done has its caller parked, answered or gone.
CallersAreAccounted ==
  \A r \in Request :
    /\ call[r] = "waiting" => r \notin Async
    /\ r \notin Async /\ row[r] \in Unsettled \cup {"done"} =>
         answer[r] = {r} \/ call[r] \in {"waiting", "expired", "no_reply_in_time", "gone"}

\* The i-th call of a chain has taken at least i hops.
HopsCoverTheChain ==
  \A chain \in TooLongChains : \A i \in 1..(MaxHop + 1) :
    row[chain[i]] # "unseen" => hop[chain[i]] >= i

IInv ==
  /\ TypeOK
  /\ OneExchangePerKey
  /\ TurnsReadClaimedRows
  /\ ParkedIsOwed
  /\ RepliesAreSpent
  /\ AnswerIsOwn
  /\ CallersAreAccounted
  /\ FailedMeansFailed
  /\ DoneWasAnswered
  /\ HopsCoverTheChain
=============================================================================
