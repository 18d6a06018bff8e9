------------------------------ MODULE AgentDoor ------------------------------
(***************************************************************************)
(* One agent asks another and waits for the answer:                        *)
(* server/src/inbox/{a2a,agents-port}.ts, server/src/egress/agent-reply.ts *)
(* and the ask_agent tool (server/src/tools/packs/agents.ts).              *)
(*                                                                         *)
(* A request is admitted, its caller parks on the conversation key and its *)
(* row is written; the worker runs a turn over the row and hands the reply *)
(* to the parked caller, or posts it to the callback the request named.    *)
(* The wait has a timer.  A turn may itself ask another agent: then it     *)
(* waits, inside its own turn, on another conversation.                    *)
(*                                                                         *)
(* The worker is the one of InboxBatcher, of which this module keeps what  *)
(* a caller can notice: due holds the conversations with a job or a retry  *)
(* timer.  row, hop and attempts are the inbox table; the rest is memory.  *)
(* answer and posted are history.                                          *)
(***************************************************************************)
EXTENDS Naturals, FiniteSets

CONSTANTS
  Key,          \* conversation keys: caller, target and correlation
  Request,      \* calls, each made at most once
  KeyOf,        \* the key of each request
  ParentOf,     \* the request whose turn asks, or Outside
  Outside,
  Async,        \* requests that name a callback
  Handle,       \* messageId: equal on requests that repeat one message
  Permitted,    \* keys whose caller may reach their target
  Nobody,
  MaxHop,       \* MAX_HOP
  MaxAttempts,  \* MAX_BATCH_ATTEMPTS
  MaxCrashes,   \* bound: restarts of the process
  MaxDbFaults   \* bound: statements SQLite refuses on the worker

ASSUME AgentDoorAssumption ==
  /\ KeyOf \in [Request -> Key]
  /\ ParentOf \in [Request -> Request \cup {Outside}]
  /\ Outside \notin Request
  /\ Nobody \notin Request
  /\ \A r \in Request : ParentOf[r] # Outside => r \notin Async
  /\ MaxHop \in Nat
  /\ MaxAttempts \in Nat \ {0}
  /\ MaxCrashes \in Nat
  /\ MaxDbFaults \in Nat

VARIABLES
  call,      \* what each request's caller knows
  waiter,    \* AgentReplies.waiters: the request parked on each key
  row,       \* inbox.status of each request's row
  attempts,  \* inbox.attempts
  hop,       \* inbox.hop
  due,       \* conversations with a job or a retry timer
  phase,     \* where the running job of each conversation is
  asked,     \* the rows of the running turn
  crashes, dbFaults,
  answer,    \* the rows of the turn whose reply a caller was given
  posted     \* requests whose reply reached their callback

callers == <<call, waiter>>
table   == <<row, attempts, hop>>
worker  == <<due, phase, asked>>
faults  == <<crashes, dbFaults>>
history == <<answer, posted>>
vars    == <<callers, table, worker, faults, history>>

Unsettled == {"pending", "processing"}

\* Calls whose caller holds an open request.
Open == {"waiting", "replied", "expired", "rejected"}

RowsOf(k) == {r \in Request : KeyOf[r] = k /\ row[r] \in Unsettled}

Tell(r, what) == call' = [call EXCEPT ![r] = what]

Init ==
  /\ call = [r \in Request |-> "idle"]
  /\ waiter = [k \in Key |-> Nobody]
  /\ row = [r \in Request |-> "unseen"]
  /\ attempts = [r \in Request |-> 0]
  /\ hop = [r \in Request |-> 0]
  /\ due = {}
  /\ phase = [k \in Key |-> "idle"]
  /\ asked = [k \in Key |-> {}]
  /\ crashes = 0
  /\ dbFaults = 0
  /\ answer = [r \in Request |-> {}]
  /\ posted = {}

-----------------------------------------------------------------------------
(* The door. *)

\* A turn that asks is still running the attempt it asks from.
Asking(p) == p \in asked[KeyOf[p]] /\ phase[KeyOf[p]] = "asking"

\* Faulty variant: every chain starts over.
HopsRestarted(r) == 1..(MaxHop + 1)

\* The hop of a call: an outside caller declares it (never below one), a turn's
\* is one more than its own.
Hops(r) == IF ParentOf[r] = Outside THEN 1..(MaxHop + 1) ELSE {hop[ParentOf[r]] + 1}

MayCall(r) ==
  /\ call[r] = "idle"
  /\ ParentOf[r] # Outside => Asking(ParentOf[r])

\* Faulty variant: a permitted caller may go on for ever.
AdmittedAtAnyHop(r, h) == KeyOf[r] \in Permitted

\* admitExchange, and the same rules in ask_agent.
Admitted(r, h) == KeyOf[r] \in Permitted /\ h <= MaxHop

Refuse(r) ==
  /\ MayCall(r)
  /\ \E h \in Hops(r) : ~Admitted(r, h)
  /\ Tell(r, "refused")
  /\ UNCHANGED <<waiter, table, worker, faults, history>>

\* Faulty variant: only a parked caller makes a conversation busy.
BusyIfParked(r) == waiter[KeyOf[r]] # Nobody

\* Somebody is parked on the key (a call with a callback does not look), or a
\* row of it is not settled.
Busy(r) ==
  \/ r \notin Async /\ waiter[KeyOf[r]] # Nobody
  \/ RowsOf(KeyOf[r]) # {}

Repeated(r) == \E q \in Request : Handle[q] = Handle[r] /\ row[q] # "unseen"

\* Nothing was inserted: the spot taken by register() is released at once.
TurnAway(r) ==
  /\ MayCall(r)
  /\ \E h \in Hops(r) : Admitted(r, h)
  /\ \/ Busy(r) /\ Tell(r, "conversation_busy")
     \/ ~Busy(r) /\ Repeated(r) /\ Tell(r, "duplicate_message")
  /\ UNCHANGED <<waiter, table, worker, faults, history>>

\* register, insertAgentInboxMessage, deliverNow: one stretch without an await.
Accept(r) ==
  /\ MayCall(r)
  /\ ~Busy(r)
  /\ ~Repeated(r)
  /\ \E h \in Hops(r) : Admitted(r, h) /\ hop' = [hop EXCEPT ![r] = h]
  /\ row' = [row EXCEPT ![r] = "pending"]
  /\ due' = due \cup {KeyOf[r]}
  /\ IF r \in Async
       THEN Tell(r, "accepted") /\ UNCHANGED waiter
       ELSE Tell(r, "waiting") /\ waiter' = [waiter EXCEPT ![KeyOf[r]] = r]
  /\ UNCHANGED <<attempts, phase, asked, faults, history>>

\* Faulty variant: the wait is called off once the turn has started.
ExpireUnlessClaimed(r) ==
  /\ call[r] = "waiting"
  /\ row[r] # "processing"
  /\ Tell(r, "expired")
  /\ waiter' = [waiter EXCEPT ![KeyOf[r]] = Nobody]
  /\ UNCHANGED <<table, worker, faults, history>>

\* SYNC_REPLY_TIMEOUT_MS: the caller stops waiting, its row does not.
Expire(r) ==
  /\ call[r] = "waiting"
  /\ Tell(r, "expired")
  /\ waiter' = [waiter EXCEPT ![KeyOf[r]] = Nobody]
  /\ UNCHANGED <<table, worker, faults, history>>

\* Faulty variant: frees the spot whoever holds it now.
SpotsAfterAny(r) == [waiter EXCEPT ![KeyOf[r]] = Nobody]

\* release(): gives up the spot only if it is still the caller's own.
SpotsAfter(r) ==
  IF waiter[KeyOf[r]] = r THEN [waiter EXCEPT ![KeyOf[r]] = Nobody] ELSE waiter

\* runSyncExchange resumes and returns. A caller with a reply first awaits the
\* job it started, which is over if the reply came from a retry.
Return(r) ==
  /\ \/ /\ call[r] = "replied"
        /\ attempts[r] > 1 \/ r \notin asked[KeyOf[r]]
        /\ Tell(r, "ok")
     \/ call[r] = "expired" /\ Tell(r, "no_reply_in_time")
     \/ call[r] = "rejected" /\ Tell(r, "turn_failed")
  /\ waiter' = SpotsAfter(r)
  /\ UNCHANGED <<table, worker, faults, history>>

-----------------------------------------------------------------------------
(* The turn. *)

Move(k, next) == phase' = [phase EXCEPT ![k] = next]

Mark(rows, s) == row' = [r \in Request |-> IF r \in rows THEN s ELSE row[r]]

\* fail(): the parked caller is told at once, not left to its timer.
FailWaiter(k) ==
  IF waiter[k] = Nobody
    THEN UNCHANGED callers
    ELSE Tell(waiter[k], "rejected") /\ waiter' = [waiter EXCEPT ![k] = Nobody]

CanClaim(k) == k \in due /\ phase[k] = "idle" /\ RowsOf(k) # {}

Claim(k) ==
  /\ CanClaim(k)
  /\ due' = due \ {k}
  /\ attempts' = [r \in Request |->
                    IF r \in RowsOf(k) THEN attempts[r] + 1 ELSE attempts[r]]
  /\ UNCHANGED <<hop, faults, history>>

BeginTurn(k) ==
  /\ Claim(k)
  /\ \A r \in RowsOf(k) : attempts[r] < MaxAttempts
  /\ Mark(RowsOf(k), "processing")
  /\ asked' = [asked EXCEPT ![k] = RowsOf(k)]
  /\ Move(k, "asking")
  /\ UNCHANGED callers

\* Earlier processes spent the budget. Only a replay gets here.
Abandon(k) ==
  /\ Claim(k)
  /\ \E r \in RowsOf(k) : attempts[r] >= MaxAttempts
  /\ Mark(RowsOf(k), "failed")
  /\ FailWaiter(k)
  /\ UNCHANGED <<phase, asked>>

\* The agent answered: no tool call of this turn is still open. A parked
\* caller is given the reply; else it goes to the callback, else to nobody.
Deliver(k) ==
  /\ phase[k] = "asking"
  /\ \A r \in Request : ParentOf[r] \in asked[k] => call[r] \notin Open
  /\ IF waiter[k] # Nobody
       THEN /\ Tell(waiter[k], "replied")
            /\ answer' = [answer EXCEPT ![waiter[k]] = asked[k]]
            /\ waiter' = [waiter EXCEPT ![k] = Nobody]
            /\ Move(k, "settling")
       ELSE /\ Move(k, IF asked[k] \cap Async # {} THEN "posting" ELSE "settling")
            /\ UNCHANGED <<callers, answer>>
  /\ UNCHANGED <<table, due, asked, faults, posted>>

\* The callback answered with a 2xx.
PostSucceeds(k) ==
  /\ phase[k] = "posting"
  /\ Move(k, "settling")
  /\ posted' = posted \cup (asked[k] \cap Async)
  /\ UNCHANGED <<callers, table, due, asked, faults, answer>>

\* Faulty variant: a callback that could not be reached is only logged.
PostFailsLogged(k) ==
  /\ phase[k] = "posting"
  /\ Move(k, "settling")
  /\ UNCHANGED <<callers, table, due, asked, faults, history>>

\* The callback did not: the attempt fails.
PostFails(k) ==
  /\ phase[k] = "posting"
  /\ Move(k, "failing")
  /\ UNCHANGED <<callers, table, due, asked, faults, history>>

\* The agent failed; a tool call of its own may still be open.
AgentFails(k) ==
  /\ phase[k] = "asking"
  /\ Move(k, "failing")
  /\ UNCHANGED <<callers, table, due, asked, faults, history>>

EndJob(k) ==
  /\ asked' = [asked EXCEPT ![k] = {}]
  /\ Move(k, "idle")

Settle(k) ==
  /\ phase[k] = "settling"
  /\ Mark(asked[k], "done")
  /\ EndJob(k)
  /\ UNCHANGED <<callers, attempts, hop, due, faults, history>>

LastAttempt(k) == \E r \in asked[k] : attempts[r] >= MaxAttempts

Retry(k) ==
  /\ phase[k] = "failing"
  /\ ~LastAttempt(k)
  /\ Mark(asked[k], "pending")
  /\ due' = due \cup {k}
  /\ EndJob(k)
  /\ UNCHANGED <<callers, attempts, hop, faults, history>>

\* onBatchFailure runs on from the statement that settles the rows.
FailForGood(k) ==
  /\ phase[k] = "failing"
  /\ LastAttempt(k)
  /\ Mark(asked[k], "failed")
  /\ FailWaiter(k)
  /\ EndJob(k)
  /\ UNCHANGED <<attempts, hop, due, faults, history>>

-----------------------------------------------------------------------------
(* What goes wrong. *)

\* claimInboxBatch throws: the job is over and nothing else is armed.
ClaimThrows(k) ==
  /\ dbFaults < MaxDbFaults
  /\ CanClaim(k)
  /\ due' = due \ {k}
  /\ dbFaults' = dbFaults + 1
  /\ UNCHANGED <<callers, table, phase, asked, crashes, history>>

\* markInboxBatchDone throws, inside the try: the attempt fails.
SettleThrows(k) ==
  /\ dbFaults < MaxDbFaults
  /\ phase[k] = "settling"
  /\ Move(k, "failing")
  /\ dbFaults' = dbFaults + 1
  /\ UNCHANGED <<callers, table, due, asked, crashes, history>>

\* The statement in the catch throws: the rows stay 'processing', and a caller
\* that awaits this job is answered with an error.
FailThrows(k) ==
  /\ dbFaults < MaxDbFaults
  /\ phase[k] = "failing"
  /\ EndJob(k)
  /\ call' = [r \in Request |->
                IF r \in asked[k] /\ call[r] = "replied" /\ attempts[r] = 1
                  THEN "error" ELSE call[r]]
  /\ dbFaults' = dbFaults + 1
  /\ UNCHANGED <<waiter, table, due, crashes, history>>

\* The process dies and comes back: callers are cut off, unsettled rows are
\* replayed before the door opens.
Restart ==
  /\ crashes < MaxCrashes
  /\ crashes' = crashes + 1
  /\ call' = [r \in Request |-> IF call[r] \in Open THEN "gone" ELSE call[r]]
  /\ waiter' = [k \in Key |-> Nobody]
  /\ due' = {k \in Key : RowsOf(k) # {}}
  /\ phase' = [k \in Key |-> "idle"]
  /\ asked' = [k \in Key |-> {}]
  /\ UNCHANGED <<table, dbFaults, history>>

Caller(r) == Refuse(r) \/ TurnAway(r) \/ Accept(r) \/ Expire(r) \/ Return(r)

Turn(k) ==
  \/ BeginTurn(k) \/ Abandon(k)
  \/ Deliver(k) \/ AgentFails(k)
  \/ PostSucceeds(k) \/ PostFails(k)
  \/ Settle(k) \/ Retry(k) \/ FailForGood(k)

Fault(k) == ClaimThrows(k) \/ SettleThrows(k) \/ FailThrows(k)

Next ==
  \/ \E r \in Request : Caller(r)
  \/ \E k \in Key : Turn(k) \/ Fault(k)
  \/ Restart

Spec == Init /\ [][Next]_vars

-----------------------------------------------------------------------------
(***************************************************************************)
(* Fairness.  Node fires the timer of a wait and resumes what awaits; a    *)
(* job that is due runs; an agent whose tool calls have all returned ends  *)
(* its turn.  A turn blocked on another agent is not assumed to end.       *)
(***************************************************************************)
Fairness ==
  /\ \A r \in Request : WF_vars(Expire(r)) /\ WF_vars(Return(r))
  /\ \A k \in Key :
       /\ WF_vars(BeginTurn(k) \/ Abandon(k))
       /\ WF_vars(Deliver(k))
       /\ WF_vars(PostSucceeds(k) \/ PostFails(k))
       /\ WF_vars(Settle(k) \/ Retry(k) \/ FailForGood(k))

FairSpec == Spec /\ Fairness
=============================================================================
