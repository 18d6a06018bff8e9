--------------------------- MODULE AgentDoorProofs ---------------------------
(***************************************************************************)
(* Proofs about AgentDoor for every set of conversations and calls, every  *)
(* chain of agents asking agents, and any number of restarts and refused   *)
(* statements.                                                             *)
(***************************************************************************)
EXTENDS AgentDoorProperties, TLAPS

-----------------------------------------------------------------------------
(* What the pieces of a step do. *)

\* fail() tells the caller parked on the key, and nobody else.
LEMMA FailWaiterTellsTheParked ==
  ASSUME TypeOK, ParkedIsOwed, NEW k \in Key, FailWaiter(k)
  PROVE  /\ call' \in [Request -> {"idle"} \cup Open \cup Outcomes]
         /\ waiter' \in [Key -> Request \cup {Nobody}]
         /\ waiter'[k] = Nobody
         /\ \A j \in Key \ {k} : waiter'[j] = waiter[j]
         /\ \A r \in Request :
              IF call[r] = "waiting" /\ KeyOf[r] = k
                THEN call'[r] = "rejected"
                ELSE call'[r] = call[r]
<1>1. CASE waiter[k] = Nobody
  BY <1>1, AgentDoorAssumption DEF FailWaiter, ParkedIsOwed, TypeOK, callers
<1>2. CASE waiter[k] # Nobody
  BY <1>2, AgentDoorAssumption DEF FailWaiter, Tell, ParkedIsOwed, TypeOK, Open
<1>3. QED BY <1>1, <1>2

-----------------------------------------------------------------------------
(* Types *)

LEMMA TypeStep == TypeOK /\ ParkedIsOwed /\ [Next]_vars => TypeOK'
<1> SUFFICES ASSUME TypeOK, ParkedIsOwed, [Next]_vars PROVE TypeOK'
  OBVIOUS
<1>1. ASSUME NEW r \in Request, Accept(r) PROVE TypeOK'
  <2>1. PICK h \in Hops(r) : Admitted(r, h) /\ hop' = [hop EXCEPT ![r] = h]
    BY <1>1 DEF Accept
  <2>2. h \in 0..MaxHop
    <3>1. h \in Nat
      <4>1. CASE ParentOf[r] = Outside
        BY <4>1, AgentDoorAssumption DEF Hops
      <4>2. CASE ParentOf[r] # Outside
        <5>1. ParentOf[r] \in Request
          BY <4>2, AgentDoorAssumption
        <5>2. hop[ParentOf[r]] \in 0..MaxHop
          BY <5>1 DEF TypeOK
        <5>3. h = hop[ParentOf[r]] + 1
          BY <4>2 DEF Hops
        <5>4. QED BY <5>2, <5>3, AgentDoorAssumption
      <4>3. QED BY <4>1, <4>2
    <3>2. QED BY <2>1, <3>1, AgentDoorAssumption DEF Admitted
  <2>3. hop' \in [Request -> 0..MaxHop]
    BY <2>1, <2>2 DEF TypeOK
  <2>4. QED
    BY <1>1, <2>3, AgentDoorAssumption DEF Accept, Tell, TypeOK, Unsettled, Open, Outcomes, faults, history
<1>2. ASSUME NEW r \in Request, Refuse(r) \/ TurnAway(r) \/ Expire(r) \/ Return(r) PROVE TypeOK'
  BY <1>2, AgentDoorAssumption
  DEF Refuse, TurnAway, Expire, Return, SpotsAfter, Tell, TypeOK, Open, Outcomes,
      table, worker, faults, history
<1>3. ASSUME NEW k \in Key, Turn(k) PROVE TypeOK'
  <2>1. CASE BeginTurn(k)
    BY <2>1 DEF BeginTurn, Claim, Mark, Move, RowsOf, TypeOK, Unsettled, callers, faults, history
  <2>2. CASE Abandon(k)
    BY <2>1, <2>2, FailWaiterTellsTheParked
    DEF Abandon, Claim, Mark, RowsOf, TypeOK, Unsettled, faults, history
  <2>3. CASE Deliver(k)
    BY <2>3 DEF Deliver, Tell, Move, TypeOK, Open, callers, table, faults
  <2>4. CASE PostSucceeds(k) \/ PostFails(k) \/ AgentFails(k)
    BY <2>4 DEF PostSucceeds, PostFails, AgentFails, Move, TypeOK, callers, table, faults, history
  <2>5. CASE Settle(k) \/ Retry(k)
    BY <2>5 DEF Settle, Retry, EndJob, Mark, Move, TypeOK, Unsettled, callers, faults, history
  <2>6. CASE FailForGood(k)
    BY <2>6, FailWaiterTellsTheParked
    DEF FailForGood, EndJob, Mark, Move, TypeOK, Unsettled, faults, history
  <2>7. QED BY <1>3, <2>1, <2>2, <2>3, <2>4, <2>5, <2>6 DEF Turn
<1>4. ASSUME NEW k \in Key, Fault(k) PROVE TypeOK'
  BY <1>4, AgentDoorAssumption
  DEF Fault, ClaimThrows, SettleThrows, FailThrows, CanClaim, EndJob, Move, TypeOK, Open, Outcomes,
      callers, table, history
<1>5. CASE Restart
  BY <1>5, AgentDoorAssumption DEF Restart, TypeOK, Open, Outcomes, table, history
<1>6. CASE UNCHANGED vars
  BY <1>6 DEF TypeOK, vars, callers, table, worker, faults, history
<1>7. QED BY <1>1, <1>2, <1>3, <1>4, <1>5, <1>6 DEF Next, Caller

-----------------------------------------------------------------------------
(* What a step may do to the rows and the turns. *)

\* A row enters as the only one in play of its conversation, and one in play
\* stays in play or is settled; the others never change.
LEMMA RowsStep ==
  ASSUME IInv, [Next]_vars, NEW r \in Request
  PROVE  \/ row'[r] = row[r]
         \/ row[r] = "unseen" /\ row'[r] = "pending" /\ RowsOf(KeyOf[r]) = {}
         \/ row[r] \in Unsettled /\ row'[r] \in Unsettled \cup {"done", "failed"}
<1>1. ASSUME NEW q \in Request, Caller(q)
      PROVE  \/ row'[r] = row[r]
             \/ row[r] = "unseen" /\ row'[r] = "pending" /\ RowsOf(KeyOf[r]) = {}
  <2>1. CASE Accept(q)
    <3>1. row[q] = "unseen" /\ RowsOf(KeyOf[q]) = {}
      BY <2>1 DEF Accept, Busy, Repeated
    <3>2. QED BY <2>1, <3>1 DEF Accept, IInv, TypeOK
  <2>2. QED BY <1>1, <2>1 DEF Caller, Refuse, TurnAway, Expire, Return, table
<1>2. ASSUME NEW k \in Key, Turn(k)
      PROVE  \/ row'[r] = row[r]
             \/ row[r] \in Unsettled /\ row'[r] \in Unsettled \cup {"done", "failed"}
  <2>1. asked[k] \subseteq {q \in Request : row[q] \in Unsettled}
    BY DEF IInv, TypeOK, TurnsReadClaimedRows, Unsettled
  <2>2. CASE BeginTurn(k) \/ Abandon(k)
    BY <2>2 DEF BeginTurn, Abandon, Mark, RowsOf, Unsettled
  <2>3. CASE Settle(k) \/ Retry(k) \/ FailForGood(k)
    BY <2>1, <2>3 DEF Settle, Retry, FailForGood, Mark, Unsettled
  <2>4. CASE Deliver(k) \/ AgentFails(k) \/ PostSucceeds(k) \/ PostFails(k)
    BY <2>4 DEF Deliver, AgentFails, PostSucceeds, PostFails, table
  <2>5. QED BY <1>2, <2>2, <2>3, <2>4 DEF Turn
<1>3. ASSUME NEW k \in Key, Fault(k) PROVE row'[r] = row[r]
  BY <1>3 DEF Fault, ClaimThrows, SettleThrows, FailThrows, table
<1>4. CASE Restart \/ UNCHANGED vars
  BY <1>4 DEF Restart, vars, table
<1>5. QED BY <1>1, <1>2, <1>3, <1>4 DEF Next

\* A row enters when its call is accepted, and not otherwise.
LEMMA RowEnters ==
  ASSUME IInv, [Next]_vars, NEW r \in Request, row[r] = "unseen", row'[r] # "unseen"
  PROVE  Accept(r)
<1>1. ASSUME NEW k \in Key, Turn(k) PROVE FALSE
  <2>1. r \notin asked[k] /\ r \notin RowsOf(k)
    BY DEF IInv, TurnsReadClaimedRows, RowsOf, Unsettled
  <2>2. QED
    BY <1>1, <2>1
    DEF Turn, BeginTurn, Abandon, Deliver, AgentFails, PostSucceeds, PostFails, Settle, Retry,
        FailForGood, Mark, table
<1>2. ASSUME NEW k \in Key, Fault(k) PROVE FALSE
  BY <1>2 DEF Fault, ClaimThrows, SettleThrows, FailThrows, table
<1>3. ASSUME NEW a \in Request, Caller(a), ~Accept(r) PROVE FALSE
  <2>1. CASE Accept(a)
    BY <1>3, <2>1 DEF Accept, IInv, TypeOK
  <2>2. QED BY <1>3, <2>1 DEF Caller, Refuse, TurnAway, Expire, Return, table
<1>4. CASE Restart \/ UNCHANGED vars
  BY <1>4 DEF Restart, vars, table
<1>5. QED BY <1>1, <1>2, <1>3, <1>4 DEF Next

LEMMA OneExchangeStep == IInv /\ [Next]_vars => OneExchangePerKey'
<1> SUFFICES ASSUME IInv, [Next]_vars, NEW r \in Request, NEW q \in Request,
                    KeyOf[r] = KeyOf[q], row'[r] \in Unsettled, row'[q] \in Unsettled
             PROVE  r = q
  BY DEF OneExchangePerKey
<1>1. CASE row[r] \in Unsettled /\ row[q] \in Unsettled
  BY <1>1 DEF IInv, OneExchangePerKey
<1>2. CASE \/ row[r] \in Unsettled /\ row[q] = "unseen"
           \/ row[q] \in Unsettled /\ row[r] = "unseen"
  BY <1>2, RowsStep DEF RowsOf, Unsettled
<1>3. CASE row[r] = "unseen" /\ row[q] = "unseen"
  <2>1. PICK a \in Request : Accept(a)
    BY <1>3, RowEnters DEF Unsettled
  <2>2. \A s \in Request \ {a} : row'[s] = row[s]
    BY <2>1 DEF Accept, IInv, TypeOK
  <2>3. QED BY <1>3, <2>2 DEF Unsettled
<1>4. row[r] \in Unsettled \cup {"unseen"} /\ row[q] \in Unsettled \cup {"unseen"}
  <2>1. \A s \in Request : row'[s] \in Unsettled => row[s] \in Unsettled \cup {"unseen"}
    BY RowsStep
  <2>2. QED BY <2>1
<1>5. QED BY <1>1, <1>2, <1>3, <1>4

LEMMA TurnsStep == IInv /\ [Next]_vars => TurnsReadClaimedRows'
<1> SUFFICES ASSUME IInv, [Next]_vars, NEW j \in Key
             PROVE  /\ phase'[j] = "idle" <=> asked'[j] = {}
                    /\ \A r \in asked'[j] : KeyOf[r] = j /\ row'[r] = "processing"
  BY DEF TurnsReadClaimedRows
<1>a. /\ phase[j] = "idle" <=> asked[j] = {}
      /\ \A r \in asked[j] : r \in Request /\ KeyOf[r] = j /\ row[r] = "processing"
  BY DEF IInv, TypeOK, TurnsReadClaimedRows
<1>1. ASSUME NEW a \in Request, Accept(a)
      PROVE  phase'[j] = phase[j] /\ asked'[j] = asked[j] /\ \A r \in asked[j] : row'[r] = row[r]
  <2>1. row[a] = "unseen"
    BY <1>1 DEF Accept, Repeated
  <2>2. QED BY <1>1, <1>a, <2>1 DEF Accept, IInv, TypeOK
<1>2. ASSUME NEW a \in Request, Caller(a), ~Accept(a)
      PROVE  phase'[j] = phase[j] /\ asked'[j] = asked[j] /\ row' = row
  BY <1>2 DEF Caller, Refuse, TurnAway, Expire, Return, table, worker
<1>3. ASSUME NEW k \in Key, Turn(k)
      PROVE  /\ phase'[j] = "idle" <=> asked'[j] = {}
             /\ \A r \in asked'[j] : KeyOf[r] = j /\ row'[r] = "processing"
  <2>1. CASE BeginTurn(k)
    <3>1. RowsOf(k) # {} /\ phase[k] = "idle"
      BY <2>1 DEF BeginTurn, Claim, CanClaim
    <3>2. CASE j = k
      BY <2>1, <3>1, <3>2 DEF BeginTurn, Mark, Move, RowsOf, IInv, TypeOK
    <3>3. CASE j # k
      BY <1>a, <2>1, <3>3 DEF BeginTurn, Mark, Move, RowsOf, IInv, TypeOK
    <3>4. QED BY <3>2, <3>3
  <2>2. CASE Abandon(k)
    <3>1. phase[k] = "idle"
      BY <2>2 DEF Abandon, Claim, CanClaim
    <3>2. \A r \in asked[j] : r \notin RowsOf(k)
      BY <1>a, <3>1 DEF RowsOf
    <3>3. QED BY <1>a, <2>2, <3>2 DEF Abandon, Mark
  <2>3. CASE Deliver(k) \/ AgentFails(k) \/ PostSucceeds(k) \/ PostFails(k)
    BY <1>a, <2>3 DEF Deliver, AgentFails, PostSucceeds, PostFails, Move, IInv, TypeOK, table
  <2>4. CASE Settle(k) \/ Retry(k) \/ FailForGood(k)
    <3>1. phase' = [phase EXCEPT ![k] = "idle"] /\ asked' = [asked EXCEPT ![k] = {}]
      BY <2>4 DEF Settle, Retry, FailForGood, EndJob, Move
    <3>2. \A r \in asked[j] : KeyOf[r] # k => row'[r] = row[r]
      <4>1. \A r \in asked[k] : KeyOf[r] = k
        BY DEF IInv, TurnsReadClaimedRows
      <4>2. QED BY <1>a, <2>4, <4>1 DEF Settle, Retry, FailForGood, Mark
    <3>3. QED BY <1>a, <3>1, <3>2 DEF IInv, TypeOK
  <2>5. QED BY <1>3, <2>1, <2>2, <2>3, <2>4 DEF Turn
<1>4. ASSUME NEW k \in Key, Fault(k)
      PROVE  /\ phase'[j] = "idle" <=> asked'[j] = {}
             /\ \A r \in asked'[j] : KeyOf[r] = j /\ row'[r] = "processing"
  BY <1>a, <1>4
  DEF Fault, ClaimThrows, SettleThrows, FailThrows, EndJob, Move, IInv, TypeOK, table
<1>5. CASE Restart
  BY <1>5 DEF Restart
<1>6. CASE UNCHANGED vars
  BY <1>6, <1>a DEF vars, table, worker
<1>7. QED BY <1>a, <1>1, <1>2, <1>3, <1>4, <1>5, <1>6 DEF Next

\* The turn of a conversation somebody is parked on reads that caller's message
\* and no other.
LEMMA TurnIsOfTheParked ==
  ASSUME IInv, NEW k \in Key, waiter[k] # Nobody, phase[k] # "idle"
  PROVE  asked[k] = {waiter[k]}
<1>1. /\ waiter[k] \in Request
      /\ KeyOf[waiter[k]] = k
      /\ row[waiter[k]] \in Unsettled
  BY DEF IInv, TypeOK, ParkedIsOwed
<1>2. asked[k] # {} /\ \A r \in asked[k] : r \in Request /\ KeyOf[r] = k /\ row[r] \in Unsettled
  BY DEF IInv, TypeOK, TurnsReadClaimedRows, Unsettled
<1>3. QED BY <1>1, <1>2 DEF IInv, OneExchangePerKey

-----------------------------------------------------------------------------
(* What a step may do to the callers. *)

\* A row that is being settled, or given up, has no caller left behind.
LEMMA ParkedStep == IInv /\ [Next]_vars => ParkedIsOwed'
<1> SUFFICES ASSUME IInv, [Next]_vars
             PROVE  /\ \A r \in Request : call'[r] = "waiting" =>
                         waiter'[KeyOf[r]] = r /\ row'[r] \in Unsettled
                    /\ \A k \in Key : waiter'[k] # Nobody =>
                         KeyOf[waiter'[k]] = k /\ call'[waiter'[k]] = "waiting"
  BY DEF ParkedIsOwed
<1> DEFINE Owed ==
      /\ \A r \in Request : call'[r] = "waiting" =>
           waiter'[KeyOf[r]] = r /\ row'[r] \in Unsettled
      /\ \A k \in Key : waiter'[k] # Nobody =>
           KeyOf[waiter'[k]] = k /\ call'[waiter'[k]] = "waiting"
<1>a. /\ \A r \in Request : call[r] = "waiting" =>
           waiter[KeyOf[r]] = r /\ row[r] \in Unsettled
      /\ \A k \in Key : waiter[k] # Nobody =>
           KeyOf[waiter[k]] = k /\ call[waiter[k]] = "waiting" /\ waiter[k] \in Request
  BY DEF IInv, ParkedIsOwed, TypeOK
<1>b. KeyOf \in [Request -> Key] /\ Nobody \notin Request
  BY AgentDoorAssumption
<1>1. ASSUME NEW a \in Request, Accept(a) PROVE Owed
  <2>1. row[a] = "unseen" /\ RowsOf(KeyOf[a]) = {} /\ call[a] = "idle"
    BY <1>1 DEF Accept, MayCall, Busy, Repeated
  <2>2. waiter[KeyOf[a]] = Nobody
    BY <1>a, <1>b, <2>1 DEF RowsOf
  <2>3. /\ row' = [row EXCEPT ![a] = "pending"]
        /\ \/ call' = [call EXCEPT ![a] = "accepted"] /\ waiter' = waiter
           \/ call' = [call EXCEPT ![a] = "waiting"] /\ waiter' = [waiter EXCEPT ![KeyOf[a]] = a]
    BY <1>1 DEF Accept, Tell
  <2>4. QED BY <1>a, <1>b, <2>1, <2>2, <2>3 DEF IInv, TypeOK, Unsettled
<1>2. ASSUME NEW a \in Request, Refuse(a) \/ TurnAway(a) PROVE Owed
  <2>1. PICK what \in {"refused", "conversation_busy", "duplicate_message"} : Tell(a, what)
    BY <1>2 DEF Refuse, TurnAway
  <2>2. call[a] = "idle" /\ row' = row /\ waiter' = waiter
    BY <1>2 DEF Refuse, TurnAway, MayCall, table
  <2>3. QED BY <1>a, <1>b, <2>1, <2>2 DEF Tell, IInv, TypeOK
<1>3. ASSUME NEW a \in Request, Expire(a) PROVE Owed
  BY <1>3, <1>a, <1>b DEF Expire, Tell, IInv, TypeOK, table
<1>4. ASSUME NEW a \in Request, Return(a) PROVE Owed
  <2>1. PICK what \in {"ok", "no_reply_in_time", "turn_failed"} : Tell(a, what)
    BY <1>4 DEF Return
  <2>2. call[a] # "waiting" /\ row' = row
    BY <1>4 DEF Return, table
  <2>3. waiter' = waiter
    <3>1. waiter[KeyOf[a]] # a
      BY <1>a, <1>b, <2>2
    <3>2. QED BY <1>4, <3>1 DEF Return, SpotsAfter
  <2>4. QED BY <1>a, <1>b, <2>1, <2>2, <2>3 DEF Tell, IInv, TypeOK
<1>5. ASSUME NEW k \in Key, Turn(k) PROVE Owed
  <2>1. CASE BeginTurn(k)
    BY <1>a, <2>1 DEF BeginTurn, Mark, callers, Unsettled
  <2>2. CASE Abandon(k)
    <3>1. \A r \in Request : row[r] \in Unsettled /\ KeyOf[r] # k => row'[r] = row[r]
      BY <2>2 DEF Abandon, Mark, RowsOf
    <3>2. FailWaiter(k)
      BY <2>2 DEF Abandon
    <3>3. QED BY <1>a, <1>b, <3>1, <3>2, FailWaiterTellsTheParked DEF IInv
  <2>3. CASE Deliver(k)
    <3>1. CASE waiter[k] # Nobody
      BY <1>a, <1>b, <2>3, <3>1 DEF Deliver, Tell, IInv, TypeOK, table
    <3>2. CASE waiter[k] = Nobody
      BY <1>a, <2>3, <3>2 DEF Deliver, callers, table
    <3>3. QED BY <3>1, <3>2
  <2>4. CASE AgentFails(k) \/ PostSucceeds(k) \/ PostFails(k)
    BY <1>a, <2>4 DEF AgentFails, PostSucceeds, PostFails, callers, table
  <2>5. CASE Settle(k)
    <3>1. waiter[k] = Nobody
      BY <2>5 DEF Settle, IInv, RepliesAreSpent
    <3>2. \A r \in asked[k] : KeyOf[r] = k
      BY DEF IInv, TurnsReadClaimedRows
    <3>3. QED BY <1>a, <1>b, <2>5, <3>1, <3>2 DEF Settle, Mark, callers
  <2>6. CASE Retry(k)
    BY <1>a, <2>6 DEF Retry, Mark, callers, Unsettled
  <2>7. CASE FailForGood(k)
    <3>1. \A r \in asked[k] : KeyOf[r] = k
      BY DEF IInv, TurnsReadClaimedRows
    <3>2. \A r \in Request : KeyOf[r] # k => row'[r] = row[r]
      BY <2>7, <3>1 DEF FailForGood, Mark
    <3>3. FailWaiter(k)
      BY <2>7 DEF FailForGood
    <3>4. QED BY <1>a, <1>b, <3>2, <3>3, FailWaiterTellsTheParked DEF IInv
  <2>8. QED BY <1>5, <2>1, <2>2, <2>3, <2>4, <2>5, <2>6, <2>7 DEF Turn
<1>6. ASSUME NEW k \in Key, Fault(k) PROVE Owed
  <2>1. CASE FailThrows(k)
    BY <1>a, <2>1 DEF FailThrows, table
  <2>2. CASE ClaimThrows(k) \/ SettleThrows(k)
    BY <1>a, <2>2 DEF ClaimThrows, SettleThrows, callers, table
  <2>3. QED BY <1>6, <2>1, <2>2 DEF Fault
<1>7. CASE Restart
  BY <1>7 DEF Restart, Open
<1>8. CASE UNCHANGED vars
  BY <1>8, <1>a DEF vars, callers, table
<1>9. QED BY <1>1, <1>2, <1>3, <1>4, <1>5, <1>6, <1>7, <1>8 DEF Next, Caller

LEMMA SpentStep == IInv /\ [Next]_vars => RepliesAreSpent'
<1> SUFFICES ASSUME IInv, [Next]_vars, NEW j \in Key
             PROVE  /\ phase'[j] \in {"posting", "settling"} => waiter'[j] = Nobody
                    /\ phase'[j] = "settling" => asked'[j] \cap Async \subseteq posted'
  BY DEF RepliesAreSpent
<1> DEFINE Spent ==
      /\ phase'[j] \in {"posting", "settling"} => waiter'[j] = Nobody
      /\ phase'[j] = "settling" => asked'[j] \cap Async \subseteq posted'
<1>a. /\ phase[j] \in {"posting", "settling"} => waiter[j] = Nobody
      /\ phase[j] = "settling" => asked[j] \cap Async \subseteq posted
  BY DEF IInv, RepliesAreSpent
<1>1. ASSUME NEW a \in Request, Accept(a) PROVE Spent
  <2>1. phase[j] # "idle" => KeyOf[a] # j
    <3>1. phase[j] # "idle" => RowsOf(j) # {}
      BY DEF IInv, TypeOK, TurnsReadClaimedRows, RowsOf, Unsettled
    <3>2. QED BY <1>1, <3>1 DEF Accept, Busy
  <2>2. phase'[j] # "idle" => waiter'[j] = waiter[j]
    BY <1>1, <2>1, AgentDoorAssumption DEF Accept, IInv, TypeOK
  <2>3. QED BY <1>1, <1>a, <2>2 DEF Accept, history
<1>2. ASSUME NEW a \in Request, Caller(a), ~Accept(a) PROVE Spent
  <2>1. waiter'[j] \in {waiter[j], Nobody}
    BY <1>2, AgentDoorAssumption
    DEF Caller, Refuse, TurnAway, Expire, Return, SpotsAfter, IInv, TypeOK
  <2>2. QED BY <1>2, <1>a, <2>1 DEF Caller, Refuse, TurnAway, Expire, Return, worker, history
<1>3. ASSUME NEW k \in Key, Turn(k) PROVE Spent
  <2>1. CASE BeginTurn(k)
    BY <1>a, <2>1 DEF BeginTurn, Claim, Move, IInv, TypeOK, callers, history
  <2>2. CASE Abandon(k) \/ FailForGood(k)
    <3>1. waiter'[j] \in {waiter[j], Nobody}
      BY <2>2, FailWaiterTellsTheParked DEF Abandon, FailForGood, IInv
    <3>2. QED BY <1>a, <2>2, <3>1 DEF Abandon, FailForGood, Claim, EndJob, Move, IInv, TypeOK, history
  <2>3. CASE Deliver(k)
    <3>1. CASE waiter[k] # Nobody
      <4>1. asked[k] \cap Async = {}
        BY <2>3, <3>1, TurnIsOfTheParked DEF Deliver, IInv, TypeOK, ParkedIsOwed, CallersAreAccounted
      <4>2. QED BY <1>a, <2>3, <3>1, <4>1 DEF Deliver, Move, IInv, TypeOK
    <3>2. CASE waiter[k] = Nobody
      BY <1>a, <2>3, <3>2 DEF Deliver, Move, IInv, TypeOK, callers
    <3>3. QED BY <3>1, <3>2
  <2>4. CASE PostSucceeds(k) \/ PostFails(k) \/ AgentFails(k)
    BY <1>a, <2>4 DEF PostSucceeds, PostFails, AgentFails, Move, IInv, TypeOK, callers, history
  <2>5. CASE Settle(k) \/ Retry(k)
    BY <1>a, <2>5 DEF Settle, Retry, EndJob, Move, IInv, TypeOK, callers, history
  <2>6. QED BY <1>3, <2>1, <2>2, <2>3, <2>4, <2>5 DEF Turn
<1>4. ASSUME NEW k \in Key, Fault(k) PROVE Spent
  BY <1>4, <1>a
  DEF Fault, ClaimThrows, SettleThrows, FailThrows, EndJob, Move, IInv, TypeOK, callers, history
<1>5. CASE Restart
  BY <1>5 DEF Restart
<1>6. CASE UNCHANGED vars
  BY <1>6, <1>a DEF vars, callers, worker, history
<1>7. QED BY <1>1, <1>2, <1>3, <1>4, <1>5, <1>6 DEF Next

-----------------------------------------------------------------------------
(* What a step may do to the answers and the outcomes. *)

LEMMA AnswerStep == IInv /\ [Next]_vars => AnswerIsOwn'
<1> SUFFICES ASSUME IInv, [Next]_vars PROVE AnswerIsOwn'
  OBVIOUS
<1>1. ASSUME NEW k \in Key, Deliver(k), waiter[k] # Nobody PROVE AnswerIsOwn'
  <2>1. asked[k] = {waiter[k]} /\ waiter[k] \in Request
    BY <1>1, TurnIsOfTheParked DEF Deliver, IInv, TypeOK
  <2>2. answer' = [answer EXCEPT ![waiter[k]] = {waiter[k]}]
    BY <1>1, <2>1 DEF Deliver
  <2>3. QED BY <2>1, <2>2 DEF IInv, TypeOK, AnswerIsOwn
<1>2. CASE answer' = answer
  BY <1>2 DEF IInv, AnswerIsOwn
<1>3. QED
  BY <1>1, <1>2
  DEF Next, Caller, Refuse, TurnAway, Accept, Expire, Return, Turn, BeginTurn, Abandon, Claim, Deliver,
      AgentFails, PostSucceeds, PostFails, Settle, Retry, FailForGood, Fault, ClaimThrows, SettleThrows,
      FailThrows, Restart, vars, history

\* How the outcome of a call may change in a step that leaves it as it was, or
\* moves it on; only Deliver and what gives a row up answer a parked caller.
LEMMA CallsStep ==
  ASSUME IInv, [Next]_vars, NEW r \in Request
  PROVE  \/ call'[r] = call[r]
         \/ call[r] = "idle" /\ call'[r] \in {"refused", "conversation_busy", "duplicate_message"}
         \/ call[r] = "idle" /\ row[r] = "unseen"
              /\ call'[r] = (IF r \in Async THEN "accepted" ELSE "waiting")
         \/ call[r] = "waiting" /\ call'[r] = "expired"
         \/ call[r] = "waiting" /\ call'[r] = "replied" /\ answer'[r] = {r}
         \/ call[r] = "waiting" /\ call'[r] = "rejected" /\ row'[r] = "failed"
         \/ call[r] = "replied" /\ call'[r] \in {"ok", "error"}
         \/ call[r] = "expired" /\ call'[r] = "no_reply_in_time"
         \/ call[r] = "rejected" /\ call'[r] = "turn_failed"
         \/ call[r] \in Open /\ call'[r] = "gone"
<1> DEFINE Moved ==
         \/ call'[r] = call[r]
         \/ call[r] = "idle" /\ call'[r] \in {"refused", "conversation_busy", "duplicate_message"}
         \/ call[r] = "idle" /\ row[r] = "unseen"
              /\ call'[r] = (IF r \in Async THEN "accepted" ELSE "waiting")
         \/ call[r] = "waiting" /\ call'[r] = "expired"
         \/ call[r] = "waiting" /\ call'[r] = "replied" /\ answer'[r] = {r}
         \/ call[r] = "waiting" /\ call'[r] = "rejected" /\ row'[r] = "failed"
         \/ call[r] = "replied" /\ call'[r] \in {"ok", "error"}
         \/ call[r] = "expired" /\ call'[r] = "no_reply_in_time"
         \/ call[r] = "rejected" /\ call'[r] = "turn_failed"
         \/ call[r] \in Open /\ call'[r] = "gone"
<1>1. ASSUME NEW a \in Request, Caller(a) PROVE Moved
  <2>1. CASE Accept(a)
    <3>1. row[a] = "unseen" /\ call[a] = "idle"
      BY <2>1 DEF Accept, MayCall, Repeated
    <3>2. call' = [call EXCEPT ![a] = IF a \in Async THEN "accepted" ELSE "waiting"]
      BY <2>1 DEF Accept, Tell
    <3>3. QED BY <3>1, <3>2 DEF IInv, TypeOK
  <2>2. CASE Refuse(a) \/ TurnAway(a)
    BY <2>2 DEF Refuse, TurnAway, MayCall, Tell, IInv, TypeOK
  <2>3. CASE Expire(a) \/ Return(a)
    BY <2>3 DEF Expire, Return, Tell, IInv, TypeOK
  <2>4. QED BY <1>1, <2>1, <2>2, <2>3 DEF Caller
<1>2. ASSUME NEW k \in Key, Turn(k) PROVE Moved
  <2>1. CASE Deliver(k)
    <3>1. CASE waiter[k] # Nobody
      <4>1. asked[k] = {waiter[k]} /\ waiter[k] \in Request /\ call[waiter[k]] = "waiting"
        BY <2>1, <3>1, TurnIsOfTheParked DEF Deliver, IInv, TypeOK, ParkedIsOwed
      <4>2. /\ call' = [call EXCEPT ![waiter[k]] = "replied"]
            /\ answer' = [answer EXCEPT ![waiter[k]] = {waiter[k]}]
        BY <2>1, <3>1, <4>1 DEF Deliver, Tell
      <4>3. QED BY <4>1, <4>2 DEF IInv, TypeOK
    <3>2. CASE waiter[k] = Nobody
      BY <2>1, <3>2 DEF Deliver, callers
    <3>3. QED BY <3>1, <3>2
  <2>2. CASE Abandon(k) \/ FailForGood(k)
    <3>1. call[r] = "waiting" /\ KeyOf[r] = k => row'[r] = "failed"
      <4>1. ASSUME call[r] = "waiting", KeyOf[r] = k PROVE row[r] \in Unsettled /\ waiter[k] = r
        BY <4>1 DEF IInv, ParkedIsOwed
      <4>2. CASE Abandon(k)
        BY <4>1, <4>2 DEF Abandon, Mark, RowsOf
      <4>3. CASE FailForGood(k)
        <5>1. ASSUME call[r] = "waiting", KeyOf[r] = k PROVE r \in asked[k]
          BY <4>1, <4>3, <5>1, TurnIsOfTheParked, AgentDoorAssumption DEF FailForGood
        <5>2. QED BY <4>3, <5>1 DEF FailForGood, Mark
      <4>4. QED BY <2>2, <4>2, <4>3
    <3>2. FailWaiter(k)
      BY <2>2 DEF Abandon, FailForGood
    <3>3. QED BY <3>1, <3>2, FailWaiterTellsTheParked DEF IInv
  <2>3. CASE BeginTurn(k) \/ AgentFails(k) \/ PostSucceeds(k) \/ PostFails(k) \/ Settle(k) \/ Retry(k)
    BY <2>3 DEF BeginTurn, AgentFails, PostSucceeds, PostFails, Settle, Retry, callers
  <2>4. QED BY <1>2, <2>1, <2>2, <2>3 DEF Turn
<1>3. ASSUME NEW k \in Key, Fault(k) PROVE Moved
  BY <1>3 DEF Fault, ClaimThrows, SettleThrows, FailThrows, callers
<1>4. CASE Restart \/ UNCHANGED vars
  BY <1>4 DEF Restart, vars, callers
<1>5. QED BY <1>1, <1>2, <1>3, <1>4 DEF Next

LEMMA FailedStep == IInv /\ [Next]_vars => FailedMeansFailed'
<1> SUFFICES ASSUME IInv, [Next]_vars, NEW r \in Request, call'[r] \in {"rejected", "turn_failed"}
             PROVE  row'[r] = "failed"
  BY DEF FailedMeansFailed
<1>1. \/ call[r] \in {"rejected", "turn_failed"} /\ row[r] = "failed"
      \/ row'[r] = "failed"
  BY CallsStep DEF IInv, FailedMeansFailed
<1>2. QED BY <1>1, RowsStep DEF Unsettled

\* A row is settled only by a turn whose caller is no longer parked, and whose
\* callback has the reply.
LEMMA SettlingStep ==
  ASSUME IInv, [Next]_vars, NEW r \in Request, row[r] # "done", row'[r] = "done"
  PROVE  call'[r] = call[r] /\ call[r] # "waiting" /\ (r \in Async => r \in posted')
<1>1. PICK k \in Key : Settle(k) /\ r \in asked[k]
  <2>1. ASSUME NEW a \in Request, Caller(a) PROVE FALSE
    <3>1. CASE Accept(a)
      BY <3>1 DEF Accept, IInv, TypeOK
    <3>2. QED BY <2>1, <3>1 DEF Caller, Refuse, TurnAway, Expire, Return, table
  <2>2. ASSUME NEW k \in Key, Turn(k), ~(Settle(k) /\ r \in asked[k]) PROVE FALSE
    BY <2>2
    DEF Turn, BeginTurn, Abandon, Deliver, AgentFails, PostSucceeds, PostFails, Settle, Retry,
        FailForGood, Mark, table
  <2>3. ASSUME NEW k \in Key, Fault(k) PROVE FALSE
    BY <2>3 DEF Fault, ClaimThrows, SettleThrows, FailThrows, table
  <2>4. CASE Restart \/ UNCHANGED vars
    BY <2>4 DEF Restart, vars, table
  <2>5. QED BY <2>1, <2>2, <2>3, <2>4 DEF Next
<1>2. KeyOf[r] = k /\ waiter[k] = Nobody /\ asked[k] \cap Async \subseteq posted
  BY <1>1 DEF Settle, IInv, TurnsReadClaimedRows, RepliesAreSpent
<1>3. call[r] # "waiting"
  BY <1>2, AgentDoorAssumption DEF IInv, ParkedIsOwed
<1>4. QED BY <1>1, <1>2, <1>3 DEF Settle, callers, history

\* A reply that was given stays given.
LEMMA HistoryStep ==
  ASSUME IInv, [Next]_vars, NEW r \in Request
  PROVE  /\ answer[r] = {r} => answer'[r] = {r}
         /\ r \in posted => r \in posted'
<1>1. ASSUME NEW k \in Key, Deliver(k) PROVE answer[r] = {r} => answer'[r] = {r}
  <2>1. CASE waiter[k] # Nobody
    <3>1. answer' = [answer EXCEPT ![waiter[k]] = {waiter[k]}] /\ waiter[k] \in Request
      BY <1>1, <2>1, TurnIsOfTheParked DEF Deliver, IInv, TypeOK
    <3>2. QED BY <3>1 DEF IInv, TypeOK
  <2>2. CASE waiter[k] = Nobody
    BY <1>1, <2>2 DEF Deliver
  <2>3. QED BY <2>1, <2>2
<1>2. posted \subseteq posted' /\ (answer' = answer \/ \E k \in Key : Deliver(k))
  BY DEF Next, Caller, Refuse, TurnAway, Accept, Expire, Return, Turn, BeginTurn, Abandon, Claim, Deliver,
         AgentFails, PostSucceeds, PostFails, Settle, Retry, FailForGood, Fault, ClaimThrows, SettleThrows,
         FailThrows, Restart, vars, history
<1>3. QED BY <1>1, <1>2

LEMMA AccountedStep == IInv /\ [Next]_vars => CallersAreAccounted'
<1> SUFFICES ASSUME IInv, [Next]_vars, NEW r \in Request
             PROVE  /\ call'[r] = "waiting" => r \notin Async
                    /\ r \notin Async /\ row'[r] \in Unsettled \cup {"done"} =>
                         \/ answer'[r] = {r}
                         \/ call'[r] \in {"waiting", "expired", "no_reply_in_time", "gone"}
  BY DEF CallersAreAccounted
<1>1. call'[r] = "waiting" => r \notin Async
  BY CallsStep DEF IInv, CallersAreAccounted
<1>2. ASSUME r \notin Async, row'[r] \in Unsettled \cup {"done"}
      PROVE  \/ answer'[r] = {r}
             \/ call'[r] \in {"waiting", "expired", "no_reply_in_time", "gone"}
  <2>1. CASE row[r] = "unseen"
    <3>1. Accept(r)
      BY <1>2, <2>1, RowEnters DEF Unsettled
    <3>2. call' = [call EXCEPT ![r] = "waiting"]
      BY <1>2, <3>1 DEF Accept, Tell
    <3>3. QED BY <3>2 DEF IInv, TypeOK
  <2>2. CASE row[r] \in Unsettled \cup {"done"}
    <3>1. \/ answer[r] = {r}
          \/ call[r] \in {"waiting", "expired", "no_reply_in_time", "gone"}
      BY <1>2, <2>2 DEF IInv, CallersAreAccounted
    <3>2. CASE answer[r] = {r}
      BY <3>2, HistoryStep
    <3>3. CASE call[r] \in {"waiting", "expired", "no_reply_in_time", "gone"}
      BY <1>2, <3>3, CallsStep DEF Unsettled, Open
    <3>4. QED BY <3>1, <3>2, <3>3
  <2>3. QED BY <1>2, <2>1, <2>2, RowsStep DEF Unsettled
<1>3. QED BY <1>1, <1>2

LEMMA DoneStep == IInv /\ [Next]_vars => DoneWasAnswered'
<1> SUFFICES ASSUME IInv, [Next]_vars, NEW r \in Request, row'[r] = "done"
             PROVE  IF r \in Async THEN r \in posted'
                    ELSE answer'[r] = {r} \/ call'[r] \in {"expired", "no_reply_in_time", "gone"}
  BY DEF DoneWasAnswered
<1>1. CASE row[r] = "done"
  <2>1. IF r \in Async THEN r \in posted
        ELSE answer[r] = {r} \/ call[r] \in {"expired", "no_reply_in_time", "gone"}
    BY <1>1 DEF IInv, DoneWasAnswered
  <2>2. QED BY <1>1, <2>1, HistoryStep, CallsStep DEF Open
<1>2. CASE row[r] # "done"
  <2>1. call'[r] = call[r] /\ call[r] # "waiting" /\ (r \in Async => r \in posted')
    BY <1>2, SettlingStep
  <2>2. r \notin Async => \/ answer'[r] = {r}
                          \/ call'[r] \in {"waiting", "expired", "no_reply_in_time", "gone"}
    BY AccountedStep DEF CallersAreAccounted
  <2>3. QED BY <2>1, <2>2
<1>3. QED BY <1>1, <1>2

-----------------------------------------------------------------------------
(* What a step may do to the hops. *)

\* The hops of a row that was seen never change.
LEMMA HopsStay ==
  ASSUME IInv, [Next]_vars, NEW r \in Request, row[r] # "unseen"
  PROVE  hop'[r] = hop[r] /\ row'[r] # "unseen"
<1>1. hop'[r] = hop[r]
  <2>1. ASSUME NEW a \in Request, Accept(a) PROVE hop'[r] = hop[r]
    <3>1. row[a] = "unseen"
      BY <2>1 DEF Accept, Repeated
    <3>2. QED BY <2>1, <3>1 DEF Accept, IInv, TypeOK
  <2>2. CASE hop' = hop
    BY <2>2
  <2>3. QED
    BY <2>1, <2>2
    DEF Next, Caller, Refuse, TurnAway, Expire, Return, Turn, BeginTurn, Abandon, Claim, Deliver,
        AgentFails, PostSucceeds, PostFails, Settle, Retry, FailForGood, Fault, ClaimThrows,
        SettleThrows, FailThrows, Restart, vars, table
<1>2. row'[r] # "unseen"
  BY RowsStep DEF Unsettled
<1>3. QED BY <1>1, <1>2

\* A call made by a turn has taken one hop more than the turn's own row, which
\* was seen; any other has taken one at least.
LEMMA HopsOfACall ==
  ASSUME IInv, NEW r \in Request, Accept(r)
  PROVE  /\ hop'[r] >= 1
         /\ \A p \in Request : ParentOf[r] = p =>
              row[p] # "unseen" /\ hop'[r] = hop[p] + 1
<1>1. PICK h \in Hops(r) : hop' = [hop EXCEPT ![r] = h]
  BY DEF Accept
<1>2. hop'[r] = h
  BY <1>1 DEF IInv, TypeOK
<1>3. CASE ParentOf[r] = Outside
  BY <1>2, <1>3, AgentDoorAssumption DEF Hops
<1>4. CASE ParentOf[r] # Outside
  <2>1. ParentOf[r] \in Request /\ hop[ParentOf[r]] \in 0..MaxHop
    BY <1>4, AgentDoorAssumption DEF IInv, TypeOK
  <2>2. h = hop[ParentOf[r]] + 1
    BY <1>4 DEF Hops
  <2>3. row[ParentOf[r]] = "processing"
    <3>1. ParentOf[r] \in asked[KeyOf[ParentOf[r]]]
      BY <1>4 DEF Accept, MayCall, Asking
    <3>2. QED BY <2>1, <3>1, AgentDoorAssumption DEF IInv, TurnsReadClaimedRows
  <2>4. QED BY <1>2, <2>1, <2>2, <2>3, AgentDoorAssumption
<1>5. QED BY <1>3, <1>4

LEMMA HopsStep == IInv /\ [Next]_vars => HopsCoverTheChain'
<1> SUFFICES ASSUME IInv, [Next]_vars, NEW chain \in TooLongChains, NEW i \in 1..(MaxHop + 1),
                    row'[chain[i]] # "unseen"
             PROVE  hop'[chain[i]] >= i
  BY DEF HopsCoverTheChain
<1>1. chain[i] \in Request
  BY DEF TooLongChains
<1>2. CASE row[chain[i]] # "unseen"
  BY <1>1, <1>2, HopsStay DEF IInv, HopsCoverTheChain
<1>3. CASE row[chain[i]] = "unseen"
  <2>1. Accept(chain[i])
    BY <1>1, <1>3, RowEnters
  <2>2. CASE i = 1
    BY <1>1, <2>1, <2>2, HopsOfACall
  <2>3. CASE i # 1
    <3>1. i - 1 \in 1..MaxHop /\ i - 1 \in 1..(MaxHop + 1) /\ (i - 1) + 1 = i
      BY <2>3, AgentDoorAssumption
    <3>2. ParentOf[chain[i]] = chain[i - 1] /\ chain[i - 1] \in Request
      BY <3>1 DEF TooLongChains
    <3>3. row[chain[i - 1]] # "unseen" /\ hop'[chain[i]] = hop[chain[i - 1]] + 1
      BY <1>1, <2>1, <3>2, HopsOfACall
    <3>4. hop[chain[i - 1]] >= i - 1
      BY <3>1, <3>3 DEF IInv, HopsCoverTheChain
    <3>5. hop[chain[i - 1]] \in 0..MaxHop
      BY <3>2 DEF IInv, TypeOK
    <3>6. QED BY <3>1, <3>3, <3>4, <3>5, AgentDoorAssumption
  <2>4. QED BY <2>2, <2>3
<1>4. QED BY <1>2, <1>3

-----------------------------------------------------------------------------
(* The theorems *)

LEMMA InitIInv == Init => IInv
BY AgentDoorAssumption
DEF Init, IInv, TypeOK, OneExchangePerKey, TurnsReadClaimedRows, ParkedIsOwed, RepliesAreSpent,
    AnswerIsOwn, CallersAreAccounted, FailedMeansFailed, DoneWasAnswered, HopsCoverTheChain,
    TooLongChains, Unsettled

\* Every step preserves the inductive invariant.
LEMMA StepIInv == IInv /\ [Next]_vars => IInv'
BY TypeStep, OneExchangeStep, TurnsStep, ParkedStep, SpentStep, AnswerStep, AccountedStep,
   FailedStep, DoneStep, HopsStep
DEF IInv

THEOREM InductiveInvariant == Spec => []IInv
BY InitIInv, StepIInv, PTL DEF Spec

\* Type correctness; no admitted call has taken more than MAX_HOP hops.
THEOREM TypeInvariant == Spec => []TypeOK
BY InductiveInvariant, PTL DEF IInv

\* A caller is only ever given the reply to its own message.
THEOREM OwnAnswers == Spec => []AnswerIsOwn
BY InductiveInvariant, PTL DEF IInv

\* A parked caller holds its spot and its row is in play; no spot is left taken.
THEOREM SpotsAreOwed == Spec => []ParkedIsOwed
BY InductiveInvariant, PTL DEF IInv

\* A caller told that nothing is coming is told the truth.
THEOREM FailuresAreFinal == Spec => []FailedMeansFailed
BY InductiveInvariant, PTL DEF IInv

\* A row is done only if its reply got to whoever still wanted it.
THEOREM NoAnswerIsLost == Spec => []DoneWasAnswered
BY InductiveInvariant, PTL DEF IInv

\* However agents ask each other, no chain of calls outgrows MAX_HOP.
THEOREM BoundedChains == Spec => []ChainsAreBounded
<1>1. IInv => ChainsAreBounded
  <2> SUFFICES ASSUME IInv, NEW chain \in TooLongChains
               PROVE  row[chain[MaxHop + 1]] = "unseen"
    BY DEF ChainsAreBounded
  <2>1. MaxHop + 1 \in 1..(MaxHop + 1) /\ chain[MaxHop + 1] \in Request
    BY AgentDoorAssumption DEF TooLongChains
  <2>2. hop[chain[MaxHop + 1]] \in 0..MaxHop
    BY <2>1 DEF IInv, TypeOK
  <2>3. ~(hop[chain[MaxHop + 1]] >= MaxHop + 1)
    BY <2>2, AgentDoorAssumption
  <2>4. QED BY <2>1, <2>3 DEF IInv, HopsCoverTheChain
<1>2. QED BY <1>1, InductiveInvariant, PTL

-----------------------------------------------------------------------------
(* The refinement of ExchangePromise. *)

NotAdmitted == {"idle", "refused", "conversation_busy", "duplicate_message"}

\* What a caller knows fits its row, its reply and the way it asked.
CallsFit ==
  /\ posted \subseteq Async
  /\ \A r \in Request :
       /\ row[r] = "unseen" <=> call[r] \in NotAdmitted
       /\ answer[r] # {} => call[r] \in {"replied", "ok", "error", "gone"}
       /\ call[r] = "replied" => answer[r] # {}
       /\ r \in Async => call[r] \in NotAdmitted \cup {"accepted"}

\* The rows of a conversation that are in play are one row at most.
LEMMA TurnIsOfOne ==
  ASSUME IInv, NEW k \in Key, phase[k] # "idle"
  PROVE  \E r \in Request : asked[k] = {r} /\ KeyOf[r] = k /\ row[r] = "processing"
<1>1. asked[k] # {} /\ asked[k] \subseteq Request
  BY DEF IInv, TypeOK, TurnsReadClaimedRows
<1>2. \A r \in asked[k] : KeyOf[r] = k /\ row[r] = "processing"
  BY DEF IInv, TurnsReadClaimedRows
<1>3. PICK r \in Request : r \in asked[k]
  BY <1>1
<1>4. \A q \in asked[k] : q = r
  BY <1>1, <1>2, <1>3 DEF IInv, OneExchangePerKey, Unsettled
<1>. QED
  BY <1>2, <1>3, <1>4

LEMMA OneRowInPlay ==
  ASSUME IInv, NEW k \in Key, RowsOf(k) # {}
  PROVE  \E r \in Request : RowsOf(k) = {r} /\ KeyOf[r] = k /\ row[r] \in Unsettled
<1>1. PICK r \in RowsOf(k) : TRUE
  OBVIOUS
<1>2. \A q \in RowsOf(k) : q = r
  BY <1>1 DEF RowsOf, IInv, OneExchangePerKey
<1>. QED
  BY <1>1, <1>2 DEF RowsOf

LEMMA FailWaiterFits ==
  ASSUME IInv, CallsFit, NEW k \in Key, FailWaiter(k),
         UNCHANGED history, \A r \in Request : row'[r] = "unseen" <=> row[r] = "unseen"
  PROVE  CallsFit'
<1>1. \A r \in Request : \/ call'[r] = call[r]
                         \/ call[r] = "waiting" /\ call'[r] = "rejected"
  BY FailWaiterTellsTheParked DEF IInv
<1>2. answer' = answer /\ posted' = posted
  BY DEF history
<1>. QED
  BY <1>1, <1>2 DEF CallsFit, NotAdmitted

LEMMA CallsFitStep == IInv /\ CallsFit /\ [Next]_vars => CallsFit'
<1> SUFFICES ASSUME IInv, CallsFit, [Next]_vars PROVE CallsFit'
  OBVIOUS
<1>1. ASSUME NEW r \in Request, Refuse(r) \/ TurnAway(r) PROVE CallsFit'
  BY <1>1 DEF Refuse, TurnAway, MayCall, Tell, table, history, IInv, TypeOK, CallsFit, NotAdmitted
<1>2. ASSUME NEW r \in Request, Accept(r) PROVE CallsFit'
  <2>1. call[r] = "idle" /\ answer' = answer /\ posted' = posted
    BY <1>2 DEF Accept, MayCall, history
  <2>2. call'[r] = IF r \in Async THEN "accepted" ELSE "waiting"
    BY <1>2 DEF Accept, Tell, IInv, TypeOK
  <2>3. row'[r] = "pending"
    BY <1>2 DEF Accept, IInv, TypeOK
  <2>4. \A q \in Request \ {r} : call'[q] = call[q] /\ row'[q] = row[q]
    BY <1>2 DEF Accept, Tell, IInv, TypeOK
  <2>. QED
    BY <2>1, <2>2, <2>3, <2>4 DEF CallsFit, NotAdmitted
<1>3. ASSUME NEW r \in Request, Expire(r) \/ Return(r) PROVE CallsFit'
  BY <1>3 DEF Expire, Return, Tell, table, history, IInv, TypeOK, CallsFit, NotAdmitted
<1>4. ASSUME NEW k \in Key, BeginTurn(k) PROVE CallsFit'
  BY <1>4 DEF BeginTurn, Claim, Mark, RowsOf, Unsettled, callers, history, CallsFit, NotAdmitted
<1>5. ASSUME NEW k \in Key, Abandon(k) PROVE CallsFit'
  <2>1. \A r \in Request : row'[r] = "unseen" <=> row[r] = "unseen"
    BY <1>5 DEF Abandon, Mark, RowsOf, Unsettled
  <2>. QED
    BY <1>5, <2>1, FailWaiterFits DEF Abandon, Claim
<1>6. ASSUME NEW k \in Key, Deliver(k) PROVE CallsFit'
  <2>1. CASE waiter[k] = Nobody
    BY <1>6, <2>1 DEF Deliver, callers, table, CallsFit, NotAdmitted
  <2>2. CASE waiter[k] # Nobody
    <3>1. waiter[k] \in Request /\ call[waiter[k]] = "waiting"
      BY <2>2 DEF IInv, TypeOK, ParkedIsOwed
    <3>2. asked[k] # {}
      BY <1>6 DEF Deliver, IInv, TurnsReadClaimedRows
    <3>3. call'[waiter[k]] = "replied" /\ answer'[waiter[k]] # {}
      BY <1>6, <2>2, <3>1, <3>2 DEF Deliver, Tell, IInv, TypeOK
    <3>4. \A r \in Request \ {waiter[k]} : call'[r] = call[r] /\ answer'[r] = answer[r]
      BY <1>6, <2>2, <3>1 DEF Deliver, Tell, IInv, TypeOK
    <3>5. row' = row /\ posted' = posted
      BY <1>6 DEF Deliver, table
    <3>. QED
      BY <3>1, <3>3, <3>4, <3>5 DEF CallsFit, NotAdmitted
  <2>. QED
    BY <2>1, <2>2
<1>7. ASSUME NEW k \in Key, AgentFails(k) \/ PostSucceeds(k) \/ PostFails(k) PROVE CallsFit'
  BY <1>7 DEF AgentFails, PostSucceeds, PostFails, callers, table, history, CallsFit, NotAdmitted
<1>8. ASSUME NEW k \in Key, Settle(k) \/ Retry(k) PROVE CallsFit'
  <2>1. \A r \in Request : row'[r] = "unseen" <=> row[r] = "unseen"
    BY <1>8 DEF Settle, Retry, Mark, IInv, TurnsReadClaimedRows
  <2>. QED
    BY <1>8, <2>1 DEF Settle, Retry, callers, history, CallsFit, NotAdmitted
<1>9. ASSUME NEW k \in Key, FailForGood(k) PROVE CallsFit'
  <2>1. \A r \in Request : row'[r] = "unseen" <=> row[r] = "unseen"
    BY <1>9 DEF FailForGood, Mark, IInv, TurnsReadClaimedRows
  <2>. QED
    BY <1>9, <2>1, FailWaiterFits DEF FailForGood
<1>10. ASSUME NEW k \in Key, Fault(k) PROVE CallsFit'
  BY <1>10 DEF Fault, ClaimThrows, SettleThrows, FailThrows, callers, table, history,
               CallsFit, NotAdmitted
<1>11. CASE Restart
  BY <1>11 DEF Restart, Open, table, history, CallsFit, NotAdmitted
<1>12. CASE UNCHANGED vars
  BY <1>12 DEF vars, callers, table, history, CallsFit, NotAdmitted
<1>. QED
  BY <1>1, <1>2, <1>3, <1>4, <1>5, <1>6, <1>7, <1>8, <1>9, <1>10, <1>11, <1>12
  DEF Next, Caller, Turn

\* What leaves every exchange, reply and word alone cannot be seen from outside.
LEMMA NothingSeen ==
  ASSUME \A r \in Request : ExchangeOf(r)' = ExchangeOf(r) /\ ToldTo(r)' = ToldTo(r),
         UNCHANGED history
  PROVE  UNCHANGED Exchange!promiseVars
BY DEF Exchange!promiseVars, history

\* A step that is about the row of one request, and tells nobody anything.
LEMMA RowMoves ==
  ASSUME NEW r \in Request, NEW to,
         \A q \in Request : ExchangeOf(q)' = (IF q = r THEN to ELSE ExchangeOf(q)),
         \A q \in Request : ToldTo(q)' = ToldTo(q),
         UNCHANGED history
  PROVE  Exchange!Become(r, to)
         /\ UNCHANGED <<{q \in Request : answer[q] # {}} \cup posted,
                        [q \in Request |-> ToldTo(q)]>>
BY DEF Exchange!Become, history

LEMMA RefusalIsTurnedAway ==
  ASSUME IInv, CallsFit, NEW r \in Request, Refuse(r) \/ TurnAway(r)
  PROVE  Exchange!TurnedAway(r)
<1>1. call[r] = "idle" /\ call'[r] \in NotAdmitted \ {"idle"} /\ row[r] = "unseen"
  BY DEF Refuse, TurnAway, MayCall, Tell, IInv, TypeOK, CallsFit, NotAdmitted
<1>2. \A q \in Request \ {r} : call'[q] = call[q]
  BY DEF Refuse, TurnAway, Tell, IInv, TypeOK
<1>3. row' = row /\ UNCHANGED history
  BY DEF Refuse, TurnAway, table
<1>4. \A q \in Request : ExchangeOf(q)' = (IF q = r THEN "turned away" ELSE ExchangeOf(q))
  BY <1>1, <1>2, <1>3 DEF ExchangeOf, NotAdmitted
<1>5. \A q \in Request : ToldTo(q)' = ToldTo(q)
  BY <1>1, <1>2 DEF ToldTo, NotAdmitted
<1>6. ExchangeOf(r) = "unasked"
  BY <1>1 DEF ExchangeOf
<1>7. Exchange!Become(r, "turned away")
      /\ UNCHANGED <<{q \in Request : answer[q] # {}} \cup posted,
                     [q \in Request |-> ToldTo(q)]>>
  BY <1>3, <1>4, <1>5, RowMoves
<1>. QED
  BY <1>6, <1>7 DEF Exchange!TurnedAway

LEMMA AcceptAdmits ==
  ASSUME IInv, CallsFit, NEW r \in Request, Accept(r)
  PROVE  Exchange!Admit(r)
<1>1. call[r] = "idle" /\ row[r] = "unseen" /\ row'[r] = "pending" /\ UNCHANGED history
  BY DEF Accept, MayCall, IInv, TypeOK, CallsFit, NotAdmitted
<1>2. call'[r] \in {"accepted", "waiting"}
  BY DEF Accept, Tell, IInv, TypeOK
<1>3. \A q \in Request \ {r} : call'[q] = call[q] /\ row'[q] = row[q]
  BY DEF Accept, Tell, IInv, TypeOK
<1>4. \A q \in Request : ExchangeOf(q)' = (IF q = r THEN "owed" ELSE ExchangeOf(q))
  BY <1>1, <1>2, <1>3 DEF ExchangeOf, Unsettled
<1>5. \A q \in Request : ToldTo(q)' = ToldTo(q)
  BY <1>1, <1>2, <1>3 DEF ToldTo
<1>6. Exchange!InPlay(KeyOf[r]) = {}
  <2>1. \A q \in Request : ExchangeOf(q) = "owed" => row[q] \in Unsettled
    BY DEF ExchangeOf, IInv, TypeOK, Unsettled
  <2>2. RowsOf(KeyOf[r]) = {}
    BY DEF Accept, Busy
  <2>. QED
    BY <2>1, <2>2 DEF Exchange!InPlay, RowsOf
<1>7. Exchange!Heard(Handle[r]) = {}
  BY DEF Exchange!Heard, Accept, Repeated, ExchangeOf
<1>. QED
  BY <1>1, <1>4, <1>5, <1>6, <1>7, RowMoves DEF Exchange!Admit, ExchangeOf

\* Callers who leave, at a timer, by a broken connection or a restart.
LEMMA CallersLeave ==
  ASSUME IInv, CallsFit, NEW gone \in SUBSET Request,
         \A r \in gone : /\ call[r] \in {"waiting", "replied", "rejected"}
                         /\ call'[r] \in {"expired", "error", "gone"},
         \A r \in Request \ gone : ToldTo(r)' = ToldTo(r) /\ ExchangeOf(r)' = ExchangeOf(r),
         UNCHANGED <<row, history>>
  PROVE  Exchange!ExchangeNext
<1>1. \A r \in gone : r \notin Async /\ row[r] # "unseen"
  BY DEF CallsFit, NotAdmitted
<1>2. \A r \in gone : ToldTo(r) = "nothing" /\ ToldTo(r)' = "silence"
  BY DEF ToldTo
<1>3. \A r \in gone : ExchangeOf(r)' = ExchangeOf(r) /\ ExchangeOf(r) \notin {"unasked", "turned away"}
  BY <1>1 DEF ExchangeOf, IInv, TypeOK
<1>4. \A r \in Request : ExchangeOf(r)' = ExchangeOf(r)
  BY <1>3
<1>5. [r \in Request |-> ToldTo(r)]'
        = [r \in Request |-> IF r \in gone THEN "silence" ELSE ToldTo(r)]
  BY <1>2
<1>6. [r \in Request |-> IF r \in gone THEN "silence" ELSE [q \in Request |-> ToldTo(q)][r]]
        = [r \in Request |-> IF r \in gone THEN "silence" ELSE ToldTo(r)]
  OBVIOUS
<1>7. Exchange!Leave(gone)
  BY <1>2, <1>3, <1>4, <1>5, <1>6 DEF Exchange!Leave, history
<1>. QED
  BY <1>1, <1>7 DEF Exchange!ExchangeNext

LEMMA ExpiryLeaves ==
  ASSUME IInv, CallsFit, NEW r \in Request, Expire(r)
  PROVE  Exchange!ExchangeNext
<1>1. /\ call[r] = "waiting" /\ call'[r] = "expired"
      /\ \A q \in Request \ {r} : call'[q] = call[q]
      /\ UNCHANGED <<row, history>>
  BY DEF Expire, Tell, table, IInv, TypeOK
<1>2. \A q \in Request \ {r} : ToldTo(q)' = ToldTo(q) /\ ExchangeOf(q)' = ExchangeOf(q)
  BY <1>1 DEF ToldTo, ExchangeOf
<1>. QED
  BY <1>1, <1>2, CallersLeave

LEMMA RestartLeaves ==
  ASSUME IInv, CallsFit, Restart
  PROVE  Exchange!ExchangeNext
<1> DEFINE gone == {r \in Request : call[r] \in {"waiting", "replied", "rejected"}}
<1>1. UNCHANGED <<row, history>>
  BY DEF Restart, table
<1>2. \A r \in gone : call'[r] = "gone"
  BY DEF Restart, Open
<1>3. \A r \in Request \ gone : call'[r] = call[r] \/ (call[r] = "expired" /\ call'[r] = "gone")
  BY DEF Restart, Open
<1>4. \A r \in Request \ gone : ToldTo(r)' = ToldTo(r) /\ ExchangeOf(r)' = ExchangeOf(r)
  BY <1>1, <1>3 DEF ToldTo, ExchangeOf
<1>. QED
  BY <1>1, <1>2, <1>4, CallersLeave

LEMMA FailThrowsLeaves ==
  ASSUME IInv, CallsFit, NEW k \in Key, FailThrows(k)
  PROVE  Exchange!ExchangeNext
<1> DEFINE gone == {r \in Request : r \in asked[k] /\ call[r] = "replied" /\ attempts[r] = 1}
<1>1. UNCHANGED <<row, history>>
  BY DEF FailThrows, table
<1>2. \A r \in gone : call'[r] = "error"
  BY DEF FailThrows
<1>3. \A r \in Request \ gone : call'[r] = call[r]
  BY DEF FailThrows
<1>4. \A r \in Request \ gone : ToldTo(r)' = ToldTo(r) /\ ExchangeOf(r)' = ExchangeOf(r)
  BY <1>1, <1>3 DEF ToldTo, ExchangeOf
<1>. QED
  BY <1>1, <1>2, <1>4, CallersLeave

LEMMA ReturnTells ==
  ASSUME IInv, CallsFit, NEW r \in Request, Return(r)
  PROVE  Exchange!TellReply(r) \/ Exchange!TellFailure(r) \/ UNCHANGED Exchange!promiseVars
<1>1. \A q \in Request \ {r} : call'[q] = call[q]
  BY DEF Return, Tell, IInv, TypeOK
<1>2. UNCHANGED <<row, history>>
  BY DEF Return, table
<1>3. row[r] # "unseen" /\ r \notin Async
  BY DEF Return, CallsFit, NotAdmitted
<1>4. \A q \in Request : ExchangeOf(q)' = ExchangeOf(q)
  BY <1>1, <1>2, <1>3 DEF ExchangeOf
<1>5. CASE call[r] = "replied" /\ call'[r] = "ok"
  <2>1. [q \in Request |-> ToldTo(q)]' = [[q \in Request |-> ToldTo(q)] EXCEPT ![r] = "reply"]
    BY <1>1, <1>5 DEF ToldTo
  <2>2. ToldTo(r) = "nothing" /\ answer[r] # {}
    BY <1>5 DEF ToldTo, CallsFit
  <2>. QED
    BY <1>2, <1>3, <1>4, <2>1, <2>2 DEF Exchange!TellReply, history
<1>6. CASE call[r] = "rejected" /\ call'[r] = "turn_failed"
  <2>1. [q \in Request |-> ToldTo(q)]' = [[q \in Request |-> ToldTo(q)] EXCEPT ![r] = "failure"]
    BY <1>1, <1>6 DEF ToldTo
  <2>2. ToldTo(r) = "nothing" /\ answer[r] = {} /\ r \notin posted
    BY <1>3, <1>6 DEF ToldTo, CallsFit
  <2>3. ExchangeOf(r) = "failed"
    BY <1>6 DEF ExchangeOf, Unsettled, IInv, FailedMeansFailed
  <2>. QED
    BY <1>2, <1>4, <2>1, <2>2, <2>3 DEF Exchange!TellFailure, history
<1>7. CASE call[r] = "expired" /\ call'[r] = "no_reply_in_time"
  <2>1. \A q \in Request : ToldTo(q)' = ToldTo(q)
    BY <1>1, <1>7 DEF ToldTo
  <2>. QED
    BY <1>2, <1>4, <2>1, NothingSeen
<1>. QED
  BY <1>5, <1>6, <1>7 DEF Return, Tell, IInv, TypeOK

LEMMA DeliverHandsOver ==
  ASSUME IInv, CallsFit, NEW k \in Key, Deliver(k)
  PROVE  Exchange!ExchangeNext \/ UNCHANGED Exchange!promiseVars
<1>1. row' = row /\ posted' = posted
  BY DEF Deliver, table
<1>2. CASE waiter[k] = Nobody
  <2>1. call' = call /\ UNCHANGED history
    BY <1>1, <1>2 DEF Deliver, callers, history
  <2>. QED
    BY <1>1, <2>1, NothingSeen DEF ExchangeOf, ToldTo
<1>3. CASE waiter[k] # Nobody
  <2>0. PICK w \in Request : waiter[k] = w /\ w # Nobody
    BY <1>3 DEF IInv, TypeOK
  <2>1. call[w] = "waiting" /\ row[w] \in Unsettled /\ w \notin Async
    BY <2>0 DEF IInv, TypeOK, ParkedIsOwed, CallersAreAccounted
  <2>2. asked[k] # {}
    BY DEF Deliver, IInv, TurnsReadClaimedRows
  <2>3. /\ call'[w] = "replied" /\ answer'[w] # {}
        /\ \A r \in Request \ {w} : call'[r] = call[r] /\ answer'[r] = answer[r]
    BY <2>0, <2>1, <2>2 DEF Deliver, Tell, IInv, TypeOK
  <2>4. \A r \in Request : ExchangeOf(r)' = ExchangeOf(r) /\ ToldTo(r)' = ToldTo(r)
    BY <1>1, <2>1, <2>3 DEF ExchangeOf, ToldTo, Unsettled
  <2>5. ({r \in Request : answer[r] # {}} \cup posted)'
          = ({r \in Request : answer[r] # {}} \cup posted) \cup {w}
    BY <1>1, <2>1, <2>3
  <2>6. ExchangeOf(w) = "owed" /\ ToldTo(w) = "nothing"
    BY <2>1 DEF ExchangeOf, ToldTo, Unsettled
  <2>7. w \notin {r \in Request : answer[r] # {}} \cup posted
    BY <2>1 DEF CallsFit
  <2>8. Exchange!HandOver(w)
    BY <2>1, <2>4, <2>5, <2>6, <2>7 DEF Exchange!HandOver
  <2>. QED
    BY <2>8 DEF Exchange!ExchangeNext
<1>. QED
  BY <1>2, <1>3

LEMMA PostHandsOver ==
  ASSUME IInv, CallsFit, NEW k \in Key, PostSucceeds(k)
  PROVE  Exchange!ExchangeNext \/ UNCHANGED Exchange!promiseVars
<1>1. call' = call /\ row' = row /\ answer' = answer /\ posted' = posted \cup (asked[k] \cap Async)
  BY DEF PostSucceeds, callers, table
<1>2. PICK r \in Request : asked[k] = {r} /\ row[r] = "processing"
  BY TurnIsOfOne DEF PostSucceeds
<1>3. \A q \in Request : ExchangeOf(q)' = ExchangeOf(q) /\ ToldTo(q)' = ToldTo(q)
  BY <1>1 DEF ExchangeOf, ToldTo
<1>4. CASE r \notin Async \/ r \in posted
  <2>1. UNCHANGED history
    BY <1>1, <1>2, <1>4 DEF history
  <2>. QED
    BY <1>3, <2>1, NothingSeen
<1>5. CASE r \in Async \ posted
  <2>1. ({q \in Request : answer[q] # {}} \cup posted)'
          = ({q \in Request : answer[q] # {}} \cup posted) \cup {r}
    BY <1>1, <1>2, <1>5
  <2>2. ExchangeOf(r) = "owed" /\ ToldTo(r) = "nothing" /\ answer[r] = {}
    BY <1>2, <1>5 DEF ExchangeOf, ToldTo, Unsettled, CallsFit, NotAdmitted
  <2>3. Exchange!HandOver(r)
    BY <1>3, <1>5, <2>1, <2>2 DEF Exchange!HandOver
  <2>. QED
    BY <2>3 DEF Exchange!ExchangeNext
<1>. QED
  BY <1>4, <1>5

LEMMA SettleFinishes ==
  ASSUME IInv, CallsFit, NEW k \in Key, Settle(k)
  PROVE  Exchange!ExchangeNext
<1>1. PICK r \in Request : asked[k] = {r} /\ KeyOf[r] = k /\ row[r] = "processing"
  BY TurnIsOfOne DEF Settle
<1>2. call' = call /\ UNCHANGED history
  BY DEF Settle, callers
<1>3. \A q \in Request : row'[q] = IF q = r THEN "done" ELSE row[q]
  BY <1>1 DEF Settle, Mark
<1>4. \A q \in Request : ExchangeOf(q)' = (IF q = r THEN "done" ELSE ExchangeOf(q))
  BY <1>2, <1>3 DEF ExchangeOf, Unsettled
<1>5. \A q \in Request : ToldTo(q)' = ToldTo(q)
  BY <1>2 DEF ToldTo
<1>6. ExchangeOf(r) = "owed"
  BY <1>1 DEF ExchangeOf, Unsettled
<1>7. r \in {q \in Request : answer[q] # {}} \cup posted \/ ToldTo(r) = "silence"
  <2>1. CASE r \in Async
    BY <1>1, <2>1 DEF Settle, IInv, RepliesAreSpent
  <2>2. CASE r \notin Async
    <3>1. call[r] # "waiting"
      BY <1>1, AgentDoorAssumption DEF Settle, IInv, RepliesAreSpent, ParkedIsOwed
    <3>2. answer[r] = {r} \/ call[r] \in {"expired", "no_reply_in_time", "gone"}
      BY <1>1, <2>2, <3>1 DEF IInv, CallersAreAccounted, Unsettled
    <3>. QED
      BY <3>2 DEF ToldTo
  <2>. QED
    BY <2>1, <2>2
<1>8. Exchange!Become(r, "done")
      /\ UNCHANGED <<{q \in Request : answer[q] # {}} \cup posted,
                     [q \in Request |-> ToldTo(q)]>>
  BY <1>2, <1>4, <1>5, RowMoves
<1>9. Exchange!Finish(r)
  BY <1>6, <1>7, <1>8 DEF Exchange!Finish
<1>. QED
  BY <1>9 DEF Exchange!ExchangeNext

\* A row that fails, with its parked caller told at once or nobody to tell.
LEMMA FailingFails ==
  ASSUME IInv, CallsFit, NEW k \in Key, NEW r \in Request, row[r] \in Unsettled,
         FailWaiter(k), Mark({r}, "failed"), UNCHANGED history
  PROVE  Exchange!ExchangeNext
<1>1. \A q \in Request : row'[q] = IF q = r THEN "failed" ELSE row[q]
  BY DEF Mark
<1>2. \A q \in Request : \/ call'[q] = call[q]
                         \/ call[q] = "waiting" /\ call'[q] = "rejected" /\ row[q] # "unseen"
  BY FailWaiterTellsTheParked DEF IInv, CallsFit, NotAdmitted
<1>3. \A q \in Request : ExchangeOf(q)' = (IF q = r THEN "failed" ELSE ExchangeOf(q))
  BY <1>1, <1>2 DEF ExchangeOf, Unsettled
<1>4. \A q \in Request : ToldTo(q)' = ToldTo(q)
  BY <1>2 DEF ToldTo
<1>5. ExchangeOf(r) = "owed"
  BY DEF ExchangeOf, Unsettled
<1>6. Exchange!Become(r, "failed")
      /\ UNCHANGED <<{q \in Request : answer[q] # {}} \cup posted,
                     [q \in Request |-> ToldTo(q)]>>
  BY <1>3, <1>4, RowMoves
<1>. QED
  BY <1>5, <1>6 DEF Exchange!Fail, Exchange!ExchangeNext

\* Claims, retries and refused statements are the machinery: nobody sees them.
LEMMA MachineryIsHidden ==
  ASSUME IInv, CallsFit, NEW k \in Key,
         \/ BeginTurn(k) \/ AgentFails(k) \/ PostFails(k) \/ Retry(k)
         \/ ClaimThrows(k) \/ SettleThrows(k)
  PROVE  UNCHANGED Exchange!promiseVars
<1>1. call' = call /\ UNCHANGED history
  BY DEF BeginTurn, Claim, AgentFails, PostFails, Retry, ClaimThrows, SettleThrows, callers
<1>2. \A r \in Request : \/ row'[r] = row[r]
                         \/ row[r] \in Unsettled /\ row'[r] \in Unsettled
  <2>1. CASE BeginTurn(k)
    BY <2>1 DEF BeginTurn, Mark, RowsOf, Unsettled
  <2>2. CASE Retry(k)
    BY <2>2 DEF Retry, Mark, Unsettled, IInv, TurnsReadClaimedRows
  <2>3. CASE AgentFails(k) \/ PostFails(k) \/ ClaimThrows(k) \/ SettleThrows(k)
    BY <2>3 DEF AgentFails, PostFails, ClaimThrows, SettleThrows, table
  <2>. QED
    BY <2>1, <2>2, <2>3
<1>3. \A r \in Request : ExchangeOf(r)' = ExchangeOf(r) /\ ToldTo(r)' = ToldTo(r)
  BY <1>1, <1>2 DEF ExchangeOf, ToldTo, Unsettled
<1>. QED
  BY <1>1, <1>3, NothingSeen

\* The door keeps its promise: each step admits, turns away, hands a reply over,
\* tells one caller, lets callers leave, finishes or fails one exchange, or is not
\* seen (a2a.ts, agent-reply.ts, agents-port.ts, batcher.ts).
THEOREM ExchangesKeepOrder == Spec => OneExchangeAtATime
<1>1. Init => CallsFit /\ Exchange!ExchangeInit
  <2>. SUFFICES ASSUME Init PROVE CallsFit /\ Exchange!ExchangeInit
    OBVIOUS
  <2>1. CallsFit
    BY DEF Init, CallsFit, NotAdmitted
  <2>2. \A r \in Request : ExchangeOf(r) = "unasked" /\ ToldTo(r) = "nothing" /\ answer[r] = {}
    BY DEF Init, ExchangeOf, ToldTo
  <2>. QED
    BY <2>1, <2>2 DEF Init, Exchange!ExchangeInit
<1>2. IInv /\ CallsFit /\ [Next]_vars => [Exchange!ExchangeNext]_(Exchange!promiseVars)
  <2>. SUFFICES ASSUME IInv, CallsFit, [Next]_vars
                PROVE  Exchange!ExchangeNext \/ UNCHANGED Exchange!promiseVars
    OBVIOUS
  <2>1. ASSUME NEW r \in Request, Caller(r)
        PROVE  Exchange!ExchangeNext \/ UNCHANGED Exchange!promiseVars
    BY <2>1, RefusalIsTurnedAway, AcceptAdmits, ExpiryLeaves, ReturnTells
    DEF Caller, Exchange!ExchangeNext
  <2>2. ASSUME NEW k \in Key, Abandon(k)
        PROVE  Exchange!ExchangeNext
    <3>1. PICK r \in Request : RowsOf(k) = {r} /\ row[r] \in Unsettled
      BY <2>2, OneRowInPlay DEF Abandon, Claim, CanClaim
    <3>. QED
      BY <2>2, <3>1, FailingFails DEF Abandon, Claim
  <2>3. ASSUME NEW k \in Key, FailForGood(k)
        PROVE  Exchange!ExchangeNext
    <3>1. PICK r \in Request : asked[k] = {r} /\ row[r] \in Unsettled
      BY <2>3, TurnIsOfOne DEF FailForGood, Unsettled
    <3>. QED
      BY <2>3, <3>1, FailingFails DEF FailForGood
  <2>4. ASSUME NEW k \in Key, Turn(k) \/ Fault(k)
        PROVE  Exchange!ExchangeNext \/ UNCHANGED Exchange!promiseVars
    BY <2>2, <2>3, <2>4, DeliverHandsOver, PostHandsOver, SettleFinishes, FailThrowsLeaves,
       MachineryIsHidden
    DEF Turn, Fault
  <2>5. CASE UNCHANGED vars
    BY <2>5, NothingSeen DEF vars, callers, table, ExchangeOf, ToldTo
  <2>. QED
    BY <2>1, <2>4, <2>5, RestartLeaves DEF Next
<1>. QED
  BY <1>1, <1>2, CallsFitStep, InductiveInvariant, PTL
  DEF Spec, OneExchangeAtATime, Exchange!ExchangeSafety
=============================================================================
