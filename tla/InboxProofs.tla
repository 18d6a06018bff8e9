---------------------------- MODULE InboxProofs ----------------------------
(***************************************************************************)
(* Proofs about InboxBatcher for every set of messages and conversations,  *)
(* every attempt budget and any number of crashes and SQLite faults.       *)
(***************************************************************************)
EXTENDS InboxProperties, WellFoundedInduction, TLAPS

-----------------------------------------------------------------------------
(* The oldest row of a claim *)

\* Among finitely or infinitely many naturals one is the least.
LEMMA Minimum ==
  ASSUME NEW S, NEW f \in [S -> Nat], S # {}
  PROVE  \E x \in S : \A y \in S : f[x] <= f[y]
<1> DEFINE T == {f[x] : x \in S}
<1>1. T \subseteq Nat /\ T # {}
  OBVIOUS
<1>2. PICK k \in T : \A j \in T : ~ (<<j, k>> \in OpToRel(<, Nat))
  <2>1. IsWellFoundedOn(OpToRel(<, Nat), Nat)
    BY NatLessThanWellFounded
  <2> HIDE DEF T
  <2> QED BY <1>1, <2>1, WFMin
<1>3. \A j \in T : ~ (j < k)
  BY <1>1, <1>2 DEF OpToRel
<1>4. PICK x \in S : f[x] = k
  BY <1>2
<1>5. ASSUME NEW y \in S PROVE f[x] <= f[y]
  BY <1>1, <1>3, <1>4
<1>6. QED BY <1>5

\* rows[0] of a non-empty claim is one of its rows, and none is older.
LEMMA FirstIsOldest ==
  ASSUME rowId \in [Message -> Nat], NEW rows \in SUBSET Message, rows # {}
  PROVE  /\ First(rows) \in rows
         /\ \A n \in rows : rowId[First(rows)] <= rowId[n]
<1> DEFINE f == [m \in rows |-> rowId[m]]
<1>1. f \in [rows -> Nat]
  OBVIOUS
<1>2. PICK x \in rows : \A y \in rows : f[x] <= f[y]
  <2> HIDE DEF f
  <2> QED BY <1>1, Minimum
<1>3. \A y \in rows : rowId[x] <= rowId[y]
  BY <1>2
<1>4. QED BY <1>3 DEF First

-----------------------------------------------------------------------------
(* Types *)

\* No step takes a variable out of its type.
LEMMA TypeStep == TypeOK /\ [Next]_vars => TypeOK'
<1> USE InboxAssumption DEF TypeOK, Unsettled, Settled, Phases
<1> SUFFICES ASSUME TypeOK, [Next]_vars PROVE TypeOK'
  OBVIOUS
<1> USE DEF table, timers, worker, history, faults, Mark, Enqueue, Dequeue, Release
<1>1. ASSUME NEW m \in Message, Post(m) PROVE TypeOK'
  BY <1>1 DEF Post, Insert
<1>2. ASSUME NEW m \in Message, Schedule(m) PROVE TypeOK'
  BY <1>2 DEF Schedule
<1>3. ASSUME NEW m \in Message, AgentPost(m) PROVE TypeOK'
  BY <1>3 DEF AgentPost, Insert
<1>4. ASSUME NEW c \in Conversation, Flush(c) \/ RetryFires(c) PROVE TypeOK'
  BY <1>4 DEF Flush, RetryFires
<1>5. ASSUME NEW c \in Conversation, ClaimNothing(c) \/ ClaimThrows(c) PROVE TypeOK'
  BY <1>5 DEF ClaimNothing, ClaimThrows
<1>6. ASSUME NEW c \in Conversation, ClaimBatch(c) \/ AbandonBatch(c) PROVE TypeOK'
  <2>1. Claimable(c) \in SUBSET Message
    BY DEF Claimable, MessagesOf
  <2>2. First(Claimable(c)) \in Message
    BY <1>6, <2>1, FirstIsOldest DEF ClaimBatch, AbandonBatch, Claim
  <2>3. QED
    BY <1>6, <2>1, <2>2 DEF ClaimBatch, AbandonBatch, Claim
<1>7. ASSUME NEW c \in Conversation, AskAgent(c) PROVE TypeOK'
  BY <1>7 DEF AskAgent
<1>8. ASSUME NEW c \in Conversation,
             \/ SkipEmptyBatch(c) \/ TurnSucceeds(c)
             \/ TurnFails(c) \/ TurnFailsFinally(c)
      PROVE TypeOK'
  BY <1>8 DEF SkipEmptyBatch, TurnSucceeds, TurnFails, TurnFailsFinally
<1>9. ASSUME NEW c \in Conversation, Notified(c) \/ WorkerThrows(c) PROVE TypeOK'
  BY <1>9 DEF Notified, WorkerThrows
<1>10. CASE Crash \/ Boot
  <2>1. CASE Crash
    <3>1. crashes' \in 0..MaxCrashes
      BY <2>1 DEF Crash
    <3>2. UNCHANGED <<status, attempts, rowId, lastId, turnKey, runs, dbFaults>>
      BY <2>1 DEF Crash
    <3>3. QED
      BY <2>1, <3>1, <3>2 DEF Crash
  <2>2. CASE Boot
    BY <2>2 DEF Boot
  <2>3. QED BY <1>10, <2>1, <2>2
<1>11. CASE UNCHANGED vars
  BY <1>11 DEF vars
<1>12. QED
  BY <1>1, <1>2, <1>3, <1>4, <1>5, <1>6, <1>7, <1>8, <1>9, <1>10, <1>11
  DEF Next, Work

-----------------------------------------------------------------------------
(* Each part of the inductive invariant is preserved by every step *)

\* Ids stay distinct and behind the counter.
LEMMA RowIdsStep ==
  TypeOK /\ RowIds /\ TurnOwnsItsRows /\ [Next]_vars => RowIds'
<1> SUFFICES ASSUME TypeOK, RowIds, TurnOwnsItsRows, [Next]_vars PROVE RowIds'
  OBVIOUS
<1> USE InboxAssumption DEF TypeOK, RowIds, TurnOwnsItsRows, Unsettled, Settled, Phases, MessagesOf, Claimable, Mark, table, timers, worker, history, faults
<1>1. ASSUME NEW m \in Message, Post(m) PROVE RowIds'
  BY <1>1 DEF Post, Insert
<1>2. ASSUME NEW m \in Message, AgentPost(m) PROVE RowIds'
  BY <1>2 DEF AgentPost, Insert, Enqueue
<1>3. ASSUME NEW m \in Message, Schedule(m) PROVE RowIds'
  BY <1>3 DEF Schedule
<1>4. ASSUME NEW c \in Conversation, Flush(c) \/ RetryFires(c) PROVE RowIds'
  BY <1>4 DEF Flush, RetryFires, Enqueue
<1>5. ASSUME NEW c \in Conversation, ClaimNothing(c) \/ ClaimThrows(c) PROVE RowIds'
  BY <1>5 DEF ClaimNothing, ClaimThrows, Dequeue
<1>6. ASSUME NEW c \in Conversation, ClaimBatch(c) PROVE RowIds'
  BY <1>6 DEF ClaimBatch, Claim, Dequeue, CapExceeded
<1>7. ASSUME NEW c \in Conversation, AbandonBatch(c) PROVE RowIds'
  BY <1>7 DEF AbandonBatch, Claim, Dequeue, CapExceeded
<1>8. ASSUME NEW c \in Conversation, AskAgent(c) PROVE RowIds'
  BY <1>8 DEF AskAgent
<1>9. ASSUME NEW c \in Conversation, SkipEmptyBatch(c) \/ TurnSucceeds(c) PROVE RowIds'
  BY <1>9 DEF SkipEmptyBatch, TurnSucceeds, Release
<1>10. ASSUME NEW c \in Conversation, TurnFails(c) PROVE RowIds'
  BY <1>10 DEF TurnFails, Release, LastAttempt
<1>11. ASSUME NEW c \in Conversation, TurnFailsFinally(c) PROVE RowIds'
  BY <1>11 DEF TurnFailsFinally, Release, LastAttempt
<1>12. ASSUME NEW c \in Conversation, Notified(c) \/ WorkerThrows(c) PROVE RowIds'
  BY <1>12 DEF Notified, WorkerThrows
<1>13. CASE Crash
  BY <1>13 DEF Crash
<1>14. CASE Boot
  BY <1>14 DEF Boot
<1>15. CASE UNCHANGED vars
  BY <1>15 DEF vars
<1>16. QED
  BY <1>1, <1>2, <1>3, <1>4, <1>5, <1>6, <1>7, <1>8, <1>9, <1>10, <1>11, <1>12, <1>13, <1>14, <1>15
  DEF Next, Work

\* A live turn keeps owning what it claimed.
LEMMA OwnershipStep ==
  TypeOK /\ RowIds /\ TurnOwnsItsRows /\ [Next]_vars => TurnOwnsItsRows'
<1> SUFFICES ASSUME TypeOK, RowIds, TurnOwnsItsRows, [Next]_vars PROVE TurnOwnsItsRows'
  OBVIOUS
<1> USE InboxAssumption DEF TypeOK, RowIds, TurnOwnsItsRows, Unsettled, Settled, Phases, MessagesOf, Claimable, Mark, table, timers, worker, history, faults
<1>1. ASSUME NEW m \in Message, Post(m) PROVE TurnOwnsItsRows'
  BY <1>1 DEF Post, Insert
<1>2. ASSUME NEW m \in Message, AgentPost(m) PROVE TurnOwnsItsRows'
  BY <1>2 DEF AgentPost, Insert, Enqueue
<1>3. ASSUME NEW m \in Message, Schedule(m) PROVE TurnOwnsItsRows'
  BY <1>3 DEF Schedule
<1>4. ASSUME NEW c \in Conversation, Flush(c) \/ RetryFires(c) PROVE TurnOwnsItsRows'
  BY <1>4 DEF Flush, RetryFires, Enqueue
<1>5. ASSUME NEW c \in Conversation, ClaimNothing(c) \/ ClaimThrows(c) PROVE TurnOwnsItsRows'
  BY <1>5 DEF ClaimNothing, ClaimThrows, Dequeue
<1>6. ASSUME NEW c \in Conversation, ClaimBatch(c) PROVE TurnOwnsItsRows'
  BY <1>6 DEF ClaimBatch, Claim, Dequeue, CapExceeded
<1>7. ASSUME NEW c \in Conversation, AbandonBatch(c) PROVE TurnOwnsItsRows'
  BY <1>7 DEF AbandonBatch, Claim, Dequeue, CapExceeded
<1>8. ASSUME NEW c \in Conversation, AskAgent(c) PROVE TurnOwnsItsRows'
  BY <1>8 DEF AskAgent
<1>9. ASSUME NEW c \in Conversation, SkipEmptyBatch(c) \/ TurnSucceeds(c) PROVE TurnOwnsItsRows'
  BY <1>9 DEF SkipEmptyBatch, TurnSucceeds, Release
<1>10. ASSUME NEW c \in Conversation, TurnFails(c) PROVE TurnOwnsItsRows'
  BY <1>10 DEF TurnFails, Release, LastAttempt
<1>11. ASSUME NEW c \in Conversation, TurnFailsFinally(c) PROVE TurnOwnsItsRows'
  BY <1>11 DEF TurnFailsFinally, Release, LastAttempt
<1>12. ASSUME NEW c \in Conversation, Notified(c) \/ WorkerThrows(c) PROVE TurnOwnsItsRows'
  BY <1>12 DEF Notified, WorkerThrows
<1>13. CASE Crash
  BY <1>13 DEF Crash
<1>14. CASE Boot
  BY <1>14 DEF Boot
<1>15. CASE UNCHANGED vars
  BY <1>15 DEF vars
<1>16. QED
  BY <1>1, <1>2, <1>3, <1>4, <1>5, <1>6, <1>7, <1>8, <1>9, <1>10, <1>11, <1>12, <1>13, <1>14, <1>15
  DEF Next, Work

\* Rows that arrive during a turn are younger than its own.
LEMMA OldestStep ==
  TypeOK /\ RowIds /\ TurnOwnsItsRows /\ ClaimsAreOldest /\ [Next]_vars => ClaimsAreOldest'
<1> SUFFICES ASSUME TypeOK, RowIds, TurnOwnsItsRows, ClaimsAreOldest, [Next]_vars PROVE ClaimsAreOldest'
  OBVIOUS
<1> USE InboxAssumption DEF TypeOK, RowIds, TurnOwnsItsRows, ClaimsAreOldest, Unsettled, Settled, Phases, MessagesOf, Claimable, Mark, table, timers, worker, history, faults
<1>1. ASSUME NEW m \in Message, Post(m) PROVE ClaimsAreOldest'
  BY <1>1 DEF Post, Insert
<1>2. ASSUME NEW m \in Message, AgentPost(m) PROVE ClaimsAreOldest'
  BY <1>2 DEF AgentPost, Insert, Enqueue
<1>3. ASSUME NEW m \in Message, Schedule(m) PROVE ClaimsAreOldest'
  BY <1>3 DEF Schedule
<1>4. ASSUME NEW c \in Conversation, Flush(c) \/ RetryFires(c) PROVE ClaimsAreOldest'
  BY <1>4 DEF Flush, RetryFires, Enqueue
<1>5. ASSUME NEW c \in Conversation, ClaimNothing(c) \/ ClaimThrows(c) PROVE ClaimsAreOldest'
  BY <1>5 DEF ClaimNothing, ClaimThrows, Dequeue
<1>6. ASSUME NEW c \in Conversation, ClaimBatch(c) PROVE ClaimsAreOldest'
  BY <1>6 DEF ClaimBatch, Claim, Dequeue, CapExceeded
<1>7. ASSUME NEW c \in Conversation, AbandonBatch(c) PROVE ClaimsAreOldest'
  BY <1>7 DEF AbandonBatch, Claim, Dequeue, CapExceeded
<1>8. ASSUME NEW c \in Conversation, AskAgent(c) PROVE ClaimsAreOldest'
  BY <1>8 DEF AskAgent
<1>9. ASSUME NEW c \in Conversation, SkipEmptyBatch(c) \/ TurnSucceeds(c) PROVE ClaimsAreOldest'
  BY <1>9 DEF SkipEmptyBatch, TurnSucceeds, Release
<1>10. ASSUME NEW c \in Conversation, TurnFails(c) PROVE ClaimsAreOldest'
  BY <1>10 DEF TurnFails, Release, LastAttempt
<1>11. ASSUME NEW c \in Conversation, TurnFailsFinally(c) PROVE ClaimsAreOldest'
  BY <1>11 DEF TurnFailsFinally, Release, LastAttempt
<1>12. ASSUME NEW c \in Conversation, Notified(c) \/ WorkerThrows(c) PROVE ClaimsAreOldest'
  BY <1>12 DEF Notified, WorkerThrows
<1>13. CASE Crash
  BY <1>13 DEF Crash
<1>14. CASE Boot
  BY <1>14 DEF Boot
<1>15. CASE UNCHANGED vars
  BY <1>15 DEF vars
<1>16. QED
  BY <1>1, <1>2, <1>3, <1>4, <1>5, <1>6, <1>7, <1>8, <1>9, <1>10, <1>11, <1>12, <1>13, <1>14, <1>15
  DEF Next, Work

\* Settling a batch of oldest rows keeps the order.
LEMMA OrderStep ==
  TypeOK /\ RowIds /\ TurnOwnsItsRows /\ ClaimsAreOldest /\ SettledInOrder /\ [Next]_vars => SettledInOrder'
<1> SUFFICES ASSUME TypeOK, RowIds, TurnOwnsItsRows, ClaimsAreOldest, SettledInOrder, [Next]_vars PROVE SettledInOrder'
  OBVIOUS
<1> USE InboxAssumption DEF TypeOK, RowIds, TurnOwnsItsRows, ClaimsAreOldest, SettledInOrder, Unsettled, Settled, Phases, MessagesOf, Claimable, Mark, table, timers, worker, history, faults
<1>1. ASSUME NEW m \in Message, Post(m) PROVE SettledInOrder'
  BY <1>1 DEF Post, Insert
<1>2. ASSUME NEW m \in Message, AgentPost(m) PROVE SettledInOrder'
  BY <1>2 DEF AgentPost, Insert, Enqueue
<1>3. ASSUME NEW m \in Message, Schedule(m) PROVE SettledInOrder'
  BY <1>3 DEF Schedule
<1>4. ASSUME NEW c \in Conversation, Flush(c) \/ RetryFires(c) PROVE SettledInOrder'
  BY <1>4 DEF Flush, RetryFires, Enqueue
<1>5. ASSUME NEW c \in Conversation, ClaimNothing(c) \/ ClaimThrows(c) PROVE SettledInOrder'
  BY <1>5 DEF ClaimNothing, ClaimThrows, Dequeue
<1>6. ASSUME NEW c \in Conversation, ClaimBatch(c) PROVE SettledInOrder'
  BY <1>6 DEF ClaimBatch, Claim, Dequeue, CapExceeded
<1>7. ASSUME NEW c \in Conversation, AbandonBatch(c) PROVE SettledInOrder'
  BY <1>7 DEF AbandonBatch, Claim, Dequeue, CapExceeded
<1>8. ASSUME NEW c \in Conversation, AskAgent(c) PROVE SettledInOrder'
  BY <1>8 DEF AskAgent
<1>9. ASSUME NEW c \in Conversation, SkipEmptyBatch(c) \/ TurnSucceeds(c) PROVE SettledInOrder'
  BY <1>9 DEF SkipEmptyBatch, TurnSucceeds, Release
<1>10. ASSUME NEW c \in Conversation, TurnFails(c) PROVE SettledInOrder'
  BY <1>10 DEF TurnFails, Release, LastAttempt
<1>11. ASSUME NEW c \in Conversation, TurnFailsFinally(c) PROVE SettledInOrder'
  BY <1>11 DEF TurnFailsFinally, Release, LastAttempt
<1>12. ASSUME NEW c \in Conversation, Notified(c) \/ WorkerThrows(c) PROVE SettledInOrder'
  BY <1>12 DEF Notified, WorkerThrows
<1>13. CASE Crash
  BY <1>13 DEF Crash
<1>14. CASE Boot
  BY <1>14 DEF Boot
<1>15. CASE UNCHANGED vars
  BY <1>15 DEF vars
<1>16. QED
  BY <1>1, <1>2, <1>3, <1>4, <1>5, <1>6, <1>7, <1>8, <1>9, <1>10, <1>11, <1>12, <1>13, <1>14, <1>15
  DEF Next, Work

\* Prompts stay within the claims that paid for them.
LEMMA RunsStep ==
  TypeOK /\ RowIds /\ TurnOwnsItsRows /\ RunsAreClaims /\ [Next]_vars => RunsAreClaims'
<1> SUFFICES ASSUME TypeOK, RowIds, TurnOwnsItsRows, RunsAreClaims, [Next]_vars PROVE RunsAreClaims'
  OBVIOUS
<1> USE InboxAssumption DEF TypeOK, RowIds, TurnOwnsItsRows, RunsAreClaims, Unsettled, Settled, Phases, MessagesOf, Claimable, Mark, table, timers, worker, history, faults
<1>1. ASSUME NEW m \in Message, Post(m) PROVE RunsAreClaims'
  BY <1>1 DEF Post, Insert
<1>2. ASSUME NEW m \in Message, AgentPost(m) PROVE RunsAreClaims'
  BY <1>2 DEF AgentPost, Insert, Enqueue
<1>3. ASSUME NEW m \in Message, Schedule(m) PROVE RunsAreClaims'
  BY <1>3 DEF Schedule
<1>4. ASSUME NEW c \in Conversation, Flush(c) \/ RetryFires(c) PROVE RunsAreClaims'
  BY <1>4 DEF Flush, RetryFires, Enqueue
<1>5. ASSUME NEW c \in Conversation, ClaimNothing(c) \/ ClaimThrows(c) PROVE RunsAreClaims'
  BY <1>5 DEF ClaimNothing, ClaimThrows, Dequeue
<1>6. ASSUME NEW c \in Conversation, ClaimBatch(c) PROVE RunsAreClaims'
  BY <1>6 DEF ClaimBatch, Claim, Dequeue, CapExceeded
<1>7. ASSUME NEW c \in Conversation, AbandonBatch(c) PROVE RunsAreClaims'
  BY <1>7 DEF AbandonBatch, Claim, Dequeue, CapExceeded
<1>8. ASSUME NEW c \in Conversation, AskAgent(c) PROVE RunsAreClaims'
  BY <1>8 DEF AskAgent
<1>9. ASSUME NEW c \in Conversation, SkipEmptyBatch(c) \/ TurnSucceeds(c) PROVE RunsAreClaims'
  BY <1>9 DEF SkipEmptyBatch, TurnSucceeds, Release
<1>10. ASSUME NEW c \in Conversation, TurnFails(c) PROVE RunsAreClaims'
  BY <1>10 DEF TurnFails, Release, LastAttempt
<1>11. ASSUME NEW c \in Conversation, TurnFailsFinally(c) PROVE RunsAreClaims'
  BY <1>11 DEF TurnFailsFinally, Release, LastAttempt
<1>12. ASSUME NEW c \in Conversation, Notified(c) \/ WorkerThrows(c) PROVE RunsAreClaims'
  BY <1>12 DEF Notified, WorkerThrows
<1>13. CASE Crash
  BY <1>13 DEF Crash
<1>14. CASE Boot
  BY <1>14 DEF Boot
<1>15. CASE UNCHANGED vars
  BY <1>15 DEF vars
<1>16. QED
  BY <1>1, <1>2, <1>3, <1>4, <1>5, <1>6, <1>7, <1>8, <1>9, <1>10, <1>11, <1>12, <1>13, <1>14, <1>15
  DEF Next, Work

\* No step puts a message to the agent beyond its budget.
LEMMA BudgetStep ==
  TypeOK /\ RowIds /\ TurnOwnsItsRows /\ RunsAreClaims /\ AttemptBudget /\ [Next]_vars => AttemptBudget'
<1> SUFFICES ASSUME TypeOK, RowIds, TurnOwnsItsRows, RunsAreClaims, AttemptBudget, [Next]_vars PROVE AttemptBudget'
  OBVIOUS
<1> USE InboxAssumption DEF TypeOK, RowIds, TurnOwnsItsRows, RunsAreClaims, AttemptBudget, Unsettled, Settled, Phases, MessagesOf, Claimable, Mark, table, timers, worker, history, faults
<1>1. ASSUME NEW m \in Message, Post(m) PROVE AttemptBudget'
  BY <1>1 DEF Post, Insert
<1>2. ASSUME NEW m \in Message, AgentPost(m) PROVE AttemptBudget'
  BY <1>2 DEF AgentPost, Insert, Enqueue
<1>3. ASSUME NEW m \in Message, Schedule(m) PROVE AttemptBudget'
  BY <1>3 DEF Schedule
<1>4. ASSUME NEW c \in Conversation, Flush(c) \/ RetryFires(c) PROVE AttemptBudget'
  BY <1>4 DEF Flush, RetryFires, Enqueue
<1>5. ASSUME NEW c \in Conversation, ClaimNothing(c) \/ ClaimThrows(c) PROVE AttemptBudget'
  BY <1>5 DEF ClaimNothing, ClaimThrows, Dequeue
<1>6. ASSUME NEW c \in Conversation, ClaimBatch(c) PROVE AttemptBudget'
  BY <1>6 DEF ClaimBatch, Claim, Dequeue, CapExceeded
<1>7. ASSUME NEW c \in Conversation, AbandonBatch(c) PROVE AttemptBudget'
  BY <1>7 DEF AbandonBatch, Claim, Dequeue, CapExceeded
<1>8. ASSUME NEW c \in Conversation, AskAgent(c) PROVE AttemptBudget'
  BY <1>8 DEF AskAgent
<1>9. ASSUME NEW c \in Conversation, SkipEmptyBatch(c) \/ TurnSucceeds(c) PROVE AttemptBudget'
  BY <1>9 DEF SkipEmptyBatch, TurnSucceeds, Release
<1>10. ASSUME NEW c \in Conversation, TurnFails(c) PROVE AttemptBudget'
  BY <1>10 DEF TurnFails, Release, LastAttempt
<1>11. ASSUME NEW c \in Conversation, TurnFailsFinally(c) PROVE AttemptBudget'
  BY <1>11 DEF TurnFailsFinally, Release, LastAttempt
<1>12. ASSUME NEW c \in Conversation, Notified(c) \/ WorkerThrows(c) PROVE AttemptBudget'
  BY <1>12 DEF Notified, WorkerThrows
<1>13. CASE Crash
  BY <1>13 DEF Crash
<1>14. CASE Boot
  BY <1>14 DEF Boot
<1>15. CASE UNCHANGED vars
  BY <1>15 DEF vars
<1>16. QED
  BY <1>1, <1>2, <1>3, <1>4, <1>5, <1>6, <1>7, <1>8, <1>9, <1>10, <1>11, <1>12, <1>13, <1>14, <1>15
  DEF Next, Work

\* No step marks a row done that no prompt contained.
LEMMA ReadStep ==
  TypeOK /\ RowIds /\ TurnOwnsItsRows /\ RunsAreClaims /\ DoneWasRead /\ [Next]_vars => DoneWasRead'
<1> SUFFICES ASSUME TypeOK, RowIds, TurnOwnsItsRows, RunsAreClaims, DoneWasRead, [Next]_vars PROVE DoneWasRead'
  OBVIOUS
<1> USE InboxAssumption DEF TypeOK, RowIds, TurnOwnsItsRows, RunsAreClaims, DoneWasRead, Unsettled, Settled, Phases, MessagesOf, Claimable, Mark, table, timers, worker, history, faults
<1>1. ASSUME NEW m \in Message, Post(m) PROVE DoneWasRead'
  BY <1>1 DEF Post, Insert
<1>2. ASSUME NEW m \in Message, AgentPost(m) PROVE DoneWasRead'
  BY <1>2 DEF AgentPost, Insert, Enqueue
<1>3. ASSUME NEW m \in Message, Schedule(m) PROVE DoneWasRead'
  BY <1>3 DEF Schedule
<1>4. ASSUME NEW c \in Conversation, Flush(c) \/ RetryFires(c) PROVE DoneWasRead'
  BY <1>4 DEF Flush, RetryFires, Enqueue
<1>5. ASSUME NEW c \in Conversation, ClaimNothing(c) \/ ClaimThrows(c) PROVE DoneWasRead'
  BY <1>5 DEF ClaimNothing, ClaimThrows, Dequeue
<1>6. ASSUME NEW c \in Conversation, ClaimBatch(c) PROVE DoneWasRead'
  BY <1>6 DEF ClaimBatch, Claim, Dequeue, CapExceeded
<1>7. ASSUME NEW c \in Conversation, AbandonBatch(c) PROVE DoneWasRead'
  BY <1>7 DEF AbandonBatch, Claim, Dequeue, CapExceeded
<1>8. ASSUME NEW c \in Conversation, AskAgent(c) PROVE DoneWasRead'
  BY <1>8 DEF AskAgent
<1>9. ASSUME NEW c \in Conversation, SkipEmptyBatch(c) \/ TurnSucceeds(c) PROVE DoneWasRead'
  BY <1>9 DEF SkipEmptyBatch, TurnSucceeds, Release
<1>10. ASSUME NEW c \in Conversation, TurnFails(c) PROVE DoneWasRead'
  BY <1>10 DEF TurnFails, Release, LastAttempt
<1>11. ASSUME NEW c \in Conversation, TurnFailsFinally(c) PROVE DoneWasRead'
  BY <1>11 DEF TurnFailsFinally, Release, LastAttempt
<1>12. ASSUME NEW c \in Conversation, Notified(c) \/ WorkerThrows(c) PROVE DoneWasRead'
  BY <1>12 DEF Notified, WorkerThrows
<1>13. CASE Crash
  BY <1>13 DEF Crash
<1>14. CASE Boot
  BY <1>14 DEF Boot
<1>15. CASE UNCHANGED vars
  BY <1>15 DEF vars
<1>16. QED
  BY <1>1, <1>2, <1>3, <1>4, <1>5, <1>6, <1>7, <1>8, <1>9, <1>10, <1>11, <1>12, <1>13, <1>14, <1>15
  DEF Next, Work

\* Claims never try a younger row more often than an older one.
LEMMA TriedStep ==
  TypeOK /\ RowIds /\ TurnOwnsItsRows /\ ClaimsAreOldest /\ OlderTriedMore /\ [Next]_vars => OlderTriedMore'
<1> SUFFICES ASSUME TypeOK, RowIds, TurnOwnsItsRows, ClaimsAreOldest, OlderTriedMore, [Next]_vars PROVE OlderTriedMore'
  OBVIOUS
<1> USE InboxAssumption DEF TypeOK, RowIds, TurnOwnsItsRows, ClaimsAreOldest, OlderTriedMore, Unsettled, Settled, Phases, MessagesOf, Claimable, Mark, table, timers, worker, history, faults
<1>1. ASSUME NEW m \in Message, Post(m) PROVE OlderTriedMore'
  BY <1>1 DEF Post, Insert
<1>2. ASSUME NEW m \in Message, AgentPost(m) PROVE OlderTriedMore'
  BY <1>2 DEF AgentPost, Insert, Enqueue
<1>3. ASSUME NEW m \in Message, Schedule(m) PROVE OlderTriedMore'
  BY <1>3 DEF Schedule
<1>4. ASSUME NEW c \in Conversation, Flush(c) \/ RetryFires(c) PROVE OlderTriedMore'
  BY <1>4 DEF Flush, RetryFires, Enqueue
<1>5. ASSUME NEW c \in Conversation, ClaimNothing(c) \/ ClaimThrows(c) PROVE OlderTriedMore'
  BY <1>5 DEF ClaimNothing, ClaimThrows, Dequeue
<1>6. ASSUME NEW c \in Conversation, ClaimBatch(c) PROVE OlderTriedMore'
  BY <1>6 DEF ClaimBatch, Claim, Dequeue, CapExceeded
<1>7. ASSUME NEW c \in Conversation, AbandonBatch(c) PROVE OlderTriedMore'
  BY <1>7 DEF AbandonBatch, Claim, Dequeue, CapExceeded
<1>8. ASSUME NEW c \in Conversation, AskAgent(c) PROVE OlderTriedMore'
  BY <1>8 DEF AskAgent
<1>9. ASSUME NEW c \in Conversation, SkipEmptyBatch(c) \/ TurnSucceeds(c) PROVE OlderTriedMore'
  BY <1>9 DEF SkipEmptyBatch, TurnSucceeds, Release
<1>10. ASSUME NEW c \in Conversation, TurnFails(c) PROVE OlderTriedMore'
  BY <1>10 DEF TurnFails, Release, LastAttempt
<1>11. ASSUME NEW c \in Conversation, TurnFailsFinally(c) PROVE OlderTriedMore'
  BY <1>11 DEF TurnFailsFinally, Release, LastAttempt
<1>12. ASSUME NEW c \in Conversation, Notified(c) \/ WorkerThrows(c) PROVE OlderTriedMore'
  BY <1>12 DEF Notified, WorkerThrows
<1>13. CASE Crash
  BY <1>13 DEF Crash
<1>14. CASE Boot
  BY <1>14 DEF Boot
<1>15. CASE UNCHANGED vars
  BY <1>15 DEF vars
<1>16. QED
  BY <1>1, <1>2, <1>3, <1>4, <1>5, <1>6, <1>7, <1>8, <1>9, <1>10, <1>11, <1>12, <1>13, <1>14, <1>15
  DEF Next, Work

\* No step fails a batch whose oldest row has budget left.
LEMMA CauseStep ==
  TypeOK /\ RowIds /\ TurnOwnsItsRows /\ OlderTriedMore /\ FailureHasCause /\ [Next]_vars => FailureHasCause'
<1> SUFFICES ASSUME TypeOK, RowIds, TurnOwnsItsRows, OlderTriedMore, FailureHasCause, [Next]_vars PROVE FailureHasCause'
  OBVIOUS
<1> USE InboxAssumption DEF TypeOK, RowIds, TurnOwnsItsRows, OlderTriedMore, FailureHasCause, Unsettled, Settled, Phases, MessagesOf, Claimable, Mark, table, timers, worker, history, faults
<1>1. ASSUME NEW m \in Message, Post(m) PROVE FailureHasCause'
  BY <1>1 DEF Post, Insert
<1>2. ASSUME NEW m \in Message, AgentPost(m) PROVE FailureHasCause'
  BY <1>2 DEF AgentPost, Insert, Enqueue
<1>3. ASSUME NEW m \in Message, Schedule(m) PROVE FailureHasCause'
  BY <1>3 DEF Schedule
<1>4. ASSUME NEW c \in Conversation, Flush(c) \/ RetryFires(c) PROVE FailureHasCause'
  BY <1>4 DEF Flush, RetryFires, Enqueue
<1>5. ASSUME NEW c \in Conversation, ClaimNothing(c) \/ ClaimThrows(c) PROVE FailureHasCause'
  BY <1>5 DEF ClaimNothing, ClaimThrows, Dequeue
<1>6. ASSUME NEW c \in Conversation, ClaimBatch(c) PROVE FailureHasCause'
  BY <1>6 DEF ClaimBatch, Claim, Dequeue, CapExceeded
<1>7. ASSUME NEW c \in Conversation, AbandonBatch(c) PROVE FailureHasCause'
  BY <1>7 DEF AbandonBatch, Claim, Dequeue, CapExceeded
<1>8. ASSUME NEW c \in Conversation, AskAgent(c) PROVE FailureHasCause'
  BY <1>8 DEF AskAgent
<1>9. ASSUME NEW c \in Conversation, SkipEmptyBatch(c) \/ TurnSucceeds(c) PROVE FailureHasCause'
  BY <1>9 DEF SkipEmptyBatch, TurnSucceeds, Release
<1>10. ASSUME NEW c \in Conversation, TurnFails(c) PROVE FailureHasCause'
  BY <1>10 DEF TurnFails, Release, LastAttempt
<1>11. ASSUME NEW c \in Conversation, TurnFailsFinally(c) PROVE FailureHasCause'
  BY <1>11 DEF TurnFailsFinally, Release, LastAttempt
<1>12. ASSUME NEW c \in Conversation, Notified(c) \/ WorkerThrows(c) PROVE FailureHasCause'
  BY <1>12 DEF Notified, WorkerThrows
<1>13. CASE Crash
  BY <1>13 DEF Crash
<1>14. CASE Boot
  BY <1>14 DEF Boot
<1>15. CASE UNCHANGED vars
  BY <1>15 DEF vars
<1>16. QED
  BY <1>1, <1>2, <1>3, <1>4, <1>5, <1>6, <1>7, <1>8, <1>9, <1>10, <1>11, <1>12, <1>13, <1>14, <1>15
  DEF Next, Work

\* The latest turn key keeps naming the oldest row.
LEMMA KeyStep ==
  TypeOK /\ RowIds /\ TurnOwnsItsRows /\ KeyIsOldest /\ [Next]_vars => KeyIsOldest'
<1> SUFFICES ASSUME TypeOK, RowIds, TurnOwnsItsRows, KeyIsOldest, [Next]_vars PROVE KeyIsOldest'
  OBVIOUS
<1> USE InboxAssumption DEF TypeOK, RowIds, TurnOwnsItsRows, KeyIsOldest, Unsettled, Settled, Phases, MessagesOf, Claimable, Mark, table, timers, worker, history, faults
<1>1. ASSUME NEW m \in Message, Post(m) PROVE KeyIsOldest'
  BY <1>1 DEF Post, Insert
<1>2. ASSUME NEW m \in Message, AgentPost(m) PROVE KeyIsOldest'
  BY <1>2 DEF AgentPost, Insert, Enqueue
<1>3. ASSUME NEW m \in Message, Schedule(m) PROVE KeyIsOldest'
  BY <1>3 DEF Schedule
<1>4. ASSUME NEW c \in Conversation, Flush(c) \/ RetryFires(c) PROVE KeyIsOldest'
  BY <1>4 DEF Flush, RetryFires, Enqueue
<1>5. ASSUME NEW c \in Conversation, ClaimNothing(c) \/ ClaimThrows(c) PROVE KeyIsOldest'
  BY <1>5 DEF ClaimNothing, ClaimThrows, Dequeue
<1>6. ASSUME NEW c \in Conversation, ClaimBatch(c) PROVE KeyIsOldest'
  <2>1. Claimable(c) \in SUBSET Message
    OBVIOUS
  <2>2. Claimable(c) # {} /\ turnKey' = [turnKey EXCEPT ![c] = First(Claimable(c))]
    BY <1>6 DEF ClaimBatch, Claim
  <2>3. /\ First(Claimable(c)) \in Claimable(c)
        /\ \A n \in Claimable(c) : rowId[First(Claimable(c))] <= rowId[n]
    BY <2>1, <2>2, FirstIsOldest
  <2>4. /\ rowId' = rowId
        /\ \A m \in Message : status'[m] = "unseen" => status[m] = "unseen"
        /\ \A m \in Message : status'[m] \in Unsettled => status[m] \in Unsettled
    BY <1>6 DEF ClaimBatch, Claim
  <2>5. SUFFICES ASSUME NEW d \in Conversation, turnKey'[d] # NoMessage
                 PROVE  /\ ConversationOf[turnKey'[d]] = d
                        /\ status'[turnKey'[d]] # "unseen"
                        /\ \A n \in Claimable(d)' : rowId'[turnKey'[d]] <= rowId'[n]
    OBVIOUS
  <2>6. CASE d = c
    BY <2>1, <2>2, <2>3, <2>4, <2>6
  <2>7. CASE d # c
    BY <2>2, <2>4, <2>5, <2>7
  <2>8. QED BY <2>6, <2>7
<1>7. ASSUME NEW c \in Conversation, AbandonBatch(c) PROVE KeyIsOldest'
  <2>1. Claimable(c) \in SUBSET Message
    OBVIOUS
  <2>2. Claimable(c) # {} /\ turnKey' = [turnKey EXCEPT ![c] = First(Claimable(c))]
    BY <1>7 DEF AbandonBatch, Claim
  <2>3. /\ First(Claimable(c)) \in Claimable(c)
        /\ \A n \in Claimable(c) : rowId[First(Claimable(c))] <= rowId[n]
    BY <2>1, <2>2, FirstIsOldest
  <2>4. /\ rowId' = rowId
        /\ \A m \in Message : status'[m] = "unseen" => status[m] = "unseen"
        /\ \A m \in Message : status'[m] \in Unsettled => status[m] \in Unsettled
    BY <1>7 DEF AbandonBatch, Claim
  <2>5. SUFFICES ASSUME NEW d \in Conversation, turnKey'[d] # NoMessage
                 PROVE  /\ ConversationOf[turnKey'[d]] = d
                        /\ status'[turnKey'[d]] # "unseen"
                        /\ \A n \in Claimable(d)' : rowId'[turnKey'[d]] <= rowId'[n]
    OBVIOUS
  <2>6. CASE d = c
    BY <2>1, <2>2, <2>3, <2>4, <2>6
  <2>7. CASE d # c
    BY <2>2, <2>4, <2>5, <2>7
  <2>8. QED BY <2>6, <2>7
<1>8. ASSUME NEW c \in Conversation, AskAgent(c) PROVE KeyIsOldest'
  BY <1>8 DEF AskAgent
<1>9. ASSUME NEW c \in Conversation, SkipEmptyBatch(c) \/ TurnSucceeds(c) PROVE KeyIsOldest'
  BY <1>9 DEF SkipEmptyBatch, TurnSucceeds, Release
<1>10. ASSUME NEW c \in Conversation, TurnFails(c) PROVE KeyIsOldest'
  BY <1>10 DEF TurnFails, Release, LastAttempt
<1>11. ASSUME NEW c \in Conversation, TurnFailsFinally(c) PROVE KeyIsOldest'
  BY <1>11 DEF TurnFailsFinally, Release, LastAttempt
<1>12. ASSUME NEW c \in Conversation, Notified(c) \/ WorkerThrows(c) PROVE KeyIsOldest'
  BY <1>12 DEF Notified, WorkerThrows
<1>13. CASE Crash
  BY <1>13 DEF Crash
<1>14. CASE Boot
  BY <1>14 DEF Boot
<1>15. CASE UNCHANGED vars
  BY <1>15 DEF vars
<1>16. QED
  BY <1>1, <1>2, <1>3, <1>4, <1>5, <1>6, <1>7, <1>8, <1>9, <1>10, <1>11, <1>12, <1>13, <1>14, <1>15
  DEF Next, Work

\* No second exchange is admitted while one is unsettled.
LEMMA ExchangeStep ==
  TypeOK /\ RowIds /\ TurnOwnsItsRows /\ OneExchange /\ [Next]_vars => OneExchange'
<1> SUFFICES ASSUME TypeOK, RowIds, TurnOwnsItsRows, OneExchange, [Next]_vars PROVE OneExchange'
  OBVIOUS
<1> USE InboxAssumption DEF TypeOK, RowIds, TurnOwnsItsRows, OneExchange, Unsettled, Settled, Phases, MessagesOf, Claimable, Mark, table, timers, worker, history, faults
<1>1. ASSUME NEW m \in Message, Post(m) PROVE OneExchange'
  BY <1>1 DEF Post, Insert
<1>2. ASSUME NEW m \in Message, AgentPost(m) PROVE OneExchange'
  BY <1>2 DEF AgentPost, Insert, Enqueue
<1>3. ASSUME NEW m \in Message, Schedule(m) PROVE OneExchange'
  BY <1>3 DEF Schedule
<1>4. ASSUME NEW c \in Conversation, Flush(c) \/ RetryFires(c) PROVE OneExchange'
  BY <1>4 DEF Flush, RetryFires, Enqueue
<1>5. ASSUME NEW c \in Conversation, ClaimNothing(c) \/ ClaimThrows(c) PROVE OneExchange'
  BY <1>5 DEF ClaimNothing, ClaimThrows, Dequeue
<1>6. ASSUME NEW c \in Conversation, ClaimBatch(c) PROVE OneExchange'
  BY <1>6 DEF ClaimBatch, Claim, Dequeue, CapExceeded
<1>7. ASSUME NEW c \in Conversation, AbandonBatch(c) PROVE OneExchange'
  BY <1>7 DEF AbandonBatch, Claim, Dequeue, CapExceeded
<1>8. ASSUME NEW c \in Conversation, AskAgent(c) PROVE OneExchange'
  BY <1>8 DEF AskAgent
<1>9. ASSUME NEW c \in Conversation, SkipEmptyBatch(c) \/ TurnSucceeds(c) PROVE OneExchange'
  BY <1>9 DEF SkipEmptyBatch, TurnSucceeds, Release
<1>10. ASSUME NEW c \in Conversation, TurnFails(c) PROVE OneExchange'
  BY <1>10 DEF TurnFails, Release, LastAttempt
<1>11. ASSUME NEW c \in Conversation, TurnFailsFinally(c) PROVE OneExchange'
  BY <1>11 DEF TurnFailsFinally, Release, LastAttempt
<1>12. ASSUME NEW c \in Conversation, Notified(c) \/ WorkerThrows(c) PROVE OneExchange'
  BY <1>12 DEF Notified, WorkerThrows
<1>13. CASE Crash
  BY <1>13 DEF Crash
<1>14. CASE Boot
  BY <1>14 DEF Boot
<1>15. CASE UNCHANGED vars
  BY <1>15 DEF vars
<1>16. QED
  BY <1>1, <1>2, <1>3, <1>4, <1>5, <1>6, <1>7, <1>8, <1>9, <1>10, <1>11, <1>12, <1>13, <1>14, <1>15
  DEF Next, Work

\* Every step that leaves a row unsettled leaves it a waker.
LEMMA StrandedStep ==
  TypeOK /\ RowIds /\ TurnOwnsItsRows /\ NoRowStrandedByDesign /\ [Next]_vars => NoRowStrandedByDesign'
<1> SUFFICES ASSUME TypeOK, RowIds, TurnOwnsItsRows, NoRowStrandedByDesign, [Next]_vars PROVE NoRowStrandedByDesign'
  OBVIOUS
<1> USE InboxAssumption DEF TypeOK, RowIds, TurnOwnsItsRows, NoRowStrandedByDesign, NoRowStranded, Woken, Unsettled, Settled, Phases, MessagesOf, Claimable, Mark, table, timers, worker, history, faults
<1>1. ASSUME NEW m \in Message, Post(m) PROVE NoRowStrandedByDesign'
  BY <1>1 DEF Post, Insert
<1>2. ASSUME NEW m \in Message, AgentPost(m) PROVE NoRowStrandedByDesign'
  BY <1>2 DEF AgentPost, Insert, Enqueue
<1>3. ASSUME NEW m \in Message, Schedule(m) PROVE NoRowStrandedByDesign'
  BY <1>3 DEF Schedule
<1>4. ASSUME NEW c \in Conversation, Flush(c) \/ RetryFires(c) PROVE NoRowStrandedByDesign'
  <2> SUFFICES ASSUME dbFaults' = 0, up', NEW m \in Message, status'[m] \in Unsettled
               PROVE  Woken(m)'
    OBVIOUS
  <2>1. CASE Flush(c)
    BY <2>1 DEF Flush, Enqueue
  <2>2. CASE RetryFires(c)
    BY <2>2 DEF RetryFires, Enqueue
  <2>3. QED
    BY <1>4, <2>1, <2>2
<1>5. ASSUME NEW c \in Conversation, ClaimNothing(c) \/ ClaimThrows(c) PROVE NoRowStrandedByDesign'
  <2> SUFFICES ASSUME dbFaults' = 0, up', NEW m \in Message, status'[m] \in Unsettled
               PROVE  Woken(m)'
    OBVIOUS
  <2>1. CASE ClaimNothing(c)
    BY <2>1 DEF ClaimNothing, Dequeue
  <2>2. CASE ClaimThrows(c)
    BY <2>2 DEF ClaimThrows, Dequeue
  <2>3. QED
    BY <1>5, <2>1, <2>2
<1>6. ASSUME NEW c \in Conversation, ClaimBatch(c) PROVE NoRowStrandedByDesign'
  BY <1>6 DEF ClaimBatch, Claim, Dequeue, CapExceeded
<1>7. ASSUME NEW c \in Conversation, AbandonBatch(c) PROVE NoRowStrandedByDesign'
  BY <1>7 DEF AbandonBatch, Claim, Dequeue, CapExceeded
<1>8. ASSUME NEW c \in Conversation, AskAgent(c) PROVE NoRowStrandedByDesign'
  BY <1>8 DEF AskAgent
<1>9. ASSUME NEW c \in Conversation, SkipEmptyBatch(c) \/ TurnSucceeds(c) PROVE NoRowStrandedByDesign'
  <2> SUFFICES ASSUME dbFaults' = 0, up', NEW m \in Message, status'[m] \in Unsettled
               PROVE  Woken(m)'
    OBVIOUS
  <2>1. CASE SkipEmptyBatch(c)
    BY <2>1 DEF SkipEmptyBatch, Release
  <2>2. CASE TurnSucceeds(c)
    BY <2>2 DEF TurnSucceeds, Release
  <2>3. QED
    BY <1>9, <2>1, <2>2
<1>10. ASSUME NEW c \in Conversation, TurnFails(c) PROVE NoRowStrandedByDesign'
  BY <1>10 DEF TurnFails, Release, LastAttempt
<1>11. ASSUME NEW c \in Conversation, TurnFailsFinally(c) PROVE NoRowStrandedByDesign'
  BY <1>11 DEF TurnFailsFinally, Release, LastAttempt
<1>12. ASSUME NEW c \in Conversation, Notified(c) \/ WorkerThrows(c) PROVE NoRowStrandedByDesign'
  <2> SUFFICES ASSUME dbFaults' = 0, up', NEW m \in Message, status'[m] \in Unsettled
               PROVE  Woken(m)'
    OBVIOUS
  <2>1. CASE Notified(c)
    BY <2>1 DEF Notified
  <2>2. CASE WorkerThrows(c)
    BY <2>2 DEF WorkerThrows
  <2>3. QED
    BY <1>12, <2>1, <2>2
<1>13. CASE Crash
  BY <1>13 DEF Crash
<1>14. CASE Boot
  BY <1>14 DEF Boot
<1>15. CASE UNCHANGED vars
  BY <1>15 DEF vars
<1>16. QED
  BY <1>1, <1>2, <1>3, <1>4, <1>5, <1>6, <1>7, <1>8, <1>9, <1>10, <1>11, <1>12, <1>13, <1>14, <1>15
  DEF Next, Work

-----------------------------------------------------------------------------
(* The inductive invariant *)

\* It holds initially.
LEMMA InitIInv == Init => IInv
  BY InboxAssumption
  DEF Init, IInv, TypeOK, RowIds, TurnOwnsItsRows, ClaimsAreOldest, SettledInOrder,
      RunsAreClaims, AttemptBudget, DoneWasRead, OlderTriedMore, FailureHasCause,
      KeyIsOldest, OneExchange, NoRowStrandedByDesign, NoRowStranded,
      Unsettled, Settled, Phases, MessagesOf, Claimable

\* Every step preserves it.
LEMMA StepIInv == IInv /\ [Next]_vars => IInv'
  BY TypeStep, RowIdsStep, OwnershipStep, OldestStep, OrderStep, RunsStep, BudgetStep,
     ReadStep, TriedStep, CauseStep, KeyStep, ExchangeStep, StrandedStep
  DEF IInv

\* The inductive invariant holds throughout, whatever crashes and faults do.
THEOREM InductiveInvariant == Spec => []IInv
  BY InitIInv, StepIInv, PTL DEF Spec

\* Every variable keeps its type.
THEOREM TypeInvariant == Spec => []TypeOK
<1>1. IInv => TypeOK
  BY DEF IInv
<1>2. QED BY <1>1, InductiveInvariant, PTL

\* While the process is up and SQLite refuses nothing, every unsettled row has
\* a live turn, a job, a timer or a handler that will pick it up.
THEOREM NoLostWakeup == Spec => []NoRowStrandedByDesign
<1>1. IInv => NoRowStrandedByDesign
  BY DEF IInv
<1>2. QED BY <1>1, InductiveInvariant, PTL

\* What a live turn claimed is exactly what it must settle: two jobs never own
\* the same conversation (inbox/queue.ts, batcher.ts runBatch).
THEOREM TurnOwnership == Spec => []TurnOwnsItsRows
<1>1. IInv => TurnOwnsItsRows
  BY DEF IInv
<1>2. QED BY <1>1, InductiveInvariant, PTL

\* Rows of a conversation are settled in arrival order.
THEOREM ArrivalOrder == Spec => []SettledInOrder
<1>1. IInv => SettledInOrder
  BY DEF IInv
<1>2. QED BY <1>1, InductiveInvariant, PTL

\* No message is put to the agent more than MaxAttempts times.
THEOREM BoundedAttempts == Spec => []AttemptBudget
<1>1. IInv => AttemptBudget
  BY DEF IInv
<1>2. QED BY <1>1, InductiveInvariant, PTL

\* No row with words is marked done without having been in a prompt.
THEOREM NothingUnread == Spec => []DoneWasRead
<1>1. IInv => DoneWasRead
  BY DEF IInv
<1>2. QED BY <1>1, InductiveInvariant, PTL

\* A row fails only with an older row, or itself, out of budget.
THEOREM FailureCause == Spec => []FailureHasCause
<1>1. IInv => FailureHasCause
  BY DEF IInv
<1>2. QED BY <1>1, InductiveInvariant, PTL

\* A turn of an agent conversation holds one caller's message at most.
THEOREM OneCallerPerTurn == Spec => []ExchangeAlone
<1>1. IInv => ExchangeAlone
  BY InboxAssumption
  DEF IInv, TypeOK, TurnOwnsItsRows, OneExchange, ExchangeAlone, Claimable, MessagesOf,
      Unsettled
<1>2. QED BY <1>1, InductiveInvariant, PTL

-----------------------------------------------------------------------------
(* Action properties *)

\* A row that is done or failed stays as it is.
THEOREM SettlingIsFinal == Spec => SettledIsFinal
<1>1. IInv /\ [Next]_vars => [\A m \in Message : status[m] \in Settled => status'[m] = status[m]]_vars
  <2> SUFFICES ASSUME IInv, [Next]_vars, NEW m \in Message, status[m] \in Settled
               PROVE  status'[m] = status[m]
    OBVIOUS
  <2> USE DEF IInv, TypeOK, TurnOwnsItsRows, Unsettled, Settled, Claimable, MessagesOf, Mark,
              table, timers, worker, history, faults
  <2>1. ASSUME NEW n \in Message, Post(n) \/ AgentPost(n) \/ Schedule(n)
        PROVE status'[m] = status[m]
    BY <2>1 DEF Post, AgentPost, Schedule, Insert
  <2>2. ASSUME NEW c \in Conversation,
               Flush(c) \/ RetryFires(c) \/ ClaimNothing(c) \/ ClaimThrows(c)
        PROVE status'[m] = status[m]
    BY <2>2 DEF Flush, RetryFires, ClaimNothing, ClaimThrows
  <2>3. ASSUME NEW c \in Conversation, ClaimBatch(c) \/ AbandonBatch(c)
        PROVE status'[m] = status[m]
    BY <2>3 DEF ClaimBatch, AbandonBatch
  <2>4. ASSUME NEW c \in Conversation,
               \/ SkipEmptyBatch(c) \/ TurnSucceeds(c)
               \/ TurnFails(c) \/ TurnFailsFinally(c)
        PROVE status'[m] = status[m]
    BY <2>4 DEF SkipEmptyBatch, TurnSucceeds, TurnFails, TurnFailsFinally, Release
  <2>5. ASSUME NEW c \in Conversation, AskAgent(c) \/ Notified(c) \/ WorkerThrows(c)
        PROVE status'[m] = status[m]
    BY <2>5 DEF AskAgent, Notified, WorkerThrows
  <2>6. CASE Crash \/ Boot \/ UNCHANGED vars
    BY <2>6 DEF Crash, Boot, vars
  <2>7. QED
    BY <2>1, <2>2, <2>3, <2>4, <2>5, <2>6 DEF Next, Work
<1>2. QED BY <1>1, InductiveInvariant, PTL DEF Spec, SettledIsFinal

\* The turn key of a conversation changes only once its row is settled.
THEOREM TurnKeyStability == Spec => TurnKeyIsStable
<1> DEFINE KeyMoves(c) == turnKey[c] # NoMessage /\ turnKey'[c] # turnKey[c]
                           => status[turnKey[c]] \in Settled
<1>1. IInv /\ [Next]_vars => [\A c \in Conversation : KeyMoves(c)]_vars
  <2> SUFFICES ASSUME IInv, [Next]_vars PROVE \A c \in Conversation : KeyMoves(c)
    OBVIOUS
  <2>1. ASSUME NEW d \in Conversation, ClaimBatch(d) \/ AbandonBatch(d),
               NEW c \in Conversation, turnKey[c] # NoMessage, turnKey'[c] # turnKey[c]
        PROVE  status[turnKey[c]] \in Settled
    <3>1. /\ turnKey' = [turnKey EXCEPT ![d] = First(Claimable(d))]
          /\ Claimable(d) # {}
      BY <2>1 DEF ClaimBatch, AbandonBatch, Claim
    <3>2. c = d /\ turnKey'[c] = First(Claimable(c))
      BY <2>1, <3>1 DEF IInv, TypeOK
    <3>3. Claimable(c) \in SUBSET Message
      BY DEF Claimable, MessagesOf
    <3>4. /\ First(Claimable(c)) \in Claimable(c)
          /\ \A n \in Claimable(c) : rowId[First(Claimable(c))] <= rowId[n]
      BY <3>1, <3>2, <3>3, FirstIsOldest DEF IInv, TypeOK
    <3>5. /\ ConversationOf[turnKey[c]] = c
          /\ turnKey[c] \in Message
          /\ status[turnKey[c]] # "unseen"
          /\ rowId[turnKey[c]] <= rowId[First(Claimable(c))]
      BY <2>1, <3>4 DEF IInv, KeyIsOldest, TypeOK
    <3>6. CASE turnKey[c] \in Claimable(c)
      <4>1. rowId[turnKey[c]] = rowId[First(Claimable(c))]
        BY <3>3, <3>4, <3>5, <3>6 DEF IInv, TypeOK
      <4>2. rowId[turnKey[c]] # 0
        BY <3>5 DEF IInv, RowIds
      <4>3. turnKey[c] = First(Claimable(c))
        BY <3>3, <3>4, <3>5, <4>1, <4>2 DEF IInv, RowIds
      <4>4. QED BY <2>1, <3>2, <4>3
    <3>7. CASE turnKey[c] \notin Claimable(c)
      BY <3>5, <3>7 DEF Claimable, MessagesOf, Settled, Unsettled, IInv, TypeOK
    <3>8. QED BY <3>6, <3>7
  <2>2. ASSUME turnKey' = turnKey PROVE \A c \in Conversation : KeyMoves(c)
    BY <2>2
  <2>3. CASE UNCHANGED vars
    BY <2>2, <2>3 DEF vars, history
  <2>4. ASSUME NEW m \in Message, Post(m) \/ Schedule(m) \/ AgentPost(m)
        PROVE  turnKey' = turnKey
    BY <2>4 DEF Post, Schedule, AgentPost, history
  <2>5. ASSUME NEW c \in Conversation,
               \/ Flush(c) \/ RetryFires(c) \/ ClaimNothing(c) \/ ClaimThrows(c)
               \/ AskAgent(c) \/ SkipEmptyBatch(c) \/ TurnSucceeds(c) \/ TurnFails(c)
               \/ TurnFailsFinally(c) \/ Notified(c) \/ WorkerThrows(c)
        PROVE  turnKey' = turnKey
    BY <2>5 DEF Flush, RetryFires, ClaimNothing, ClaimThrows, AskAgent, SkipEmptyBatch,
       TurnSucceeds, TurnFails, TurnFailsFinally, Notified, WorkerThrows, Release, history
  <2>6. CASE Crash \/ Boot
    BY <2>2, <2>6 DEF Crash, Boot, history
  <2>7. QED
    BY <2>1, <2>2, <2>3, <2>4, <2>5, <2>6 DEF Next, Work
<1>2. QED BY <1>1, InductiveInvariant, PTL DEF Spec, TurnKeyIsStable

-----------------------------------------------------------------------------
(* Refinement *)

\* Marking a non-empty set of oldest rows settles a batch of the promise.
LEMMA MarkingSettles ==
  ASSUME IInv, NEW c \in Conversation, NEW batch \in SUBSET Claimable(c), batch # {},
         \A m \in batch, n \in Claimable(c) \ batch : rowId[m] < rowId[n],
         NEW outcome \in Settled, status' = Mark(batch, outcome),
         rowId' = rowId, lastId' = lastId
  PROVE  Promise!Settle(c)
<1>1. Promise!Owed(c) = Claimable(c)
  BY DEF Promise!Owed, stage, Claimable, MessagesOf, Unsettled, Settled, IInv, TypeOK
<1>2. batch \in SUBSET Promise!Owed(c) /\ outcome \in {"done", "failed"}
  BY <1>1 DEF Settled
<1>3. Promise!OldestFirst(c, batch)
  BY <1>1 DEF Promise!OldestFirst
<1>4. stage' = [m \in Message |-> IF m \in batch THEN outcome ELSE stage[m]]
  BY DEF stage, Mark, Settled, Unsettled, IInv, TypeOK
<1>5. QED
  BY <1>2, <1>3, <1>4 DEF Promise!Settle

\* A row that is inserted is a message the promise accepts.
LEMMA InsertingAccepts ==
  ASSUME IInv, NEW m \in Message, Insert(m),
         ConversationOf[m] \in AgentConversation => Claimable(ConversationOf[m]) = {}
  PROVE  Promise!Accept(m)
<1>1. Promise!Owed(ConversationOf[m]) = Claimable(ConversationOf[m])
  BY DEF Promise!Owed, stage, Claimable, MessagesOf, Unsettled, Settled, IInv, TypeOK
<1>2. stage' = [stage EXCEPT ![m] = "owed"]
  BY DEF stage, Insert, Unsettled, IInv, TypeOK
<1>3. QED
  BY <1>1, <1>2 DEF Promise!Accept, Insert, stage, Unsettled

\* The inbox implements its promise: every step accepts one message, settles
\* one oldest-first batch whole, or is invisible.
THEOREM InboxKeepsPromise == Spec => KeepsPromise
<1>1. Init => Promise!Init
  BY DEF Init, Promise!Init, stage, Unsettled
<1>2. IInv /\ [Next]_vars => [Promise!Next]_(Promise!vars)
  <2> SUFFICES ASSUME IInv, [Next]_vars PROVE Promise!Next \/ UNCHANGED Promise!vars
    OBVIOUS
  <2>1. ASSUME stage' = stage, rowId' = rowId, lastId' = lastId
        PROVE  UNCHANGED Promise!vars
    BY <2>1 DEF Promise!vars
  <2>2. ASSUME NEW m \in Message, Post(m) \/ AgentPost(m)
        PROVE  Promise!Next
    BY <2>2, InsertingAccepts DEF Post, AgentPost, Promise!Next
  <2>3. ASSUME UNCHANGED table PROVE UNCHANGED Promise!vars
    BY <2>1, <2>3 DEF table, stage
  <2>4. ASSUME NEW c \in Conversation, ClaimBatch(c) PROVE UNCHANGED Promise!vars
    <3>1. stage' = stage
      BY <2>4 DEF ClaimBatch, stage, Mark, Claimable, MessagesOf, Unsettled, IInv, TypeOK
    <3>2. QED BY <2>1, <2>4, <3>1 DEF ClaimBatch, Claim
  <2>5. ASSUME NEW c \in Conversation, AbandonBatch(c) PROVE Promise!Next
    <3>1. Promise!Settle(c)
      BY <2>5, MarkingSettles, "failed" \in Settled DEF AbandonBatch, Claim, Settled
    <3>2. QED BY <3>1 DEF Promise!Next
  <2>6. ASSUME NEW c \in Conversation, NEW s \in Settled, NEW next, Release(c, s, next),
               phase[c] \in {"resolving", "asking"}
        PROVE  Promise!Next
    <3>1. claimed[c] \in SUBSET Claimable(c) /\ claimed[c] # {}
      BY <2>6 DEF IInv, TypeOK, TurnOwnsItsRows, Claimable, MessagesOf, Unsettled
    <3>2. \A m \in claimed[c], n \in Claimable(c) \ claimed[c] : rowId[m] < rowId[n]
      BY DEF IInv, ClaimsAreOldest
    <3>3. Promise!Settle(c)
      BY <2>6, <3>1, <3>2, MarkingSettles DEF Release
    <3>4. QED BY <3>3 DEF Promise!Next
  <2>7. ASSUME NEW c \in Conversation,
               SkipEmptyBatch(c) \/ TurnSucceeds(c) \/ TurnFailsFinally(c)
        PROVE  Promise!Next
    BY <2>6, <2>7 DEF SkipEmptyBatch, TurnSucceeds, TurnFailsFinally, Settled
  <2>8. ASSUME NEW c \in Conversation, TurnFails(c) PROVE UNCHANGED Promise!vars
    <3>1. stage' = stage
      BY <2>8 DEF TurnFails, Release, stage, Mark, Unsettled, IInv, TypeOK, TurnOwnsItsRows
    <3>2. QED BY <2>1, <2>8, <3>1 DEF TurnFails, Release
  <2>9. ASSUME NEW m \in Message, Schedule(m) PROVE UNCHANGED Promise!vars
    BY <2>3, <2>9 DEF Schedule
  <2>10. ASSUME NEW c \in Conversation,
                \/ Flush(c) \/ RetryFires(c) \/ ClaimNothing(c) \/ ClaimThrows(c)
                \/ AskAgent(c) \/ Notified(c) \/ WorkerThrows(c)
         PROVE  UNCHANGED Promise!vars
    BY <2>3, <2>10 DEF Flush, RetryFires, ClaimNothing, ClaimThrows, AskAgent, Notified,
       WorkerThrows
  <2>11. CASE Crash \/ Boot \/ UNCHANGED vars
    BY <2>3, <2>11 DEF Crash, Boot, vars
  <2>12. QED
    BY <2>2, <2>4, <2>5, <2>7, <2>8, <2>9, <2>10, <2>11 DEF Next, Work
<1>3. QED
  BY <1>1, <1>2, InductiveInvariant, PTL DEF Spec, KeepsPromise, Promise!Safety
=============================================================================
