---------------------------- MODULE InboxPromise ----------------------------
(***************************************************************************)
(* What the durable inbox promises, with none of the machinery that keeps  *)
(* the promise: a message that was accepted is owed a settlement, whole    *)
(* batches are settled at once, always the oldest rows of a conversation   *)
(* first, and every message owed is settled in the end.                    *)
(*                                                                         *)
(* InboxBatcher (timers, queue, claims, retries, crashes) implements it.   *)
(***************************************************************************)
EXTENDS Naturals

CONSTANTS Message, Conversation, ConversationOf,
          AgentConversation   \* one exchange at a time

VARIABLES stage,     \* what has become of each message
          position,  \* arrival number of each accepted message, 0 before
          arrivals   \* arrival number given last

vars == <<stage, position, arrivals>>

Owed(c) == {m \in Message : ConversationOf[m] = c /\ stage[m] = "owed"}

\* A batch holds the oldest messages owed: nothing older is left behind.
OldestFirst(c, batch) ==
  \A m \in batch, n \in Owed(c) \ batch : position[m] < position[n]

Init == /\ stage = [m \in Message |-> "unseen"]
        /\ position = [m \in Message |-> 0]
        /\ arrivals = 0

Accept(m) ==
  /\ stage[m] = "unseen"
  /\ ConversationOf[m] \in AgentConversation => Owed(ConversationOf[m]) = {}
  /\ stage' = [stage EXCEPT ![m] = "owed"]
  /\ position' = [position EXCEPT ![m] = arrivals + 1]
  /\ arrivals' = arrivals + 1

Settle(c) ==
  \E batch \in SUBSET Owed(c), outcome \in {"done", "failed"} :
    /\ batch # {}
    /\ OldestFirst(c, batch)
    /\ stage' = [m \in Message |-> IF m \in batch THEN outcome ELSE stage[m]]
    /\ UNCHANGED <<position, arrivals>>

Next == \/ \E m \in Message : Accept(m)
        \/ \E c \in Conversation : Settle(c)

Safety == Init /\ [][Next]_vars

Spec == Safety /\ \A c \in Conversation : WF_vars(Settle(c))
=============================================================================
