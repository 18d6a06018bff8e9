-------------------------- MODULE ExchangePromise ---------------------------
(***************************************************************************)
(* What the agent door promises to those who ask through it, with none of  *)
(* the machinery (parked callers, timers, rows, jobs, retries, callbacks). *)
(* A conversation has one exchange at a time and hears a message once.  An *)
(* exchange is over once its reply was handed over or its caller has left, *)
(* or when it failed; and a caller is told one thing, once, and only what  *)
(* is so.                                                                  *)
(*                                                                         *)
(* AgentDoor implements it.                                                *)
(***************************************************************************)
CONSTANTS Request, KeyOf, Handle,
          Async                    \* requests whose caller does not wait

VARIABLES exchange,  \* what has become of each request
          reply,     \* requests whose reply was handed over
          told       \* what the caller of each request was told

promiseVars == <<exchange, reply, told>>

InPlay(k) == {r \in Request : KeyOf[r] = k /\ exchange[r] = "owed"}
Heard(h)  == {r \in Request : Handle[r] = h /\ exchange[r] \notin {"unasked", "turned away"}}

ExchangeInit ==
  /\ exchange = [r \in Request |-> "unasked"]
  /\ reply = {}
  /\ told = [r \in Request |-> "nothing"]

Become(r, what) == exchange' = [exchange EXCEPT ![r] = what]

TurnedAway(r) ==
  /\ exchange[r] = "unasked"
  /\ Become(r, "turned away")
  /\ UNCHANGED <<reply, told>>

Admit(r) ==
  /\ exchange[r] = "unasked"
  /\ InPlay(KeyOf[r]) = {} /\ Heard(Handle[r]) = {}
  /\ Become(r, "owed")
  /\ UNCHANGED <<reply, told>>

HandOver(r) ==
  /\ exchange[r] = "owed" /\ told[r] = "nothing" /\ r \notin reply
  /\ reply' = reply \cup {r}
  /\ UNCHANGED <<exchange, told>>

TellReply(r) ==
  /\ told[r] = "nothing" /\ r \in reply \ Async
  /\ told' = [told EXCEPT ![r] = "reply"]
  /\ UNCHANGED <<exchange, reply>>

TellFailure(r) ==
  /\ told[r] = "nothing" /\ r \notin reply /\ exchange[r] = "failed"
  /\ told' = [told EXCEPT ![r] = "failure"]
  /\ UNCHANGED <<exchange, reply>>

\* Timers, broken connections and restarts: some callers leave without an answer.
Leave(callers) ==
  /\ \A r \in callers : told[r] = "nothing" /\ exchange[r] \notin {"unasked", "turned away"}
  /\ told' = [r \in Request |-> IF r \in callers THEN "silence" ELSE told[r]]
  /\ UNCHANGED <<exchange, reply>>

Finish(r) ==
  /\ exchange[r] = "owed"
  /\ r \in reply \/ told[r] = "silence"
  /\ Become(r, "done")
  /\ UNCHANGED <<reply, told>>

Fail(r) ==
  /\ exchange[r] = "owed"
  /\ Become(r, "failed")
  /\ UNCHANGED <<reply, told>>

ExchangeNext ==
  \/ \E r \in Request :
       \/ TurnedAway(r) \/ Admit(r) \/ HandOver(r)
       \/ TellReply(r) \/ TellFailure(r)
       \/ Finish(r) \/ Fail(r)
  \/ \E callers \in SUBSET (Request \ Async) : Leave(callers)

ExchangeSafety == ExchangeInit /\ [][ExchangeNext]_promiseVars
=============================================================================
