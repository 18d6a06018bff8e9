----------------------------- MODULE MCAgentDoor -----------------------------
(* Small instances of AgentDoor for TLC. *)
EXTENDS AgentDoorProperties

CONSTANTS ask, again, callback, nested, deeper, front, back, far

\* ask, a second question and a call with a callback share one conversation (the
\* call with a callback repeats the message of ask); the turn of ask may ask the
\* back agent, and that turn a third agent.
Keys == [r \in Request |->
  CASE r = nested -> back
    [] r = deeper -> far
    [] OTHER -> front]

Parents == [r \in Request |->
  CASE r = nested -> ask
    [] r = deeper -> nested
    [] OTHER -> Outside]

Handles == [r \in Request |-> IF r = callback THEN ask ELSE r]
=============================================================================
