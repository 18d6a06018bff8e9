--------------------------- MODULE IntakePromise ----------------------------
(***************************************************************************)
(* What the way from WhatsApp promises as a whole: the promise of the      *)
(* inbox, with a line in front of it.  A message joins the line once; the  *)
(* first of the line becomes a row, or leaves when the server can never    *)
(* make one of it; nobody passes anybody and nobody is lost.  With the     *)
(* Cloud API there is no line, and any message may become a row, once.     *)
(*                                                                         *)
(* Intake (an outbox posted at least once, answers lost or late, a dedupe  *)
(* key, crashes on both sides) implements it.                              *)
(***************************************************************************)
EXTENDS InboxPromise, Sequences

CONSTANT Event            \* of a message, e.msg: what is said of it

VARIABLES line,        \* the events that wait to become rows, oldest first
          joined,      \* the messages that ever joined the line
          acceptable,  \* the events the server would make a row of
          direct       \* no line: the Cloud API

lineVars == <<line, joined, acceptable, direct>>
promiseVars == <<vars, lineVars>>

LineInit ==
  /\ Init
  /\ line = <<>> /\ joined = {}
  /\ direct \in BOOLEAN

Join(e) ==
  /\ ~direct /\ e.msg \in Message \ joined
  /\ line' = Append(line, e)
  /\ joined' = joined \cup {e.msg}
  /\ UNCHANGED <<vars, acceptable, direct>>

Arrive ==
  /\ line # <<>> /\ Head(line) \in acceptable
  /\ Accept(Head(line).msg)
  /\ line' = Tail(line)
  /\ UNCHANGED <<joined, acceptable, direct>>

Discard ==
  /\ line # <<>> /\ Head(line) \notin acceptable
  /\ line' = Tail(line)
  /\ UNCHANGED <<vars, joined, acceptable, direct>>

ArriveDirectly(m) ==
  /\ direct /\ Accept(m)
  /\ UNCHANGED lineVars

SettleOldest(c) ==
  /\ Settle(c)
  /\ UNCHANGED lineVars

LineNext ==
  \/ \E e \in Event : Join(e)
  \/ Arrive \/ Discard
  \/ \E m \in Message : ArriveDirectly(m)
  \/ \E c \in Conversation : SettleOldest(c)

LineSafety == LineInit /\ [][LineNext]_promiseVars
=============================================================================
