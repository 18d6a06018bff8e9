------------------------------ MODULE MCHandoff ------------------------------
(* Small instances of Handoff for TLC. *)
EXTENDS HandoffProperties

CONSTANTS customer, restock, again, legacy

\* Leads of one customer's conversation, and one from before leads kept where they
\* came from, which an instance may have or not: it triples the states, and no
\* move of it reaches the handoff.  again asks for the same thing as restock.
Origin == [l \in Lead |-> IF l = legacy THEN Nobody ELSE customer]
Asks == [l \in Lead |-> IF l = again THEN restock ELSE l]
=============================================================================
