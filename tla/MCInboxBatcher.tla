--------------------------- MODULE MCInboxBatcher ---------------------------
(* Small instances of InboxBatcher for TLC. *)
EXTENDS InboxProperties

CONSTANTS w1, w2, w3, a1, a2, phone, door

\* w1, w2, w3 are a phone's messages; a1, a2 are exchanges on one agent key.
Assigned == [m \in Message |-> IF m \in {a1, a2} THEN door ELSE phone]
=============================================================================
