-------------------------- MODULE UpgradeProperties --------------------------
(* What must survive an upgrade.                                             *)
EXTENDS Upgrade

UpgradeTypeOK ==
  /\ columns \subseteq Column
  /\ inboxRows \in [InboxRow -> {"none", "bare", "whole"}]
  /\ shape \in {"phone", "agent"}
  /\ sessionRows \subseteq [agent : {"unkeyed", "owner", "customer"}, phone : Contact, at : 1 .. MaxStamp]
  /\ opener \in [Process -> [kind : {"none", "server", "command", "tool"}, owners : SUBSET Owners,
                             at : 0 .. Len(Program) + 1, missing : BOOLEAN]]
  /\ opens \in 0 .. MaxOpens /\ stamp \in 0 .. MaxStamp
  /\ legacy \in [Contact -> 0 .. MaxStamp] /\ resumed \subseteq Contact
  /\ careless \in BOOLEAN /\ dropped \in BOOLEAN

\* A row without an envelope is never claimed, and nothing reports it.
RowsCanBeClaimed == (\E o \in Process : Serving(o)) => \A r \in InboxRow : inboxRows[r] # "bare"

\* Until this build answers the person, their session is there, once, with its age;
\* or the process that rebuilt the table could resolve nobody, and then no session of
\* the older build is kept for anybody (data/db.ts: a drop is better than a guess).
SessionsAreCarriedOver ==
  /\ ~dropped => \A p \in Contact \ resumed : legacy[p] # 0 =>
       \E s \in sessionRows : s.at = legacy[p] /\ {t \in sessionRows : t.phone = p} = {s}
  /\ dropped => \A s \in sessionRows : s.phone \in resumed

\* An owner's listing in progress goes to the customers' agent only by a server
\* that was started without the variable.
FiledWithTheirAgent ==
  \A s \in sessionRows : s.phone \in Owners \ resumed /\ ~careless => s.agent # "customer"

\* Whatever processes open the database side by side, die half-way or are rolled
\* back, a server that serves can claim every row, no person's session is doubled or
\* made younger, or lost but to a rebuild without a resolver, and no owner's is filed
\* with the customers (data/db.ts migrate; router.ts legacySessionAgentId,
\* refusingLegacyAgentIdFor).
UpgradeKeepsEverything == RowsCanBeClaimed /\ SessionsAreCarriedOver /\ FiledWithTheirAgent
=============================================================================
