-------------------------- MODULE AccessProperties ---------------------------
(* What roles and credentials come to, through restarts and over time.       *)
EXTENDS Access

AccessTypeOK ==
  /\ clock \in 0 .. MaxClock /\ boots \in 0 .. MaxBoots /\ tokens \in 0 .. MaxRosterTokens
  /\ role \in [Phone -> Role \cup {"none"}] /\ decided \in [Phone -> Role \cup {"none"}]
  /\ roster \in [Phone -> 0 .. tokens]
  /\ asked \in [Phone -> {"no", "waiting", "sending"}]
  /\ issued \in [sessions : 0 .. MaxSessions, links : 0 .. MaxLinks]
  /\ sessions \subseteq [id : 1 .. issued.sessions, phone : Phone, held : BOOLEAN,
                         claimed : BOOLEAN, expiresAt : Nat, revoked : BOOLEAN,
                         root : 0 .. clock, link : 0 .. issued.links]
  /\ links \subseteq [id : 1 .. issued.links, phone : Phone, born : 0 .. clock,
                      expiresAt : Nat, used : BOOLEAN]

\* "A phone the table records as a customer STAYS a customer even while the
\* variable still names it": what was last set by hand, at the command line or in
\* the test console, outlasts every restart and every OWNER_PHONE_NUMBERS.
OperatorsWordStands == \A p \in Phone : decided[p] # "none" => role[p] = decided[p]

\* Reach into the console ends.  However often it is used, a session is over
\* ClaimTtl + SessionTtl after it was issued or, when a link was opened for it,
\* LinkTtl later than that after the link was made; and a link opens one session.
ReachIsBounded ==
  \A s \in sessions : Live(s) =>
    /\ clock < s.root + (IF s.link = 0 THEN 0 ELSE LinkTtl) + ClaimTtl + SessionTtl
    /\ \A r \in sessions : Live(r) /\ r.link = s.link /\ s.link # 0 => r = s
=============================================================================
