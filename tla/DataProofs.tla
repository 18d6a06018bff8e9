------------------------------ MODULE DataProofs ------------------------------
(***************************************************************************)
(* What server/src/data keeps: roles and credentials, the purge, and the    *)
(* upgrade, each for any constants.                                         *)
(***************************************************************************)
EXTENDS AccessProperties, ForgetProperties, UpgradeProperties, FiniteSetTheorems,
        SequenceTheorems, TLAPS

-----------------------------------------------------------------------------
(***************************************************************************)
(* Roles and credentials, for any phones, deadlines and number of each.    *)
(* That what was decided by hand stands is inductive as it is.  That reach *)
(* ends needs to be said of dead sessions as well as of live ones, in two  *)
(* parts: how far a session's deadline can be from where it came from, and *)
(* that a link which some session came from is spent.                      *)
(***************************************************************************)

(* The inductive invariant.                                                   *)

\* The latest a session may have been made, from where its credential began.
Latest(s) == s.root + (IF s.link = 0 THEN 0 ELSE LinkTtl)

\* A session is claimed before its first deadline, and moves it once.
Bounded(s) == s.expiresAt <= Latest(s) + ClaimTtl + (IF s.claimed THEN SessionTtl ELSE 0)

DeadlinesAreBounded ==
  /\ \A s \in sessions : Bounded(s)
  /\ \A l \in links : l.expiresAt = l.born + LinkTtl

\* A link is one row, and the row of a link that was opened says so.
LinksAreSpent ==
  /\ \A s, r \in sessions : s.link = r.link /\ s.link # 0 => s = r
  /\ \A s \in sessions : \A l \in links : s.link = l.id => l.used
  /\ \A l, m \in links : l.id = m.id => l = m

AccessIInv ==
  /\ AccessTypeOK
  /\ OperatorsWordStands
  /\ DeadlinesAreBounded
  /\ LinksAreSpent

\* The part of it that is about credentials.
Credentials == DeadlinesAreBounded /\ LinksAreSpent

SessionRow == [id : 1 .. issued.sessions, phone : Phone, held : BOOLEAN, claimed : BOOLEAN,
               expiresAt : Nat, revoked : BOOLEAN, root : 0 .. clock, link : 0 .. issued.links]

LinkRow == [id : 1 .. issued.links, phone : Phone, born : 0 .. clock, expiresAt : Nat,
            used : BOOLEAN]

-----------------------------------------------------------------------------
(* What the deadlines are.                                                    *)

LEMMA Deadlines ==
  /\ ClaimTtl \in Nat /\ SessionTtl \in Nat /\ LinkTtl \in Nat
  /\ MaxClock \in Nat /\ MaxSessions \in Nat /\ MaxLinks \in Nat /\ MaxBoots \in Nat
  /\ MaxRosterTokens \in Nat
  BY AccessAssumption DEF AccessAssumption

-----------------------------------------------------------------------------
(* What may be done to the sessions together.                                 *)

\* Sessions that are changed one by one, or dropped, and keep where they came from.
LEMMA SessionsMapped ==
  ASSUME AccessIInv, NEW f,
         \A s \in sessions : /\ f[s] \in SessionRow /\ Bounded(f[s])
                             /\ f[s].link = s.link,
         sessions' \subseteq {f[s] : s \in sessions},
         UNCHANGED <<issued, clock, links>>
  PROVE  sessions' \subseteq SessionRow' /\ Credentials'
<1>1. \A s \in sessions' : s \in SessionRow /\ Bounded(s)
  OBVIOUS
<1>2. SessionRow' = SessionRow
  BY DEF SessionRow
<1>3. DeadlinesAreBounded'
  BY <1>1 DEF AccessIInv, DeadlinesAreBounded, Bounded, Latest
<1>4. LinksAreSpent'
  BY DEF AccessIInv, LinksAreSpent
<1>. QED
  BY <1>1, <1>2, <1>3, <1>4 DEF Credentials

\* A session is made of a phone's word, by hand, or of a link that was not spent.
LEMMA IssueKeeps ==
  ASSUME AccessIInv, NEW p \in Phone, NEW held \in BOOLEAN,
         Issue(p, held, clock, 0), issued' = [issued EXCEPT !.sessions = @ + 1],
         UNCHANGED <<clock, links>>
  PROVE  /\ issued' \in [sessions : 0 .. MaxSessions, links : 0 .. MaxLinks]
         /\ sessions' \subseteq SessionRow' /\ links' \subseteq LinkRow'
         /\ Credentials'
<1>. DEFINE new == NewSession(p, held, clock, 0)
<1>1. /\ issued'.sessions = issued.sessions + 1 /\ issued'.links = issued.links
      /\ issued'.sessions \in 1 .. MaxSessions
      /\ issued' \in [sessions : 0 .. MaxSessions, links : 0 .. MaxLinks]
  BY Deadlines DEF AccessIInv, AccessTypeOK, Issue
<1>2. sessions' = sessions \cup {new} /\ clock' = clock /\ links' = links
  BY DEF Issue
<1>3. /\ new.link = 0 /\ new.root = clock /\ ~new.claimed
      /\ new.expiresAt = clock + ClaimTtl
  BY DEF NewSession
<1>4. clock \in Nat
  BY DEF AccessIInv, AccessTypeOK
<1>5. new \in SessionRow'
  <2>1. /\ issued.sessions + 1 \in 1 .. issued'.sessions
        /\ clock + ClaimTtl \in Nat /\ clock \in 0 .. clock'
        /\ 0 \in 0 .. issued'.links
    BY <1>1, <1>2, <1>4, Deadlines DEF AccessIInv, AccessTypeOK
  <2>. QED
    BY <2>1 DEF NewSession, SessionRow
<1>6. SessionRow \subseteq SessionRow' /\ LinkRow' = LinkRow
  <2>1. 1 .. issued.sessions \subseteq 1 .. issued'.sessions
    BY <1>1 DEF AccessIInv, AccessTypeOK
  <2>. QED
    BY <1>1, <1>2, <2>1 DEF SessionRow, LinkRow
<1>7. sessions' \subseteq SessionRow' /\ links' \subseteq LinkRow'
  BY <1>2, <1>5, <1>6 DEF AccessIInv, AccessTypeOK, SessionRow, LinkRow
<1>8. Bounded(new)
  BY <1>3, <1>4, Deadlines DEF Bounded, Latest
<1>9. DeadlinesAreBounded'
  BY <1>2, <1>8 DEF AccessIInv, DeadlinesAreBounded, Bounded, Latest
<1>10. LinksAreSpent'
  <2>1. \A l \in links : l.id # 0
    BY DEF AccessIInv, AccessTypeOK
  <2>. QED
    BY <1>2, <1>3, <2>1 DEF AccessIInv, LinksAreSpent
<1>. QED
  BY <1>1, <1>7, <1>9, <1>10 DEF Credentials

-----------------------------------------------------------------------------
(* The invariant holds at first, and each action keeps it.                    *)

LEMMA AccessInitEstablishes == AccessInit => AccessIInv
<1>. SUFFICES ASSUME AccessInit PROVE AccessIInv
  OBVIOUS
<1>1. AccessTypeOK
  BY Deadlines DEF AccessInit, AccessTypeOK
<1>2. OperatorsWordStands
  BY DEF AccessInit, OperatorsWordStands
<1>3. DeadlinesAreBounded /\ LinksAreSpent
  BY DEF AccessInit, DeadlinesAreBounded, LinksAreSpent
<1>. QED
  BY <1>1, <1>2, <1>3 DEF AccessIInv

\* Time goes by: no row is changed by it.
LEMMA TickKeeps == ASSUME AccessIInv, Tick PROVE AccessIInv'
<1>1. /\ clock' = clock + 1 /\ clock' \in 0 .. MaxClock
      /\ UNCHANGED <<role, decided, roster, tokens, asked, sessions, links, issued, boots>>
  BY Deadlines DEF AccessIInv, AccessTypeOK, Tick
<1>2. 0 .. clock \subseteq 0 .. clock'
  BY <1>1 DEF AccessIInv, AccessTypeOK
<1>3. sessions \subseteq SessionRow /\ links \subseteq LinkRow
  BY DEF AccessIInv, AccessTypeOK, SessionRow, LinkRow
<1>4. SessionRow \subseteq SessionRow' /\ LinkRow \subseteq LinkRow'
  BY <1>1, <1>2 DEF SessionRow, LinkRow
<1>5. AccessTypeOK'
  BY <1>1, <1>3, <1>4 DEF AccessIInv, AccessTypeOK, SessionRow, LinkRow
<1>6. OperatorsWordStands' /\ DeadlinesAreBounded' /\ LinksAreSpent'
  BY <1>1 DEF AccessIInv, OperatorsWordStands, DeadlinesAreBounded, Bounded, Latest, LinksAreSpent
<1>. QED
  BY <1>5, <1>6 DEF AccessIInv

\* Nothing that is said of credentials is about anything else.
LEMMA CredentialsKeep ==
  ASSUME AccessIInv, UNCHANGED <<clock, sessions, links, issued>>
  PROVE  /\ clock' \in 0 .. MaxClock
         /\ issued' \in [sessions : 0 .. MaxSessions, links : 0 .. MaxLinks]
         /\ sessions' \subseteq SessionRow' /\ links' \subseteq LinkRow'
         /\ Credentials'
<1>1. SessionRow' = SessionRow /\ LinkRow' = LinkRow
  BY DEF SessionRow, LinkRow
<1>2. sessions' \subseteq SessionRow' /\ links' \subseteq LinkRow'
  BY <1>1 DEF AccessIInv, AccessTypeOK, SessionRow, LinkRow
<1>3. Credentials'
  BY DEF AccessIInv, Credentials, DeadlinesAreBounded, Bounded, Latest, LinksAreSpent
<1>. QED
  BY <1>2, <1>3 DEF AccessIInv, AccessTypeOK

\* The rest of the state: roles, the roster and what is asked for.
People ==
  /\ boots \in 0 .. MaxBoots /\ tokens \in 0 .. MaxRosterTokens
  /\ role \in [Phone -> Role \cup {"none"}] /\ decided \in [Phone -> Role \cup {"none"}]
  /\ roster \in [Phone -> 0 .. tokens]
  /\ asked \in [Phone -> {"no", "waiting", "sending"}]
  /\ OperatorsWordStands

LEMMA Together ==
  ASSUME People', Credentials', clock' \in 0 .. MaxClock,
         issued' \in [sessions : 0 .. MaxSessions, links : 0 .. MaxLinks],
         sessions' \subseteq SessionRow', links' \subseteq LinkRow'
  PROVE  AccessIInv'
  BY DEF AccessIInv, AccessTypeOK, People, Credentials, SessionRow, LinkRow

-----------------------------------------------------------------------------
(* Roles, the roster and what is asked for.                                   *)

LEMMA BootKeeps == ASSUME AccessIInv, Boot PROVE AccessIInv'
<1>1. PICK names \in SUBSET Phone : role' = Seeded(names)
  BY DEF Boot
<1>2. role' \in [Phone -> Role \cup {"none"}] /\ OperatorsWordStands'
  BY <1>1 DEF Boot, Seeded, AccessIInv, AccessTypeOK, OperatorsWordStands, Role
<1>3. asked' \in [Phone -> {"no", "waiting", "sending"}]
  BY DEF Boot, AccessIInv, AccessTypeOK
<1>4. boots' \in 0 .. MaxBoots
  BY Deadlines DEF Boot, AccessIInv, AccessTypeOK
<1>5. People'
  BY <1>2, <1>3, <1>4 DEF Boot, AccessIInv, AccessTypeOK, People
<1>. QED
  BY <1>5, CredentialsKeep, Together DEF Boot

\* A role that is set is decided; one that is removed leaves nothing decided.
LEMMA RoleKeeps ==
  ASSUME AccessIInv, NEW p \in Phone, NEW r \in Role \cup {"none"}, AssignRole(p, r),
         UNCHANGED <<clock, roster, tokens, asked, sessions, links, issued, boots>>
  PROVE  AccessIInv'
<1>1. People'
  BY DEF AccessIInv, AccessTypeOK, People, OperatorsWordStands, AssignRole
<1>. QED
  BY <1>1, CredentialsKeep, Together

LEMMA RemoveRoleKeeps == ASSUME AccessIInv, NEW p \in Phone, RemoveRole(p) PROVE AccessIInv'
  BY RoleKeeps DEF RemoveRole, AssignRole

LEMMA FlipKeeps ==
  ASSUME AccessIInv, NEW token \in 1 .. tokens, NEW r \in Role, Flip(token, r)
  PROVE  AccessIInv'
  BY RoleKeeps DEF Flip, Holder

LEMMA RosterKeeps ==
  ASSUME AccessIInv, NEW p \in Phone, MintRosterToken(p) \/ DeleteRosterEntry(p)
  PROVE  AccessIInv'
<1>1. CASE MintRosterToken(p)
  <2>1. tokens' = tokens + 1 /\ tokens' \in 0 .. MaxRosterTokens
    BY <1>1, Deadlines DEF MintRosterToken, AccessIInv, AccessTypeOK
  <2>2. \A q \in Phone : roster[q] \in 0 .. tokens'
    BY <2>1 DEF AccessIInv, AccessTypeOK
  <2>3. roster' \in [Phone -> 0 .. tokens']
    <3>1. roster' = [roster EXCEPT ![p] = tokens'] /\ tokens' \in 0 .. tokens'
      BY <1>1, <2>1 DEF MintRosterToken
    <3>. QED
      BY <2>2, <3>1 DEF AccessIInv, AccessTypeOK
  <2>4. People'
    BY <1>1, <2>1, <2>3
       DEF MintRosterToken, AccessIInv, AccessTypeOK, People, OperatorsWordStands
  <2>. QED
    BY <1>1, <2>4, CredentialsKeep, Together DEF MintRosterToken
<1>2. CASE DeleteRosterEntry(p)
  <2>1. People'
    BY <1>2 DEF DeleteRosterEntry, AccessIInv, AccessTypeOK, People, OperatorsWordStands
  <2>. QED
    BY <1>2, <2>1, CredentialsKeep, Together DEF DeleteRosterEntry
<1>. QED
  BY <1>1, <1>2

LEMMA WritePanelKeeps == ASSUME AccessIInv, NEW p \in Phone, WritePanel(p) PROVE AccessIInv'
<1>1. People'
  BY DEF WritePanel, AccessIInv, AccessTypeOK, People, OperatorsWordStands
<1>. QED
  BY <1>1, CredentialsKeep, Together DEF WritePanel

-----------------------------------------------------------------------------
(* Sessions.                                                                  *)

LEMMA HandlePanelKeeps == ASSUME AccessIInv, NEW p \in Phone, HandlePanel(p) PROVE AccessIInv'
<1>1. People' /\ clock' \in 0 .. MaxClock
  BY DEF HandlePanel, AccessIInv, AccessTypeOK, People, OperatorsWordStands
<1>2. CASE RoleFor(p) = "owner"
  <2>1. Issue(p, FALSE, clock, 0) /\ issued' = [issued EXCEPT !.sessions = @ + 1]
    BY <1>2 DEF HandlePanel
  <2>. QED
    BY <1>1, <2>1, IssueKeeps, Together DEF HandlePanel
<1>3. CASE RoleFor(p) # "owner"
  BY <1>1, <1>3, CredentialsKeep, Together DEF HandlePanel
<1>. QED
  BY <1>2, <1>3

LEMMA IssueByHandKeeps == ASSUME AccessIInv, NEW p \in Phone, IssueByHand(p) PROVE AccessIInv'
<1>1. People' /\ clock' \in 0 .. MaxClock
  BY DEF IssueByHand, AccessIInv, AccessTypeOK, People, OperatorsWordStands
<1>. QED
  BY <1>1, IssueKeeps, Together DEF IssueByHand

\* An action that changes sessions one by one, and maybe what is asked for.
LEMMA SessionsOnly ==
  ASSUME AccessIInv, NEW f,
         \A s \in sessions : f[s] \in SessionRow /\ Bounded(f[s]) /\ f[s].link = s.link,
         sessions' \subseteq {f[s] : s \in sessions},
         asked' \in [Phone -> {"no", "waiting", "sending"}],
         UNCHANGED <<clock, role, decided, roster, tokens, links, issued, boots>>
  PROVE  AccessIInv'
<1>1. People' /\ clock' \in 0 .. MaxClock
  BY DEF AccessIInv, AccessTypeOK, People, OperatorsWordStands
<1>2. sessions' \subseteq SessionRow' /\ Credentials'
  BY SessionsMapped
<1>3. links' \subseteq LinkRow' /\ issued' \in [sessions : 0 .. MaxSessions, links : 0 .. MaxLinks]
  BY DEF AccessIInv, AccessTypeOK, LinkRow
<1>. QED
  BY <1>1, <1>2, <1>3, Together

\* What is done to a session that is kept.
LEMMA MarksKeep ==
  ASSUME AccessIInv, NEW s \in sessions
  PROVE  /\ s \in SessionRow /\ Bounded(s)
         /\ \A r \in {[s EXCEPT !.held = TRUE], [s EXCEPT !.revoked = TRUE]} :
              r \in SessionRow /\ Bounded(r) /\ r.link = s.link
<1>1. s \in SessionRow /\ Bounded(s)
  BY DEF AccessIInv, AccessTypeOK, SessionRow, DeadlinesAreBounded
<1>. QED
  BY <1>1 DEF SessionRow, Bounded, Latest

LEMMA SendPanelKeeps == ASSUME AccessIInv, NEW p \in Phone, SendPanel(p) PROVE AccessIInv'
<1>. DEFINE held(s) == IF Sending(p, s) THEN [s EXCEPT !.held = TRUE] ELSE s
            revoke(s) == IF Sending(p, s) THEN [s EXCEPT !.revoked = TRUE] ELSE s
<1>1. asked' \in [Phone -> {"no", "waiting", "sending"}]
  BY DEF SendPanel, AccessIInv, AccessTypeOK
<1>2. CASE sessions' = {held(s) : s \in sessions}
  <2>. DEFINE f == [s \in sessions |-> held(s)]
  <2>1. \A s \in sessions : f[s] \in SessionRow /\ Bounded(f[s]) /\ f[s].link = s.link
    BY MarksKeep
  <2>2. sessions' \subseteq {f[s] : s \in sessions}
    BY <1>2
  <2>. QED
    BY <1>1, <2>1, <2>2, SessionsOnly DEF SendPanel
<1>3. CASE sessions' = {revoke(s) : s \in sessions}
  <2>. DEFINE f == [s \in sessions |-> revoke(s)]
  <2>1. \A s \in sessions : f[s] \in SessionRow /\ Bounded(f[s]) /\ f[s].link = s.link
    BY MarksKeep
  <2>2. sessions' \subseteq {f[s] : s \in sessions}
    BY <1>3
  <2>. QED
    BY <1>1, <2>1, <2>2, SessionsOnly DEF SendPanel
<1>. QED
  BY <1>2, <1>3 DEF SendPanel

\* A session is claimed while it is live, so the clock is short of its first deadline.
LEMMA AuthenticateKeeps == ASSUME AccessIInv, Authenticate PROVE AccessIInv'
<1>1. PICK s \in sessions : Live(s) /\ sessions' = (sessions \ {s}) \cup {Claimed(s)}
  BY DEF Authenticate
<1>. DEFINE f == [r \in sessions |-> IF r = s THEN Claimed(s) ELSE r]
<1>2. s \in SessionRow /\ Bounded(s)
  BY MarksKeep
<1>3. Claimed(s) \in SessionRow /\ Bounded(Claimed(s)) /\ Claimed(s).link = s.link
  <2>1. CASE s.claimed
    BY <1>2, <2>1 DEF Claimed
  <2>2. CASE ~s.claimed
    <3>1. Claimed(s) = [s EXCEPT !.claimed = TRUE, !.expiresAt = clock + SessionTtl]
      BY <2>2 DEF Claimed
    <3>2. clock \in Nat
      BY DEF AccessIInv, AccessTypeOK
    <3>3. clock + SessionTtl \in Nat
      BY <3>2, Deadlines
    <3>4. /\ Claimed(s) \in SessionRow /\ Claimed(s).link = s.link
          /\ Claimed(s).root = s.root /\ Claimed(s).claimed
          /\ Claimed(s).expiresAt = clock + SessionTtl
      BY <1>2, <3>1, <3>3 DEF SessionRow
    <3>5. Latest(Claimed(s)) = Latest(s) /\ Latest(s) \in Nat
      BY <1>2, <3>2, <3>4, Deadlines DEF Latest, SessionRow
    <3>6. clock < s.expiresAt /\ s.expiresAt \in Nat /\ s.expiresAt <= Latest(s) + ClaimTtl
      BY <1>1, <1>2, <2>2, <3>5, Deadlines DEF Live, Bounded, SessionRow
    <3>7. Bounded(Claimed(s))
      BY <3>2, <3>4, <3>5, <3>6, Deadlines DEF Bounded
    <3>. QED
      BY <3>4, <3>7
  <2>. QED
    BY <2>1, <2>2
<1>4. \A r \in sessions : f[r] \in SessionRow /\ Bounded(f[r]) /\ f[r].link = r.link
  BY <1>3, MarksKeep
<1>5. sessions' \subseteq {f[r] : r \in sessions}
  BY <1>1
<1>6. asked' \in [Phone -> {"no", "waiting", "sending"}]
  BY DEF Authenticate, AccessIInv, AccessTypeOK
<1>. HIDE DEF f
<1>. QED
  BY <1>4, <1>5, <1>6, SessionsOnly DEF Authenticate

LEMMA RevokeKeeps == ASSUME AccessIInv, Revoke PROVE AccessIInv'
<1>1. asked' \in [Phone -> {"no", "waiting", "sending"}]
  BY DEF Revoke, AccessIInv, AccessTypeOK
<1>2. ASSUME NEW s \in sessions, sessions' = (sessions \ {s}) \cup {[s EXCEPT !.revoked = TRUE]}
      PROVE  AccessIInv'
  <2>. DEFINE f == [r \in sessions |-> IF r = s THEN [s EXCEPT !.revoked = TRUE] ELSE r]
  <2>1. \A r \in sessions : f[r] \in SessionRow /\ Bounded(f[r]) /\ f[r].link = r.link
    BY MarksKeep
  <2>2. sessions' \subseteq {f[r] : r \in sessions}
    BY <1>2
  <2>. HIDE DEF f
  <2>. QED
    BY <1>1, <2>1, <2>2, SessionsOnly DEF Revoke
<1>3. ASSUME NEW p \in Phone,
             sessions' = {IF s.phone = p /\ Live(s) THEN [s EXCEPT !.revoked = TRUE] ELSE s :
                            s \in sessions}
      PROVE  AccessIInv'
  <2>. DEFINE f == [s \in sessions |->
                      IF s.phone = p /\ Live(s) THEN [s EXCEPT !.revoked = TRUE] ELSE s]
  <2>1. \A r \in sessions : f[r] \in SessionRow /\ Bounded(f[r]) /\ f[r].link = r.link
    BY MarksKeep
  <2>2. sessions' \subseteq {f[r] : r \in sessions}
    BY <1>3
  <2>. HIDE DEF f
  <2>. QED
    BY <1>1, <2>1, <2>2, SessionsOnly DEF Revoke
<1>. QED
  BY <1>2, <1>3 DEF Revoke

-----------------------------------------------------------------------------
(* Links.                                                                     *)

\* No session has come from a link that is being made.
LEMMA MintLinkKeeps == ASSUME AccessIInv, NEW p \in Phone, MintLink(p) PROVE AccessIInv'
<1>. DEFINE new == [id |-> issued.links + 1, phone |-> p, born |-> clock,
                    expiresAt |-> clock + LinkTtl, used |-> FALSE]
<1>1. People' /\ clock' \in 0 .. MaxClock
  BY DEF MintLink, AccessIInv, AccessTypeOK, People, OperatorsWordStands
<1>2. /\ issued'.links = issued.links + 1 /\ issued'.sessions = issued.sessions
      /\ issued'.links \in 1 .. MaxLinks /\ issued.links \in Nat
      /\ issued' \in [sessions : 0 .. MaxSessions, links : 0 .. MaxLinks]
  BY Deadlines DEF MintLink, AccessIInv, AccessTypeOK
<1>3. links' = links \cup {new} /\ sessions' = sessions /\ clock' = clock /\ clock \in Nat
  BY DEF MintLink, AccessIInv, AccessTypeOK
<1>4. SessionRow \subseteq SessionRow' /\ LinkRow \subseteq LinkRow'
  <2>1. 1 .. issued.links \subseteq 1 .. issued'.links /\ 0 .. issued.links \subseteq 0 .. issued'.links
    BY <1>2
  <2>. QED
    BY <1>2, <1>3, <2>1 DEF SessionRow, LinkRow
<1>5. new \in LinkRow'
  <2>1. issued.links + 1 \in 1 .. issued'.links /\ clock \in 0 .. clock' /\ clock + LinkTtl \in Nat
    BY <1>2, <1>3, Deadlines
  <2>. QED
    BY <2>1 DEF LinkRow
<1>6. sessions' \subseteq SessionRow' /\ links' \subseteq LinkRow'
  <2>1. sessions \subseteq SessionRow /\ links \subseteq LinkRow
    BY DEF AccessIInv, AccessTypeOK, SessionRow, LinkRow
  <2>. QED
    BY <1>3, <1>4, <1>5, <2>1
<1>7. DeadlinesAreBounded'
  BY <1>3 DEF AccessIInv, DeadlinesAreBounded, Bounded, Latest
<1>8. LinksAreSpent'
  <2>1. \A s \in sessions : s.link < new.id
    BY <1>2 DEF AccessIInv, AccessTypeOK
  <2>2. \A l \in links : l.id < new.id
    BY <1>2 DEF AccessIInv, AccessTypeOK
  <2>3. new.id \in Nat
    BY <1>2
  <2>4. \A s \in sessions : s.link # new.id
    BY <2>1, <2>3
  <2>5. \A l \in links : l.id # new.id
    BY <2>2, <2>3
  <2>. HIDE DEF new
  <2>. QED
    BY <1>3, <2>4, <2>5 DEF AccessIInv, LinksAreSpent
<1>9. Credentials'
  BY <1>7, <1>8 DEF Credentials
<1>. QED
  BY <1>1, <1>2, <1>6, <1>9, Together

\* The link was not spent, so no session had come from it; and it was not over, so the
\* new one starts within LinkTtl of when the link was made.
LEMMA OpenLinkKeeps == ASSUME AccessIInv, OpenLink PROVE AccessIInv'
<1>1. PICK l \in links : Redeem(l)
  BY DEF OpenLink
<1>. DEFINE new == NewSession(l.phone, TRUE, l.born, l.id)
            spent == [l EXCEPT !.used = TRUE]
<1>2. People' /\ clock' \in 0 .. MaxClock
  BY DEF OpenLink, AccessIInv, AccessTypeOK, People, OperatorsWordStands
<1>3. /\ ~l.used /\ l.expiresAt > clock
      /\ links' = (links \ {l}) \cup {spent} /\ sessions' = sessions \cup {new}
      /\ clock' = clock /\ clock \in Nat
  <2>1. Redeem(l) /\ clock' = clock
    BY <1>1 DEF OpenLink
  <2>2. clock \in Nat
    BY DEF AccessIInv, AccessTypeOK
  <2>. QED
    BY <2>1, <2>2 DEF Redeem, Issue
<1>4. /\ issued'.sessions = issued.sessions + 1 /\ issued'.links = issued.links
      /\ issued'.sessions \in 1 .. MaxSessions
      /\ issued.sessions \in Nat /\ issued.links \in Nat
      /\ issued' \in [sessions : 0 .. MaxSessions, links : 0 .. MaxLinks]
  <2>1. issued.sessions < MaxSessions
    BY <1>1 DEF Redeem, Issue
  <2>2. issued \in [sessions : 0 .. MaxSessions, links : 0 .. MaxLinks]
    BY DEF AccessIInv, AccessTypeOK
  <2>. QED
    BY <2>1, <2>2, Deadlines DEF OpenLink
<1>5. l \in LinkRow /\ l.expiresAt = l.born + LinkTtl
  BY DEF AccessIInv, AccessTypeOK, LinkRow, DeadlinesAreBounded
<1>6. /\ l.id \in 1 .. issued.links /\ l.phone \in Phone /\ l.born \in 0 .. clock
      /\ l.born \in Nat
  BY <1>3, <1>5 DEF LinkRow
<1>7. /\ new.link = l.id /\ new.root = l.born /\ ~new.claimed /\ new.expiresAt = clock + ClaimTtl
      /\ spent.id = l.id /\ spent.born = l.born /\ spent.expiresAt = l.expiresAt
      /\ spent.used /\ spent \in LinkRow
  BY <1>5 DEF NewSession, LinkRow
<1>8. new \in SessionRow'
  <2>1. /\ issued.sessions + 1 \in 1 .. issued'.sessions
        /\ clock + ClaimTtl \in Nat /\ l.born \in 0 .. clock'
        /\ l.id \in 0 .. issued'.links
    BY <1>3, <1>4, <1>6, Deadlines
  <2>. QED
    BY <1>6, <2>1 DEF NewSession, SessionRow
<1>9. SessionRow \subseteq SessionRow' /\ LinkRow' = LinkRow
  <2>1. 1 .. issued.sessions \subseteq 1 .. issued'.sessions
    BY <1>4
  <2>. QED
    BY <1>3, <1>4, <2>1 DEF SessionRow, LinkRow
<1>10. sessions' \subseteq SessionRow' /\ links' \subseteq LinkRow'
  <2>1. sessions \subseteq SessionRow /\ links \subseteq LinkRow
    BY DEF AccessIInv, AccessTypeOK, SessionRow, LinkRow
  <2>. HIDE DEF new, spent
  <2>. QED
    BY <1>3, <1>7, <1>8, <1>9, <2>1
<1>11. Bounded(new)
  <2>. HIDE DEF new, spent
  <2>1. new.link # 0
    BY <1>4, <1>6, <1>7
  <2>2. Latest(new) = l.born + LinkTtl
    BY <1>7, <2>1 DEF Latest
  <2>. QED
    BY <1>3, <1>5, <1>6, <1>7, <2>2, Deadlines DEF Bounded
<1>. HIDE DEF new, spent
<1>12. DeadlinesAreBounded'
  BY <1>3, <1>5, <1>7, <1>11 DEF AccessIInv, DeadlinesAreBounded, Bounded, Latest
<1>13. LinksAreSpent'
  <2>1. \A s \in sessions : s.link # l.id
    BY <1>3 DEF AccessIInv, LinksAreSpent
  <2>2. \A s, r \in sessions' : s.link = r.link /\ s.link # 0 => s = r
    BY <1>3, <1>7, <2>1 DEF AccessIInv, LinksAreSpent
  <2>3. \A k \in links \ {l} : k.id # l.id
    BY DEF AccessIInv, LinksAreSpent
  <2>4. \A s \in sessions' : \A k \in links' : s.link = k.id => k.used
    BY <1>3, <1>7, <2>1, <2>3 DEF AccessIInv, LinksAreSpent
  <2>5. \A k, m \in links' : k.id = m.id => k = m
    BY <1>3, <1>7, <2>3 DEF AccessIInv, LinksAreSpent
  <2>. QED
    BY <2>2, <2>4, <2>5 DEF LinksAreSpent
<1>14. Credentials'
  BY <1>12, <1>13 DEF Credentials
<1>. QED
  BY <1>2, <1>4, <1>10, <1>14, Together

\* What is dropped was over.
LEMMA SweepAccessKeeps == ASSUME AccessIInv, SweepAccess PROVE AccessIInv'
<1>1. /\ sessions' \subseteq sessions /\ links' \subseteq links
      /\ UNCHANGED <<clock, role, decided, roster, tokens, asked, issued, boots>>
  BY DEF SweepAccess
<1>2. People' /\ clock' \in 0 .. MaxClock
  BY <1>1 DEF AccessIInv, AccessTypeOK, People, OperatorsWordStands
<1>3. /\ issued' \in [sessions : 0 .. MaxSessions, links : 0 .. MaxLinks]
      /\ sessions' \subseteq SessionRow' /\ links' \subseteq LinkRow'
  BY <1>1 DEF AccessIInv, AccessTypeOK, SessionRow, LinkRow
<1>4. Credentials'
  BY <1>1 DEF AccessIInv, Credentials, DeadlinesAreBounded, Bounded, Latest, LinksAreSpent
<1>. QED
  BY <1>2, <1>3, <1>4, Together

-----------------------------------------------------------------------------
(* The theorems.                                                              *)

LEMMA AccessNextKeeps == ASSUME AccessIInv, [AccessNext]_accessVars PROVE AccessIInv'
<1>1. CASE UNCHANGED accessVars
  <2>1. People'
    BY <1>1 DEF accessVars, AccessIInv, AccessTypeOK, People, OperatorsWordStands
  <2>. QED
    BY <1>1, <2>1, CredentialsKeep, Together DEF accessVars
<1>2. CASE Tick \/ Boot \/ Authenticate \/ Revoke \/ OpenLink \/ SweepAccess
  BY <1>2, TickKeeps, BootKeeps, AuthenticateKeeps, RevokeKeeps, OpenLinkKeeps, SweepAccessKeeps
<1>3. ASSUME NEW p \in Phone,
             RemoveRole(p) \/ MintRosterToken(p) \/ DeleteRosterEntry(p)
      PROVE  AccessIInv'
  BY <1>3, RemoveRoleKeeps, RosterKeeps
<1>4. ASSUME NEW p \in Phone,
             WritePanel(p) \/ HandlePanel(p) \/ SendPanel(p) \/ IssueByHand(p)
      PROVE  AccessIInv'
  BY <1>4, WritePanelKeeps, HandlePanelKeeps, SendPanelKeeps, IssueByHandKeeps
<1>5. ASSUME NEW p \in Phone, NotifyOfLead(p) \/ LinkByHand(p)
      PROVE  AccessIInv'
  BY <1>5, MintLinkKeeps DEF NotifyOfLead, LinkByHand
<1>6. ASSUME NEW p \in Phone, NEW r \in Role, SetRole(p, r)
      PROVE  AccessIInv'
  BY <1>6, RoleKeeps DEF SetRole
<1>. QED
  BY <1>1, <1>2, <1>3, <1>4, <1>5, <1>6, FlipKeeps DEF AccessNext

\* What is known of roles, sessions and links holds for good.
THEOREM AccessInvariant == AccessSpec => []AccessIInv
<1>1. AccessIInv /\ [AccessNext]_accessVars => AccessIInv'
  BY AccessNextKeeps
<1>. QED
  BY <1>1, AccessInitEstablishes, PTL DEF AccessSpec

\* Roles, roster, sessions and links keep their types, within what was issued.
THEOREM AccessTypeCorrect == AccessSpec => []AccessTypeOK
<1>1. AccessIInv => AccessTypeOK
  BY DEF AccessIInv
<1>. QED
  BY <1>1, AccessInvariant, PTL

\* No restart and no OWNER_PHONE_NUMBERS undoes what the operator or a test phone set
\* (assignments.ts seedOwnerAssignments).
THEOREM WordStands == AccessSpec => []OperatorsWordStands
<1>1. AccessIInv => OperatorsWordStands
  BY DEF AccessIInv
<1>. QED
  BY <1>1, AccessInvariant, PTL

\* For any deadlines: a session that is live is within ClaimTtl + SessionTtl of when
\* it was issued, or of the last moment its link could be opened; and no two live
\* sessions came from one link (admin-sessions.ts, admin-deep-links.ts).
THEOREM ReachEnds == AccessSpec => []ReachIsBounded
<1>1. AccessIInv => ReachIsBounded
  <2>. SUFFICES ASSUME AccessIInv, NEW s \in sessions, Live(s)
                PROVE  /\ clock < Latest(s) + ClaimTtl + SessionTtl
                       /\ \A r \in sessions : Live(r) /\ r.link = s.link /\ s.link # 0 => r = s
    BY DEF ReachIsBounded, Latest
  <2>1. /\ s.expiresAt \in Nat /\ s.root \in Nat /\ clock \in Nat
    BY DEF AccessIInv, AccessTypeOK
  <2>2. Latest(s) \in Nat
    BY <2>1, Deadlines DEF Latest
  <2>3. clock < s.expiresAt /\ Bounded(s)
    BY <2>1 DEF AccessIInv, DeadlinesAreBounded, Live
  <2>4. clock < Latest(s) + ClaimTtl + SessionTtl
    BY <2>1, <2>2, <2>3, Deadlines DEF Bounded
  <2>5. \A r \in sessions : r.link = s.link /\ s.link # 0 => r = s
    BY DEF AccessIInv, LinksAreSpent
  <2>. QED
    BY <2>4, <2>5
<1>. QED
  BY <1>1, AccessInvariant, PTL

-----------------------------------------------------------------------------
(***************************************************************************)
(* What a purge that ends has forgotten, for any phones and conversations, *)
(* and any purges that died before it.  The argument follows a             *)
(* conversation nobody writes to: as long as it is on the purge's list it  *)
(* will be cleared; it leaves the list with nothing left of it; and what   *)
(* is not on the first list has words and no row, so that it will be on    *)
(* the second.                                                             *)
(***************************************************************************)

(* The inductive invariant.                                                   *)

Clean(c) == c \notin rows \cup words \cup trace \cup notes

\* The statements already run for the conversation at hand have had their effect.
HeadProgress(c) ==
  /\ purge.step \in {"trace", "notes", "row", "file"} => c \notin words
  /\ purge.step \in {"notes", "row", "file"} => c \notin trace
  /\ purge.step \in {"row", "file"} => c \notin notes
  /\ purge.step = "file" => c \notin rows

\* Where a conversation stands that this purge has to forget.
Foreseen(c) ==
  /\ purge.phase = "first" => c \in ToSet(purge.todo) \/ c \in words \ rows \/ Clean(c)
  /\ purge.phase = "second" => c \notin rows /\ (c \in ToSet(purge.todo) \/ Clean(c))
  /\ purge.phase = "done" => Clean(c)
  /\ purge.phase \in {"first", "second"} /\ purge.todo # <<>> /\ c = Head(purge.todo)
       => HeadProgress(c)

\* The second pass has three statements, and no pass stops between two of them
\* with its list empty.
StepsInPhase ==
  /\ purge.phase = "second" => purge.step \in {"words", "trace", "notes"}
  /\ purge.phase = "first" /\ purge.todo = <<>> => purge.step = "words"

\* What is due is a customer's, and stays one.
DueAreCustomers ==
  purge.phase \in {"first", "second"} =>
    \A c \in due : c.agent # "owner" /\ ~IsOwnerKey(c.phone, purge.spared)

ForgetIInv ==
  /\ ForgetTypeOK
  /\ StepsInPhase
  /\ DueAreCustomers
  /\ \A c \in due \ disturbed : Foreseen(c)

-----------------------------------------------------------------------------
(* Lists.                                                                     *)

\* A finite set put in some order has all its elements, and no other.
LEMMA ListOfSet ==
  ASSUME NEW S, IsFiniteSet(S)
  PROVE  SetToSeq(S) \in Seq(S) /\ ToSet(SetToSeq(S)) = S
<1>. DEFINE n == Cardinality(S)
            f == SetToSeq(S)
<1>1. n \in Nat /\ ExistsBijection(1 .. n, S)
  BY FS_CardinalityType
<1>2. \E g \in [1 .. n -> S] : IsInjective(g)
  BY <1>1 DEF ExistsBijection, Bijection, Injection
<1>3. f \in [1 .. n -> S] /\ IsInjective(f)
  BY <1>2 DEF SetToSeq
<1>4. f \in Injection(1 .. n, S)
  BY <1>3 DEF Injection
<1>5. Cardinality(1 .. n) = n
  BY <1>1, FS_Interval
<1>6. f \in Surjection(1 .. n, S)
  BY <1>4, <1>5, FS_Injection
<1>7. f \in Seq(S)
  BY <1>1, <1>3, SeqDef
<1>8. DOMAIN f = 1 .. n
  BY <1>3
<1>9. ToSet(f) = S
  BY <1>3, <1>6, <1>8 DEF ToSet, Surjection
<1>. QED
  BY <1>7, <1>9

\* What a list has is its head and what its tail has.
LEMMA HeadOrTail ==
  ASSUME NEW S, NEW s \in Seq(S), s # <<>>
  PROVE  /\ Head(s) \in ToSet(s)
         /\ \A x \in ToSet(s) : x = Head(s) \/ x \in ToSet(Tail(s))
<1>1. Len(s) \in Nat \ {0} /\ DOMAIN s = 1 .. Len(s) /\ Head(s) = s[1]
  BY EmptySeq, LenProperties
<1>2. /\ Tail(s) \in Seq(S) /\ Len(Tail(s)) = Len(s) - 1
      /\ \A i \in 1 .. Len(Tail(s)) : Tail(s)[i] = s[i + 1]
  BY HeadTailProperties
<1>3. DOMAIN Tail(s) = 1 .. Len(Tail(s))
  BY <1>2, LenProperties
<1>4. Head(s) \in ToSet(s)
  BY <1>1 DEF ToSet
<1>5. ASSUME NEW x \in ToSet(s), x # Head(s)
      PROVE  x \in ToSet(Tail(s))
  <2>1. PICK i \in 1 .. Len(s) : x = s[i]
    BY <1>1 DEF ToSet
  <2>2. i # 1
    BY <1>1, <1>5, <2>1
  <2>3. i - 1 \in 1 .. Len(Tail(s)) /\ (i - 1) + 1 = i
    BY <1>1, <1>2, <2>2
  <2>4. Tail(s)[i - 1] = x
    BY <1>2, <2>1, <2>3
  <2>. QED
    BY <1>3, <2>3, <2>4 DEF ToSet
<1>. QED
  BY <1>4, <1>5

LEMMA NothingOnEmptyList == ToSet(<<>>) = {}
  BY DEF ToSet

\* Any set of conversations can be put on a list.
LEMMA ListOfConversations ==
  ASSUME NEW cs \in SUBSET Conversation
  PROVE  SetToSeq(cs) \in Seq(Conversation) /\ ToSet(SetToSeq(cs)) = cs
<1>1. IsFiniteSet(cs)
  BY ForgetAssumption, FS_Subset DEF ForgetAssumption
<1>2. SetToSeq(cs) \in Seq(cs) /\ ToSet(SetToSeq(cs)) = cs
  BY <1>1, ListOfSet
<1>. QED
  BY <1>2, SeqMonotonic

-----------------------------------------------------------------------------
(* The invariant holds at first.                                              *)

LEMMA ForgetInitEstablishes == ForgetInit => ForgetIInv
<1>. SUFFICES ASSUME ForgetInit PROVE ForgetIInv
  OBVIOUS
<1>1. <<>> \in Seq(Conversation)
  BY EmptySeq
<1>2. ForgetTypeOK
  BY <1>1 DEF ForgetInit, ForgetTypeOK, NoPurge
<1>. QED
  BY <1>2 DEF ForgetInit, NoPurge, ForgetIInv, StepsInPhase, DueAreCustomers

-----------------------------------------------------------------------------
(* The server beside the purge.                                               *)

\* A step that leaves the purge where it is, and adds nothing to a conversation
\* without noticing it, keeps what the purge foresees.
LEMMA ServerKeeps ==
  ASSUME ForgetIInv, purge' = purge, due' = due, owners' = owners,
         disturbed \subseteq disturbed',
         \A c \in due \ disturbed' :
           /\ c \in words' <=> c \in words
           /\ c \in rows' => c \in rows
           /\ c \in trace' => c \in trace
           /\ c \in notes' => c \in notes
  PROVE  /\ StepsInPhase' /\ DueAreCustomers'
         /\ \A c \in due' \ disturbed' : Foreseen(c)'
<1>1. StepsInPhase' /\ DueAreCustomers'
  BY DEF ForgetIInv, StepsInPhase, DueAreCustomers, IsOwnerKey
<1>2. ASSUME NEW c \in due' \ disturbed'
      PROVE  Foreseen(c)'
  <2>1. c \in due \ disturbed /\ Foreseen(c)
    BY <1>2 DEF ForgetIInv
  <2>2. /\ c \in words' <=> c \in words
        /\ c \in rows' => c \in rows
        /\ c \in trace' => c \in trace
        /\ c \in notes' => c \in notes
    BY <1>2
  <2>3. Clean(c) => Clean(c)'
    BY <2>2 DEF Clean
  <2>4. HeadProgress(c) => HeadProgress(c)'
    BY <2>2 DEF HeadProgress
  <2>. QED
    BY <2>1, <2>2, <2>3, <2>4 DEF Foreseen
<1>. QED
  BY <1>1, <1>2

LEMMA TurnBeginsKeeps ==
  ASSUME ForgetIInv, NEW c \in Conversation, TurnBegins(c)
  PROVE  ForgetIInv'
<1>1. ForgetTypeOK'
  BY DEF ForgetIInv, ForgetTypeOK, TurnBegins, Touch
<1>. QED
  BY <1>1, ServerKeeps DEF ForgetIInv, TurnBegins, Touch

LEMMA ToolCalledKeeps ==
  ASSUME ForgetIInv, NEW c \in Conversation, ToolCalled(c)
  PROVE  ForgetIInv'
<1>1. ForgetTypeOK'
  BY DEF ForgetIInv, ForgetTypeOK, ToolCalled, Touch, server
<1>. QED
  BY <1>1, ServerKeeps DEF ForgetIInv, ToolCalled, Touch, server

LEMMA TurnEndsKeeps ==
  ASSUME ForgetIInv, NEW c \in Conversation, TurnEnds(c)
  PROVE  ForgetIInv'
<1>1. ForgetTypeOK'
  BY DEF ForgetIInv, ForgetTypeOK, TurnEnds, Touch
<1>. QED
  BY <1>1, ServerKeeps DEF ForgetIInv, TurnEnds, Touch

LEMMA PauseKeeps ==
  ASSUME ForgetIInv, NEW c \in Conversation, Pause(c)
  PROVE  ForgetIInv'
<1>1. ForgetTypeOK'
  BY DEF ForgetIInv, ForgetTypeOK, Pause, Touch, server
<1>. QED
  BY <1>1, ServerKeeps DEF ForgetIInv, Pause, Touch, server

LEMMA SessionDroppedKeeps ==
  ASSUME ForgetIInv, NEW c \in Conversation, SessionDropped(c)
  PROVE  ForgetIInv'
<1>1. ForgetTypeOK'
  BY DEF ForgetIInv, ForgetTypeOK, SessionDropped, server, history
<1>. QED
  BY <1>1, ServerKeeps DEF ForgetIInv, SessionDropped, server, history

LEMMA FileAgesKeeps ==
  ASSUME ForgetIInv, NEW c \in Conversation, FileAges(c)
  PROVE  ForgetIInv'
<1>1. ForgetTypeOK'
  BY DEF ForgetIInv, ForgetTypeOK, FileAges, server, history
<1>. QED
  BY <1>1, ServerKeeps DEF ForgetIInv, FileAges, server, history

LEMMA SweepKeeps ==
  ASSUME ForgetIInv, SweepTranscripts
  PROVE  ForgetIInv'
<1>1. ForgetTypeOK'
  BY DEF ForgetIInv, ForgetTypeOK, SweepTranscripts, server, history
<1>. QED
  BY <1>1, ServerKeeps DEF ForgetIInv, SweepTranscripts, server, history

\* A phone whose role changes is no longer due.
LEMMA RoleChangesKeeps ==
  ASSUME ForgetIInv, NEW p \in Person, RoleChanges(p)
  PROVE  ForgetIInv'
<1>1. /\ owners' \subseteq owners \cup {p}
      /\ due' = {c \in due : c.phone # p}
      /\ UNCHANGED <<memory, inTurn, purge, disturbed>>
  BY DEF RoleChanges
<1>2. ForgetTypeOK'
  BY <1>1 DEF ForgetIInv, ForgetTypeOK, memory
<1>3. StepsInPhase' /\ DueAreCustomers'
  BY <1>1 DEF ForgetIInv, StepsInPhase, DueAreCustomers, IsOwnerKey
<1>4. \A c \in due' \ disturbed' : Foreseen(c)'
  BY <1>1 DEF ForgetIInv, Foreseen, HeadProgress, Clean, memory
<1>. QED
  BY <1>2, <1>3, <1>4 DEF ForgetIInv

-----------------------------------------------------------------------------
(* The purge.                                                                 *)

\* It begins with a list of the rows; what it has to forget besides has words.
LEMMA PurgeStartsKeeps ==
  ASSUME ForgetIInv, PurgeStarts
  PROVE  ForgetIInv'
<1>1. PICK spared \in SUBSET Person :
        /\ purge' = [phase |-> "first", todo |-> SetToSeq(Customers(rows, spared)),
                     step |-> "words", spared |-> spared]
        /\ due' = Customers(rows \cup words, spared)
  BY DEF PurgeStarts
<1>2. disturbed' = inTurn /\ UNCHANGED <<memory, server>>
  BY DEF PurgeStarts
<1>3. /\ rows \subseteq Conversation /\ words \subseteq Conversation
      /\ inTurn \subseteq Conversation
  BY DEF ForgetIInv, ForgetTypeOK
<1>4. /\ Customers(rows, spared) \subseteq Conversation
      /\ Customers(rows \cup words, spared) \subseteq Conversation
  BY <1>3 DEF Customers
<1>5. /\ purge'.todo \in Seq(Conversation)
      /\ ToSet(purge'.todo) = Customers(rows, spared)
  BY <1>1, <1>4, ListOfConversations
<1>6. ForgetTypeOK'
  BY <1>1, <1>2, <1>3, <1>4, <1>5 DEF ForgetIInv, ForgetTypeOK, memory, server
<1>7. StepsInPhase' /\ DueAreCustomers'
  BY <1>1, <1>2 DEF StepsInPhase, DueAreCustomers, Customers, IsOwnerKey, server
<1>8. ASSUME NEW c \in due' \ disturbed'
      PROVE  Foreseen(c)'
  <2>1. c \in Customers(rows, spared) \/ c \in words \ rows
    BY <1>1, <1>8 DEF Customers
  <2>2. c \in ToSet(purge'.todo) \/ c \in words' \ rows'
    BY <1>2, <1>5, <2>1 DEF memory
  <2>. QED
    BY <1>1, <2>2 DEF Foreseen, HeadProgress
<1>. QED
  BY <1>6, <1>7, <1>8 DEF ForgetIInv

\* What one statement of the first pass leaves of a conversation: no more than
\* it had, and of one that is not at hand all of it.
LEMMA FirstPassEffect ==
  ASSUME ForgetIInv, FirstPass, NEW c
  PROVE  /\ c # Head(purge.todo) => (c \in words' <=> c \in words)
         /\ c \in words' => c \in words
         /\ c \in rows' => c \in rows
         /\ c \in trace' => c \in trace
         /\ c \in notes' => c \in notes
  BY DEF FirstPass

LEMMA FirstPassTypes ==
  ASSUME ForgetIInv, FirstPass
  PROVE  /\ ForgetTypeOK'
         /\ purge'.phase = "first" /\ purge'.spared = purge.spared
         /\ purge.step = "file" => purge'.step = "words" /\ purge'.todo = Tail(purge.todo)
         /\ purge.step # "file" =>
              purge'.step = FollowedBy[purge.step] /\ purge'.todo = purge.todo
<1>1. /\ purge \in [phase : {"none", "first", "second", "done"}, todo : Seq(Conversation),
                    step : {"words", "trace", "notes", "row", "file"},
                    spared : SUBSET Person]
      /\ purge.phase = "first" /\ purge.todo # <<>>
  BY DEF ForgetIInv, ForgetTypeOK, FirstPass
<1>2. Tail(purge.todo) \in Seq(Conversation)
  BY <1>1, HeadTailProperties
<1>3. purge.step # "file" => FollowedBy[purge.step] \in {"trace", "notes", "row", "file"}
  BY <1>1 DEF FollowedBy
<1>4. purge' = IF purge.step = "file"
               THEN [purge EXCEPT !.step = "words", !.todo = Tail(purge.todo)]
               ELSE [purge EXCEPT !.step = FollowedBy[purge.step]]
  BY DEF FirstPass
<1>5. /\ purge' \in [phase : {"none", "first", "second", "done"}, todo : Seq(Conversation),
                     step : {"words", "trace", "notes", "row", "file"},
                     spared : SUBSET Person]
      /\ purge'.phase = "first" /\ purge'.spared = purge.spared
      /\ purge.step = "file" => purge'.step = "words" /\ purge'.todo = Tail(purge.todo)
      /\ purge.step # "file" =>
           purge'.step = FollowedBy[purge.step] /\ purge'.todo = purge.todo
  BY <1>1, <1>2, <1>3, <1>4
<1>6. /\ rows' \subseteq rows /\ words' \subseteq words /\ trace' \subseteq trace
      /\ notes' \subseteq notes /\ files' \subseteq files /\ oldFiles' \subseteq files'
      /\ UNCHANGED <<server, history>>
  BY DEF FirstPass
<1>7. ForgetTypeOK'
  BY <1>5, <1>6 DEF ForgetIInv, ForgetTypeOK, server, history
<1>. QED
  BY <1>5, <1>7

\* The statements of the first pass follow one another for the conversation at
\* hand, and it leaves the list with nothing left of it.
LEMMA FirstPassKeeps ==
  ASSUME ForgetIInv, FirstPass
  PROVE  ForgetIInv'
<1>. DEFINE head == Head(purge.todo)
<1>1. /\ purge.phase = "first" /\ purge.todo # <<>> /\ purge.todo \in Seq(Conversation)
      /\ purge.step \in {"words", "trace", "notes", "row", "file"}
      /\ UNCHANGED <<server, history>>
  BY DEF ForgetIInv, ForgetTypeOK, FirstPass
<1>2. /\ purge'.phase = "first" /\ purge'.spared = purge.spared
      /\ purge.step = "file" => purge'.step = "words" /\ purge'.todo = Tail(purge.todo)
      /\ purge.step # "file" =>
           purge'.step = FollowedBy[purge.step] /\ purge'.todo = purge.todo
  BY FirstPassTypes
<1>3. StepsInPhase' /\ DueAreCustomers'
  BY <1>1, <1>2 DEF ForgetIInv, StepsInPhase, DueAreCustomers, IsOwnerKey, server, history
<1>4. ASSUME NEW c \in due' \ disturbed'
      PROVE  Foreseen(c)'
  <2>1. c \in due \ disturbed /\ Foreseen(c)
    BY <1>1, <1>4 DEF ForgetIInv, history
  <2>2. /\ c # head => (c \in words' <=> c \in words)
        /\ c \in words' => c \in words
        /\ c \in rows' => c \in rows
        /\ c \in trace' => c \in trace
        /\ c \in notes' => c \in notes
    BY FirstPassEffect
  <2>3. CASE purge.step = "file"
    <3>1. /\ purge'.step = "words" /\ purge'.todo = Tail(purge.todo)
          /\ UNCHANGED <<rows, words, trace, notes>>
      BY <1>2, <2>3 DEF FirstPass
    <3>2. c = head => Clean(c)'
      BY <1>1, <2>1, <2>3, <3>1 DEF Foreseen, HeadProgress, Clean
    <3>3. c # head /\ c \in ToSet(purge.todo) => c \in ToSet(purge'.todo)
      BY <1>1, <3>1, HeadOrTail
    <3>4. c \in ToSet(purge'.todo) \/ c \in words' \ rows' \/ Clean(c)'
      BY <1>1, <2>1, <3>1, <3>2, <3>3 DEF Foreseen, Clean
    <3>5. HeadProgress(c)'
      BY <3>1 DEF HeadProgress
    <3>. QED
      BY <1>2, <3>4, <3>5 DEF Foreseen
  <2>4. CASE purge.step # "file"
    <3>1. purge'.step = FollowedBy[purge.step] /\ purge'.todo = purge.todo
      BY <1>2, <2>4
    <3>2. c = head => c \in ToSet(purge'.todo)
      BY <1>1, <3>1, HeadOrTail
    <3>3. Clean(c) => Clean(c)'
      BY <2>2 DEF Clean
    <3>4. c \in ToSet(purge'.todo) \/ c \in words' \ rows' \/ Clean(c)'
      BY <1>1, <2>1, <2>2, <3>1, <3>2, <3>3 DEF Foreseen
    <3>5. c = head => HeadProgress(c)'
      <4>. SUFFICES ASSUME c = head PROVE HeadProgress(c)'
        OBVIOUS
      <4>1. HeadProgress(c)
        BY <1>1, <2>1 DEF Foreseen
      <4>2. CASE purge.step = "words"
        BY <1>1, <3>1, <4>2 DEF FirstPass, FollowedBy, HeadProgress
      <4>3. CASE purge.step = "trace"
        BY <1>1, <2>2, <3>1, <4>1, <4>3 DEF FirstPass, FollowedBy, HeadProgress
      <4>4. CASE purge.step = "notes"
        BY <1>1, <2>2, <3>1, <4>1, <4>4 DEF FirstPass, FollowedBy, HeadProgress
      <4>5. CASE purge.step = "row"
        BY <1>1, <2>2, <3>1, <4>1, <4>5 DEF FirstPass, FollowedBy, HeadProgress
      <4>. QED
        BY <1>1, <2>4, <4>2, <4>3, <4>4, <4>5
    <3>. QED
      BY <1>2, <3>1, <3>4, <3>5 DEF Foreseen
  <2>. QED
    BY <2>3, <2>4
<1>. QED
  BY <1>3, <1>4, FirstPassTypes DEF ForgetIInv

\* What the first list did not have has words, so the second list has it.
LEMMA SecondPassStartsKeeps ==
  ASSUME ForgetIInv, SecondPassStarts
  PROVE  ForgetIInv'
<1>1. /\ purge.phase = "first" /\ purge.todo = <<>> /\ purge.step = "words"
      /\ UNCHANGED <<memory, server, history>>
  BY DEF ForgetIInv, StepsInPhase, SecondPassStarts
<1>2. words \subseteq Conversation
  BY DEF ForgetIInv, ForgetTypeOK
<1>3. SetToSeq(words) \in Seq(Conversation) /\ ToSet(SetToSeq(words)) = words
  BY <1>2, ListOfConversations
<1>4. /\ purge'.phase = "second" /\ purge'.todo = SetToSeq(words)
      /\ purge'.step = "words" /\ purge'.spared = purge.spared
  BY <1>1 DEF ForgetIInv, ForgetTypeOK, SecondPassStarts
<1>5. ForgetTypeOK'
  BY <1>1, <1>3 DEF ForgetIInv, ForgetTypeOK, SecondPassStarts, memory, server, history
<1>6. StepsInPhase' /\ DueAreCustomers'
  BY <1>1, <1>4 DEF ForgetIInv, StepsInPhase, DueAreCustomers, IsOwnerKey, server, history
<1>7. ASSUME NEW c \in due' \ disturbed'
      PROVE  Foreseen(c)'
  <2>1. c \in words \ rows \/ Clean(c)
    BY <1>1, <1>7, NothingOnEmptyList DEF ForgetIInv, Foreseen, history
  <2>. QED
    BY <1>1, <1>3, <1>4, <2>1 DEF Foreseen, HeadProgress, Clean, memory
<1>. QED
  BY <1>5, <1>6, <1>7 DEF ForgetIInv

LEMMA SecondPassTypes ==
  ASSUME ForgetIInv, SecondPass
  PROVE  /\ ForgetTypeOK'
         /\ purge'.phase = "second" /\ purge'.spared = purge.spared
         /\ purge'.step \in {"words", "trace", "notes"}
<1>1. /\ purge \in [phase : {"none", "first", "second", "done"}, todo : Seq(Conversation),
                    step : {"words", "trace", "notes", "row", "file"},
                    spared : SUBSET Person]
      /\ purge.phase = "second" /\ purge.todo # <<>>
      /\ purge.step \in {"words", "trace", "notes"}
  BY DEF ForgetIInv, ForgetTypeOK, StepsInPhase, SecondPass
<1>2. Tail(purge.todo) \in Seq(Conversation)
  BY <1>1, HeadTailProperties
<1>3. purge.step # "notes" => FollowedBy[purge.step] \in {"trace", "notes"}
  BY <1>1 DEF FollowedBy
<1>4. \/ purge' = [purge EXCEPT !.todo = Tail(purge.todo)]
      \/ purge' = [purge EXCEPT !.step = "words", !.todo = Tail(purge.todo)]
      \/ purge.step # "notes" /\ purge' = [purge EXCEPT !.step = FollowedBy[purge.step]]
  BY DEF SecondPass
<1>5. /\ purge' \in [phase : {"none", "first", "second", "done"}, todo : Seq(Conversation),
                     step : {"words", "trace", "notes", "row", "file"},
                     spared : SUBSET Person]
      /\ purge'.phase = "second" /\ purge'.spared = purge.spared
      /\ purge'.step \in {"words", "trace", "notes"}
  BY <1>1, <1>2, <1>3, <1>4
<1>6. /\ words' \subseteq words /\ trace' \subseteq trace /\ notes' \subseteq notes
      /\ UNCHANGED <<rows, files, oldFiles, server, history>>
  BY DEF SecondPass
<1>7. ForgetTypeOK'
  BY <1>5, <1>6 DEF ForgetIInv, ForgetTypeOK, server, history
<1>. QED
  BY <1>5, <1>7

\* A conversation that is due is never spared, and leaves the second list with
\* nothing left of it.
LEMMA SecondPassKeeps ==
  ASSUME ForgetIInv, SecondPass
  PROVE  ForgetIInv'
<1>. DEFINE head == Head(purge.todo)
<1>1. /\ purge.phase = "second" /\ purge.todo # <<>> /\ purge.todo \in Seq(Conversation)
      /\ purge.step \in {"words", "trace", "notes"}
      /\ UNCHANGED <<rows, server, history>>
  BY DEF ForgetIInv, ForgetTypeOK, StepsInPhase, SecondPass
<1>2. /\ purge'.phase = "second" /\ purge'.spared = purge.spared
      /\ purge'.step \in {"words", "trace", "notes"}
  BY SecondPassTypes
<1>3. StepsInPhase' /\ DueAreCustomers'
  BY <1>1, <1>2 DEF ForgetIInv, StepsInPhase, DueAreCustomers, IsOwnerKey, server, history
<1>4. ASSUME NEW c \in due' \ disturbed'
      PROVE  Foreseen(c)'
  <2>1. c \in due \ disturbed /\ Foreseen(c) /\ c \notin rows /\ c \notin rows'
    BY <1>1, <1>4 DEF ForgetIInv, Foreseen, history
  <2>2. /\ c \in words' => c \in words
        /\ c \in trace' => c \in trace
        /\ c \in notes' => c \in notes
    BY DEF SecondPass
  <2>3. Clean(c) => Clean(c)'
    BY <2>1, <2>2 DEF Clean
  <2>4. c # head /\ c \in ToSet(purge.todo) => c \in ToSet(Tail(purge.todo))
    BY <1>1, HeadOrTail
  <2>5. head \in ToSet(purge.todo)
    BY <1>1, HeadOrTail
  <2>6. CASE c = head
    <3>1. Customers({c}, purge.spared) # {}
      BY <1>1, <2>1 DEF ForgetIInv, DueAreCustomers, Customers
    <3>2. /\ words' = IF purge.step = "words" THEN words \ {c} ELSE words
          /\ trace' = IF purge.step = "trace" THEN trace \ {c} ELSE trace
          /\ notes' = IF purge.step = "notes" THEN notes \ {c} ELSE notes
          /\ purge' = IF purge.step = "notes"
                      THEN [purge EXCEPT !.step = "words", !.todo = Tail(purge.todo)]
                      ELSE [purge EXCEPT !.step = FollowedBy[purge.step]]
      BY <2>6, <3>1 DEF SecondPass
    <3>3. HeadProgress(c)
      BY <1>1, <2>1, <2>6 DEF Foreseen
    <3>4. /\ purge.step = "words" => purge'.step = "trace" /\ purge'.todo = purge.todo
          /\ purge.step = "trace" => purge'.step = "notes" /\ purge'.todo = purge.todo
          /\ purge.step = "notes" => purge'.step = "words"
      BY <1>1, <3>2 DEF ForgetIInv, ForgetTypeOK, FollowedBy
    <3>5. HeadProgress(c)'
      BY <1>1, <3>2, <3>3, <3>4 DEF HeadProgress
    <3>6. c \in ToSet(purge'.todo) \/ Clean(c)'
      BY <1>1, <2>1, <2>5, <2>6, <3>2, <3>3, <3>4 DEF HeadProgress, Clean
    <3>. QED
      BY <1>2, <2>1, <3>5, <3>6 DEF Foreseen
  <2>7. CASE c # head
    <3>1. /\ purge'.todo \in {purge.todo, Tail(purge.todo)}
          /\ purge'.todo = Tail(purge.todo) /\ purge'.todo # purge.todo
               => purge'.step = "words"
      BY <1>1 DEF ForgetIInv, ForgetTypeOK, SecondPass
    <3>2. c \in ToSet(purge'.todo) \/ Clean(c)'
      BY <1>1, <2>1, <2>3, <2>4, <2>7, <3>1 DEF Foreseen
    <3>3. c = Head(purge'.todo) => HeadProgress(c)'
      BY <2>7, <3>1 DEF HeadProgress
    <3>. QED
      BY <1>2, <2>1, <3>2, <3>3 DEF Foreseen
  <2>. QED
    BY <2>6, <2>7
<1>. QED
  BY <1>3, <1>4, SecondPassTypes DEF ForgetIInv

LEMMA PurgeEndsKeeps ==
  ASSUME ForgetIInv, PurgeEnds
  PROVE  ForgetIInv'
<1>1. /\ purge.phase = "second" /\ purge.todo = <<>>
      /\ purge' = [phase |-> "done", todo |-> <<>>, step |-> "words", spared |-> {}]
      /\ files' = files \ Orphans /\ oldFiles' = oldFiles \ Orphans
      /\ UNCHANGED <<rows, words, trace, notes, server, history>>
  BY DEF PurgeEnds, NoPurge
<1>2. ForgetTypeOK'
  BY <1>1, EmptySeq DEF ForgetIInv, ForgetTypeOK, server, history
<1>3. StepsInPhase' /\ DueAreCustomers'
  BY <1>1 DEF StepsInPhase, DueAreCustomers
<1>4. \A c \in due' \ disturbed' : Foreseen(c)'
  BY <1>1, NothingOnEmptyList DEF ForgetIInv, Foreseen, Clean, history
<1>. QED
  BY <1>2, <1>3, <1>4 DEF ForgetIInv

LEMMA PurgeDiesKeeps ==
  ASSUME ForgetIInv, PurgeDies
  PROVE  ForgetIInv'
<1>1. /\ purge' = [phase |-> "none", todo |-> <<>>, step |-> "words", spared |-> {}]
      /\ UNCHANGED <<memory, server, history>>
  BY DEF PurgeDies, NoPurge
<1>2. ForgetTypeOK'
  BY <1>1, EmptySeq DEF ForgetIInv, ForgetTypeOK, memory, server, history
<1>. QED
  BY <1>1, <1>2 DEF ForgetIInv, StepsInPhase, DueAreCustomers, Foreseen

-----------------------------------------------------------------------------
(* The theorems.                                                              *)

LEMMA ForgetNextKeeps ==
  ASSUME ForgetIInv, [ForgetNext]_forgetVars
  PROVE  ForgetIInv'
<1>1. CASE \E c \in Conversation :
             \/ TurnBegins(c) \/ ToolCalled(c) \/ TurnEnds(c) \/ Pause(c)
             \/ SessionDropped(c) \/ FileAges(c)
  BY <1>1, TurnBeginsKeeps, ToolCalledKeeps, TurnEndsKeeps, PauseKeeps,
     SessionDroppedKeeps, FileAgesKeeps
<1>2. CASE \E p \in Person : RoleChanges(p)
  BY <1>2, RoleChangesKeeps
<1>3. CASE SweepTranscripts
  BY <1>3, SweepKeeps
<1>4. CASE PurgeStarts \/ FirstPass \/ SecondPassStarts \/ SecondPass \/ PurgeEnds \/ PurgeDies
  BY <1>4, PurgeStartsKeeps, FirstPassKeeps, SecondPassStartsKeeps, SecondPassKeeps,
     PurgeEndsKeeps, PurgeDiesKeeps
<1>5. CASE UNCHANGED forgetVars
  <2>1. UNCHANGED <<memory, server, purge, history>>
    BY <1>5 DEF forgetVars
  <2>2. ForgetTypeOK'
    BY <2>1 DEF ForgetIInv, ForgetTypeOK, memory, server, history
  <2>. QED
    BY <2>1, <2>2, ServerKeeps DEF ForgetIInv, memory, server, history
<1>. QED
  BY <1>1, <1>2, <1>3, <1>4, <1>5 DEF ForgetNext

\* The invariant the other theorems come from, for any phones and conversations.
THEOREM ForgetInvariant == ForgetSpec => []ForgetIInv
<1>. QED
  BY ForgetInitEstablishes, ForgetNextKeeps, PTL DEF ForgetSpec

\* Every table and the purge's place in its lists keep their types.
THEOREM ForgetTypeCorrect == ForgetSpec => []ForgetTypeOK
<1>1. ForgetIInv => ForgetTypeOK
  BY DEF ForgetIInv
<1>. QED
  BY <1>1, ForgetInvariant, PTL

\* A purge that ends has forgotten what it could see when it began, wherever
\* the purges before it died and whatever the server did meanwhile.
THEOREM Forgotten == ForgetSpec => []ForgottenWhole
<1>1. ForgetIInv => ForgottenWhole
  BY DEF ForgetIInv, Foreseen, Clean, ForgottenWhole
<1>. QED
  BY <1>1, ForgetInvariant, PTL

-----------------------------------------------------------------------------
(* Nothing is lost by an upgrade, for any people, rows and number of          *)
(* processes.                                                                 *)

(* The inductive invariant.                                                   *)

\* What an opener knows of the variable.
VariableIsSeen ==
  \A o \in Process :
    /\ opener[o].owners \in {Owners, {}}
    /\ opener[o].kind = "server" /\ opener[o].owners # Owners => careless
    /\ opener[o].kind = "none" => opener[o].at = 0

\* Past the backfill a process finds no row to fill in: who writes one is done by then.
FilledInAhead == (\E o \in Process : opener[o].at > 3) => \A r \in InboxRow : inboxRows[r] # "bare"

\* The older build's table holds one session for each person, and it alone wrote them.
LegacyTable ==
  shape = "phone" =>
    /\ resumed = {} /\ ~dropped
    /\ \A s \in sessionRows : s.agent = "unkeyed" /\ s.at = legacy[s.phone]

\* Only a process that is through with the table serves.
RebuiltAhead == \A o \in Process : opener[o].at > 4 => shape = "agent"

\* The session of a person this build has not answered is the older build's, if
\* those were not dropped.
LegacySessions ==
  /\ \A s, t \in sessionRows : s.phone = t.phone /\ s.phone \notin resumed => s = t
  /\ \A s \in sessionRows : s.phone \notin resumed => s.at = legacy[s.phone]
  /\ ~dropped => \A p \in Contact \ resumed : legacy[p] # 0 => \E s \in sessionRows : s.phone = p
  /\ dropped => \A s \in sessionRows : s.phone \in resumed

UpgradeIInv ==
  /\ UpgradeTypeOK
  /\ VariableIsSeen
  /\ FilledInAhead
  /\ LegacyTable
  /\ RebuiltAhead
  /\ LegacySessions
  /\ FiledWithTheirAgent

-----------------------------------------------------------------------------
(* Where each step is in the program.                                         *)

LEMMA ProgramIs ==
  /\ Len(Program) = 4 /\ DOMAIN Program = 1 .. 4
  /\ Program[1] = "conversation_key" /\ Program[2] = "principal_id"
  /\ Program[3] = "backfill" /\ Program[4] = "rebuild"
  BY DEF Program

\* A column is added at one of the first two steps.
LEMMA ColumnsAreFirst ==
  ASSUME NEW o \in Process, NEW c \in Column, At(o, c)
  PROVE  opener[o].at \in 1 .. 2
  BY ProgramIs DEF At, Column

LEMMA BackfillIsThird ==
  ASSUME NEW o \in Process, At(o, "backfill") PROVE opener[o].at = 3
  BY ProgramIs DEF At

LEMMA RebuildIsFourth ==
  ASSUME NEW o \in Process, At(o, "rebuild") PROVE opener[o].at = 4
  BY ProgramIs DEF At

-----------------------------------------------------------------------------
(* What a step does to one process.                                           *)

Openers == [Process -> [kind : {"none", "server", "command", "tool"}, owners : SUBSET Owners,
                        at : 0 .. 5, missing : BOOLEAN]]

LEMMA OpenersAreTyped ==
  [Process -> [kind : {"none", "server", "command", "tool"}, owners : SUBSET Owners,
               at : 0 .. Len(Program) + 1, missing : BOOLEAN]] = Openers
<1>1. Len(Program) + 1 = 5
  BY ProgramIs
<1>. QED
  BY <1>1 DEF Openers

\* The next statement, from any of the four.
LEMMA OnwardKeeps ==
  ASSUME UpgradeIInv, NEW o \in Process, opener[o].at \in 1 .. 4, Onward(o), UNCHANGED careless
  PROVE  /\ opener' \in Openers
         /\ VariableIsSeen'
         /\ opener'[o].at = opener[o].at + 1
         /\ \A q \in Process \ {o} : opener'[q] = opener[q]
<1>1. opener \in Openers
  BY OpenersAreTyped DEF UpgradeIInv, UpgradeTypeOK
<1>2. opener' = [opener EXCEPT ![o] = [opener[o] EXCEPT !.at = opener[o].at + 1, !.missing = FALSE]]
  BY <1>1 DEF Onward, Openers
<1>3. opener[o].at + 1 \in 0 .. 5
  OBVIOUS
<1>4. opener' \in Openers
  BY <1>1, <1>2, <1>3 DEF Openers
<1>5. /\ opener'[o].at = opener[o].at + 1
      /\ opener'[o].owners = opener[o].owners /\ opener'[o].kind = opener[o].kind
      /\ \A q \in Process \ {o} : opener'[q] = opener[q]
  BY <1>1, <1>2 DEF Openers
<1>6. VariableIsSeen'
  BY <1>5 DEF UpgradeIInv, VariableIsSeen
<1>. QED
  BY <1>4, <1>5, <1>6

\* A process that is gone.
LEMMA FailsKeeps ==
  ASSUME UpgradeIInv, NEW o \in Process, Fails(o), UNCHANGED careless
  PROVE  /\ opener' \in Openers
         /\ VariableIsSeen'
         /\ opener'[o].at = 0
         /\ \A q \in Process \ {o} : opener'[q] = opener[q]
<1>1. opener \in Openers
  BY OpenersAreTyped DEF UpgradeIInv, UpgradeTypeOK
<1>2. Down \in [kind : {"none", "server", "command", "tool"}, owners : SUBSET Owners,
                at : 0 .. 5, missing : BOOLEAN]
  BY DEF Down
<1>3. opener' = [opener EXCEPT ![o] = Down]
  BY DEF Fails
<1>4. opener' \in Openers
  BY <1>1, <1>2, <1>3 DEF Openers
<1>5. opener'[o] = Down /\ \A q \in Process \ {o} : opener'[q] = opener[q]
  BY <1>1, <1>3 DEF Openers
<1>6. VariableIsSeen'
  BY <1>5 DEF UpgradeIInv, VariableIsSeen, Down
<1>. QED
  BY <1>4, <1>5, <1>6 DEF Down

\* What table_info told it.
LEMMA MissingKeeps ==
  ASSUME UpgradeIInv, NEW o \in Process, opener' = [opener EXCEPT ![o].missing = TRUE],
         UNCHANGED careless
  PROVE  /\ opener' \in Openers
         /\ VariableIsSeen'
         /\ \A q \in Process : opener'[q].at = opener[q].at
<1>1. opener \in Openers
  BY OpenersAreTyped DEF UpgradeIInv, UpgradeTypeOK
<1>2. opener' = [opener EXCEPT ![o] = [opener[o] EXCEPT !.missing = TRUE]]
  BY <1>1 DEF Openers
<1>3. opener' \in Openers
  BY <1>1, <1>2 DEF Openers
<1>4. \A q \in Process : /\ opener'[q].at = opener[q].at
                         /\ opener'[q].owners = opener[q].owners
                         /\ opener'[q].kind = opener[q].kind
  BY <1>1, <1>2 DEF Openers
<1>5. VariableIsSeen'
  BY <1>4 DEF UpgradeIInv, VariableIsSeen
<1>. QED
  BY <1>3, <1>4, <1>5

\* A process that is not past the backfill, or where it was, is ahead of nothing.
LEMMA AheadKeeps ==
  ASSUME UpgradeIInv, NEW o \in Process, opener'[o].at \in 0 .. 3,
         \A q \in Process \ {o} : opener'[q] = opener[q], UNCHANGED <<inboxRows, shape>>
  PROVE  FilledInAhead' /\ RebuiltAhead'
<1>1. \A q \in Process : opener'[q].at > 3 => opener[q].at > 3
  OBVIOUS
<1>2. \A q \in Process : opener'[q].at > 4 => opener[q].at > 4
  OBVIOUS
<1>. QED
  BY <1>1, <1>2 DEF UpgradeIInv, FilledInAhead, RebuiltAhead

\* What is said of the sessions holds while nothing they depend on changes.
LEMMA SessionsKeep ==
  ASSUME UpgradeIInv, UNCHANGED <<shape, sessionRows, legacy, resumed, dropped>>,
         careless => careless'
  PROVE  LegacyTable' /\ LegacySessions' /\ FiledWithTheirAgent'
  BY DEF UpgradeIInv, LegacyTable, LegacySessions, FiledWithTheirAgent

-----------------------------------------------------------------------------
(* The invariant holds at first, and each action keeps it.                    *)

LEMMA UpgradeInitEstablishes == ASSUME UpgradeInit PROVE UpgradeIInv
<1>1. UpgradeTypeOK
  <2>1. opener \in Openers
    BY DEF UpgradeInit, Down, Openers
  <2>2. 0 \in 0 .. MaxOpens /\ 0 \in 0 .. MaxStamp
    BY UpgradeAssumption DEF UpgradeAssumption
  <2>. QED
    BY <2>1, <2>2, OpenersAreTyped DEF UpgradeInit, UpgradeTypeOK
<1>2. VariableIsSeen /\ FilledInAhead /\ RebuiltAhead
  BY DEF UpgradeInit, VariableIsSeen, FilledInAhead, RebuiltAhead, Down
<1>3. LegacyTable /\ LegacySessions /\ FiledWithTheirAgent
  BY DEF UpgradeInit, LegacyTable, LegacySessions, FiledWithTheirAgent
<1>. QED
  BY <1>1, <1>2, <1>3 DEF UpgradeIInv

\* The older build writes where no process of this one is at work.
LEMMA OldRowKeeps == ASSUME UpgradeIInv, NEW r \in InboxRow, OldRow(r) PROVE UpgradeIInv'
<1>. USE DEF OldRow
<1>1. UpgradeTypeOK' /\ VariableIsSeen' /\ RebuiltAhead'
  BY DEF UpgradeIInv, UpgradeTypeOK, VariableIsSeen, RebuiltAhead
<1>2. FilledInAhead'
  BY DEF Alone, Down, FilledInAhead
<1>3. LegacyTable' /\ LegacySessions' /\ FiledWithTheirAgent'
  BY SessionsKeep
<1>. QED
  BY <1>1, <1>2, <1>3 DEF UpgradeIInv

\* It has one session for each person, and this build has answered nobody.
LEMMA OldTurnKeeps ==
  ASSUME UpgradeIInv, NEW p \in Contact, OldTurn(p) PROVE UpgradeIInv'
<1>. DEFINE new == [agent |-> "unkeyed", phone |-> p, at |-> stamp']
<1>1. /\ stamp' \in 1 .. MaxStamp
      /\ sessionRows' = {s \in sessionRows : s.phone # p} \cup {new}
      /\ legacy' = [legacy EXCEPT ![p] = stamp']
      /\ shape = "phone" /\ resumed = {}
      /\ UNCHANGED <<columns, inboxRows, shape, opener, opens, resumed, careless, dropped>>
      /\ ~dropped
  BY UpgradeAssumption DEF UpgradeAssumption, UpgradeIInv, UpgradeTypeOK, OldTurn, LegacyTable
<1>2. UpgradeTypeOK'
  BY <1>1 DEF UpgradeIInv, UpgradeTypeOK
<1>3. VariableIsSeen' /\ FilledInAhead' /\ RebuiltAhead'
  BY <1>1 DEF UpgradeIInv, VariableIsSeen, FilledInAhead, RebuiltAhead
<1>4. \A s \in sessionRows : s.phone \in Contact
  BY DEF UpgradeIInv, UpgradeTypeOK
<1>5. LegacyTable'
  BY <1>1, <1>4 DEF UpgradeIInv, UpgradeTypeOK, LegacyTable
<1>6. LegacySessions'
  <2>1. \A s \in sessionRows' : s = new \/ (s \in sessionRows /\ s.phone # p)
    BY <1>1
  <2>2. \A s \in sessionRows : s.phone # p => s \in sessionRows'
    BY <1>1
  <2>3. new \in sessionRows' /\ new.phone = p /\ new.at = legacy'[p]
    BY <1>1 DEF UpgradeIInv, UpgradeTypeOK
  <2>4. \A q \in Contact \ {p} : legacy'[q] = legacy[q]
    BY <1>1 DEF UpgradeIInv, UpgradeTypeOK
  <2>5. \A s, t \in sessionRows' : s.phone = t.phone => s = t
    BY <1>1, <2>1, <2>3 DEF UpgradeIInv, LegacySessions
  <2>6. \A s \in sessionRows' : s.at = legacy'[s.phone]
    BY <1>1, <1>4, <2>1, <2>3, <2>4 DEF UpgradeIInv, LegacySessions
  <2>7. \A q \in Contact : legacy'[q] # 0 => \E s \in sessionRows' : s.phone = q
    BY <1>1, <2>2, <2>3, <2>4 DEF UpgradeIInv, LegacySessions
  <2>. QED
    BY <1>1, <2>5, <2>6, <2>7 DEF LegacySessions
<1>7. FiledWithTheirAgent'
  BY <1>1 DEF UpgradeIInv, FiledWithTheirAgent
<1>. QED
  BY <1>2, <1>3, <1>5, <1>6, <1>7 DEF UpgradeIInv

LEMMA OpenKeeps == ASSUME UpgradeIInv, NEW o \in Process, Open(o) PROVE UpgradeIInv'
<1>1. PICK kind \in {"server", "command", "tool"}, known \in {Owners, {}} :
        /\ opener' = [opener EXCEPT ![o] = [kind |-> kind, owners |-> known, at |-> 1,
                                            missing |-> FALSE]]
        /\ careless' = (careless \/ (kind = "server" /\ known # Owners))
  BY DEF Open
<1>2. UpgradeTypeOK'
  BY <1>1, ProgramIs, UpgradeAssumption DEF UpgradeAssumption, UpgradeIInv, UpgradeTypeOK, Open
<1>3. VariableIsSeen'
  BY <1>1 DEF UpgradeIInv, UpgradeTypeOK, VariableIsSeen
<1>4. FilledInAhead' /\ RebuiltAhead'
  BY <1>1 DEF UpgradeIInv, UpgradeTypeOK, FilledInAhead, RebuiltAhead, Open
<1>5. LegacyTable' /\ LegacySessions' /\ FiledWithTheirAgent'
  BY <1>1, SessionsKeep DEF Open
<1>. QED
  BY <1>2, <1>3, <1>4, <1>5 DEF UpgradeIInv

LEMMA TableInfoKeeps == ASSUME UpgradeIInv, NEW o \in Process, TableInfo(o) PROVE UpgradeIInv'
<1>1. opener[o].at \in 1 .. 2
  BY ColumnsAreFirst DEF TableInfo
<1>2. LegacyTable' /\ LegacySessions' /\ FiledWithTheirAgent'
  BY SessionsKeep DEF TableInfo
<1>3. CASE Onward(o)
  <2>1. UpgradeTypeOK' /\ VariableIsSeen'
    BY <1>1, <1>3, OnwardKeeps, OpenersAreTyped DEF UpgradeIInv, UpgradeTypeOK, TableInfo
  <2>2. FilledInAhead' /\ RebuiltAhead'
    <3>1. opener'[o].at \in 0 .. 3 /\ \A q \in Process \ {o} : opener'[q] = opener[q]
      BY <1>1, <1>3, OnwardKeeps DEF TableInfo
    <3>. QED
      BY <3>1, AheadKeeps DEF TableInfo
  <2>. QED
    BY <1>2, <2>1, <2>2 DEF UpgradeIInv
<1>4. CASE opener' = [opener EXCEPT ![o].missing = TRUE]
  <2>1. /\ opener' \in Openers /\ VariableIsSeen'
        /\ \A q \in Process : opener'[q].at = opener[q].at
    BY <1>4, MissingKeeps DEF TableInfo
  <2>2. UpgradeTypeOK'
    BY <2>1, OpenersAreTyped DEF UpgradeIInv, UpgradeTypeOK, TableInfo
  <2>3. FilledInAhead' /\ RebuiltAhead'
    BY <2>1 DEF UpgradeIInv, FilledInAhead, RebuiltAhead, TableInfo
  <2>. QED
    BY <1>2, <2>1, <2>2, <2>3 DEF UpgradeIInv
<1>. QED
  BY <1>3, <1>4 DEF TableInfo

LEMMA AlterTableKeeps == ASSUME UpgradeIInv, NEW o \in Process, AlterTable(o) PROVE UpgradeIInv'
<1>1. opener[o].at \in 1 .. 2
  BY ColumnsAreFirst DEF AlterTable
<1>2. LegacyTable' /\ LegacySessions' /\ FiledWithTheirAgent'
  BY SessionsKeep DEF AlterTable
<1>3. columns' \subseteq Column
  BY DEF UpgradeIInv, UpgradeTypeOK, AlterTable
<1>4. CASE Onward(o)
  <2>1. UpgradeTypeOK' /\ VariableIsSeen'
    BY <1>1, <1>3, <1>4, OnwardKeeps, OpenersAreTyped DEF UpgradeIInv, UpgradeTypeOK, AlterTable
  <2>2. FilledInAhead' /\ RebuiltAhead'
    <3>1. opener'[o].at \in 0 .. 3 /\ \A q \in Process \ {o} : opener'[q] = opener[q]
      BY <1>1, <1>4, OnwardKeeps DEF AlterTable
    <3>. QED
      BY <3>1, AheadKeeps DEF AlterTable
  <2>. QED
    BY <1>2, <2>1, <2>2 DEF UpgradeIInv
<1>5. CASE Fails(o)
  <2>1. UpgradeTypeOK' /\ VariableIsSeen'
    BY <1>3, <1>5, FailsKeeps, OpenersAreTyped DEF UpgradeIInv, UpgradeTypeOK, AlterTable
  <2>2. FilledInAhead' /\ RebuiltAhead'
    <3>1. opener'[o].at \in 0 .. 3 /\ \A q \in Process \ {o} : opener'[q] = opener[q]
      BY <1>5, FailsKeeps DEF AlterTable
    <3>. QED
      BY <3>1, AheadKeeps DEF AlterTable
  <2>. QED
    BY <1>2, <2>1, <2>2 DEF UpgradeIInv
<1>. QED
  BY <1>4, <1>5 DEF AlterTable

\* After it no row is left to fill in.
LEMMA BackfillKeeps == ASSUME UpgradeIInv, NEW o \in Process, Backfill(o) PROVE UpgradeIInv'
<1>1. opener[o].at = 3 /\ Onward(o)
  BY BackfillIsThird DEF Backfill
<1>2. LegacyTable' /\ LegacySessions' /\ FiledWithTheirAgent'
  BY SessionsKeep DEF Backfill
<1>3. UpgradeTypeOK' /\ VariableIsSeen'
  BY <1>1, OnwardKeeps, OpenersAreTyped DEF UpgradeIInv, UpgradeTypeOK, Backfill, FilledIn
<1>4. FilledInAhead'
  BY DEF Backfill, FilledIn, FilledInAhead
<1>5. RebuiltAhead'
  <2>1. /\ opener'[o].at = 4 /\ \A q \in Process \ {o} : opener'[q] = opener[q]
        /\ shape' = shape
    BY <1>1, OnwardKeeps DEF Backfill
  <2>. QED
    BY <2>1 DEF UpgradeIInv, RebuiltAhead
<1>. QED
  BY <1>2, <1>3, <1>4, <1>5 DEF UpgradeIInv

\* The rebuilt table holds the sessions of the old one with their ages, and an owner's
\* with the owners' agent if the process knew who they are.
LEMMA RebuildKeeps == ASSUME UpgradeIInv, NEW o \in Process, Rebuild(o) PROVE UpgradeIInv'
<1>1. opener[o].at = 4
  BY RebuildIsFourth DEF Rebuild
<1>2. UNCHANGED <<columns, inboxRows, opens, stamp, legacy, resumed, careless>>
  BY DEF Rebuild
<1>3. CASE Fails(o) /\ UNCHANGED <<shape, sessionRows, dropped>>
  <2>1. UpgradeTypeOK' /\ VariableIsSeen'
    BY <1>2, <1>3, FailsKeeps, OpenersAreTyped DEF UpgradeIInv, UpgradeTypeOK
  <2>2. FilledInAhead' /\ RebuiltAhead'
    <3>1. opener'[o].at \in 0 .. 3 /\ \A q \in Process \ {o} : opener'[q] = opener[q]
      BY <1>2, <1>3, FailsKeeps
    <3>. QED
      BY <1>2, <1>3, <3>1, AheadKeeps
  <2>. QED
    BY <1>2, <1>3, <2>1, <2>2, SessionsKeep DEF UpgradeIInv
<1>4. CASE /\ Onward(o) /\ shape' = "agent" /\ ~(shape = "phone" /\ Refuses(o))
           /\ dropped' = (dropped \/ (shape = "phone" /\ ~CanResolve(o)))
  <2>1. VariableIsSeen' /\ FilledInAhead' /\ RebuiltAhead' /\ LegacyTable'
    BY <1>1, <1>2, <1>4, OnwardKeeps
       DEF UpgradeIInv, UpgradeTypeOK, FilledInAhead, RebuiltAhead, LegacyTable
  <2>2. CASE shape # "phone"
    <3>1. sessionRows' = sessionRows /\ dropped' = dropped
      BY <1>4, <2>2 DEF Rebuild, UpgradeIInv, UpgradeTypeOK
    <3>2. UpgradeTypeOK'
      BY <1>1, <1>2, <1>4, <3>1, OnwardKeeps, OpenersAreTyped DEF UpgradeIInv, UpgradeTypeOK
    <3>3. LegacySessions' /\ FiledWithTheirAgent'
      BY <1>2, <3>1 DEF UpgradeIInv, LegacySessions, FiledWithTheirAgent
    <3>. QED
      BY <2>1, <3>2, <3>3 DEF UpgradeIInv
  <2>3. CASE shape = "phone" /\ ~CanResolve(o)
    <3>1. sessionRows' = {} /\ dropped' = TRUE
      BY <1>4, <2>3 DEF Rebuild, Rekeyed
    <3>2. UpgradeTypeOK'
      BY <1>1, <1>2, <1>4, <3>1, OnwardKeeps, OpenersAreTyped DEF UpgradeIInv, UpgradeTypeOK
    <3>3. LegacySessions' /\ FiledWithTheirAgent'
      BY <3>1 DEF LegacySessions, FiledWithTheirAgent
    <3>. QED
      BY <2>1, <3>2, <3>3 DEF UpgradeIInv
  <2>4. CASE shape = "phone" /\ CanResolve(o)
    <3>1. sessionRows' = {[s EXCEPT !.agent = LegacyAgent(o, s.phone)] : s \in sessionRows}
      BY <1>4, <2>4 DEF Rebuild, Rekeyed
    <3>2. /\ resumed = {} /\ resumed' = {} /\ \A s \in sessionRows : s.at = legacy[s.phone]
          /\ ~dropped /\ ~dropped'
      BY <1>2, <1>4, <2>4 DEF UpgradeIInv, LegacyTable
    <3>3. \A s \in sessionRows :
            [s EXCEPT !.agent = LegacyAgent(o, s.phone)]
              = [agent |-> LegacyAgent(o, s.phone), phone |-> s.phone, at |-> s.at]
      BY DEF UpgradeIInv, UpgradeTypeOK
    <3>4. sessionRows' = {[agent |-> LegacyAgent(o, s.phone), phone |-> s.phone, at |-> s.at] :
                         s \in sessionRows}
      BY <3>1, <3>3
    <3>5. UpgradeTypeOK'
      <4>1. sessionRows' \subseteq [agent : {"unkeyed", "owner", "customer"}, phone : Contact,
                                at : 1 .. MaxStamp]
        BY <3>4 DEF UpgradeIInv, UpgradeTypeOK, LegacyAgent
      <4>. QED
        BY <1>1, <1>2, <1>4, <4>1, OnwardKeeps, OpenersAreTyped DEF UpgradeIInv, UpgradeTypeOK
    <3>6. LegacySessions'
      <4>1. \A s, t \in sessionRows' : s.phone = t.phone => s = t
        BY <3>2, <3>4 DEF UpgradeIInv, LegacySessions
      <4>2. \A s \in sessionRows' : s.at = legacy[s.phone]
        BY <3>2, <3>4
      <4>3. \A p \in Contact : legacy[p] # 0 => \E s \in sessionRows' : s.phone = p
        <5>1. SUFFICES ASSUME NEW p \in Contact, legacy[p] # 0
                       PROVE  \E s \in sessionRows' : s.phone = p
          OBVIOUS
        <5>2. PICK s \in sessionRows : s.phone = p
          BY <3>2, <5>1 DEF UpgradeIInv, LegacySessions
        <5>3. [agent |-> LegacyAgent(o, s.phone), phone |-> s.phone, at |-> s.at] \in sessionRows'
          BY <3>4
        <5>. QED
          BY <5>2, <5>3
      <4>. QED
        BY <1>2, <3>2, <4>1, <4>2, <4>3 DEF LegacySessions
    <3>7. FiledWithTheirAgent'
      <4>1. SUFFICES ASSUME NEW s \in sessionRows, s.phone \in Owners, ~careless
                     PROVE  LegacyAgent(o, s.phone) # "customer"
        BY <1>2, <3>4 DEF FiledWithTheirAgent
      <4>2. opener[o].owners = Owners
        <5>1. opener[o].kind \in {"server", "command"}
          BY <1>1, <2>4 DEF CanResolve, UpgradeIInv, UpgradeTypeOK, VariableIsSeen
        <5>. QED
          BY <1>4, <2>4, <4>1, <5>1 DEF UpgradeIInv, VariableIsSeen, Refuses
      <4>. QED
        BY <4>1, <4>2 DEF LegacyAgent
    <3>. QED
      BY <2>1, <3>5, <3>6, <3>7 DEF UpgradeIInv
  <2>. QED
    BY <2>2, <2>3, <2>4
<1>. QED
  BY <1>3, <1>4 DEF Rebuild

LEMMA NewRowKeeps ==
  ASSUME UpgradeIInv, NEW o \in Process, NEW r \in InboxRow, NewRow(o, r) PROVE UpgradeIInv'
<1>1. UpgradeTypeOK' /\ VariableIsSeen' /\ RebuiltAhead'
  BY DEF UpgradeIInv, UpgradeTypeOK, VariableIsSeen, RebuiltAhead, NewRow
<1>2. FilledInAhead'
  BY DEF UpgradeIInv, UpgradeTypeOK, FilledInAhead, NewRow
<1>3. LegacyTable' /\ LegacySessions' /\ FiledWithTheirAgent'
  BY SessionsKeep DEF NewRow
<1>. QED
  BY <1>1, <1>2, <1>3 DEF UpgradeIInv

\* The person is one of those this build has answered.
LEMMA NewTurnKeeps ==
  ASSUME UpgradeIInv, NEW o \in Process, NEW p \in Contact, NewTurn(o, p)
  PROVE  UpgradeIInv'
<1>1. PICK agent \in {"owner", "customer"} :
        sessionRows' = {s \in sessionRows : s.phone # p \/ s.agent # agent}
                      \cup {[agent |-> agent, phone |-> p, at |-> stamp']}
  BY DEF NewTurn
<1>2. /\ stamp' \in 1 .. MaxStamp /\ shape = "agent" /\ resumed' = resumed \cup {p}
      /\ UNCHANGED <<columns, inboxRows, shape, opener, opens, legacy, careless, dropped>>
  BY ProgramIs, UpgradeAssumption DEF UpgradeAssumption, UpgradeIInv, UpgradeTypeOK, RebuiltAhead, NewTurn, Serving
<1>3. UpgradeTypeOK'
  BY <1>1, <1>2 DEF UpgradeIInv, UpgradeTypeOK
<1>4. VariableIsSeen' /\ FilledInAhead' /\ RebuiltAhead' /\ LegacyTable'
  BY <1>2 DEF UpgradeIInv, VariableIsSeen, FilledInAhead, RebuiltAhead, LegacyTable
<1>5. \A s \in sessionRows' : s.phone \notin resumed' => s \in sessionRows /\ s.phone \notin resumed
  BY <1>1, <1>2
<1>6. \A s \in sessionRows : s.phone \notin resumed' => s \in sessionRows'
  BY <1>1, <1>2
<1>7. LegacySessions'
  BY <1>2, <1>5, <1>6 DEF UpgradeIInv, LegacySessions
<1>8. FiledWithTheirAgent'
  BY <1>2, <1>5 DEF UpgradeIInv, FiledWithTheirAgent
<1>. QED
  BY <1>3, <1>4, <1>7, <1>8 DEF UpgradeIInv

LEMMA EndsKeeps == ASSUME UpgradeIInv, NEW o \in Process, Ends(o) PROVE UpgradeIInv'
<1>1. UpgradeTypeOK' /\ VariableIsSeen'
  BY FailsKeeps, OpenersAreTyped DEF UpgradeIInv, UpgradeTypeOK, Ends
<1>2. FilledInAhead' /\ RebuiltAhead'
  <2>1. opener'[o].at \in 0 .. 3 /\ \A q \in Process \ {o} : opener'[q] = opener[q]
    BY FailsKeeps DEF Ends
  <2>. QED
    BY <2>1, AheadKeeps DEF Ends
<1>3. LegacyTable' /\ LegacySessions' /\ FiledWithTheirAgent'
  BY SessionsKeep DEF Ends
<1>. QED
  BY <1>1, <1>2, <1>3 DEF UpgradeIInv

LEMMA UpgradeNextKeeps == ASSUME UpgradeIInv, [UpgradeNext]_upgradeVars PROVE UpgradeIInv'
<1>1. CASE UNCHANGED upgradeVars
  BY <1>1 DEF upgradeVars, UpgradeIInv, UpgradeTypeOK, VariableIsSeen, FilledInAhead, LegacyTable, RebuiltAhead,
              LegacySessions, FiledWithTheirAgent
<1>2. CASE UpgradeNext
  BY <1>2, OldRowKeeps, OldTurnKeeps, OpenKeeps, TableInfoKeeps, AlterTableKeeps, BackfillKeeps,
     RebuildKeeps, NewRowKeeps, NewTurnKeeps, EndsKeeps DEF UpgradeNext
<1>. QED
  BY <1>1, <1>2

-----------------------------------------------------------------------------
(* The theorems.                                                              *)

\* What is known of the processes, the rows and the sessions holds for good.
THEOREM UpgradeInvariant == UpgradeSpec => []UpgradeIInv
<1>1. UpgradeInit => UpgradeIInv
  BY UpgradeInitEstablishes
<1>2. UpgradeIInv /\ [UpgradeNext]_upgradeVars => UpgradeIInv'
  BY UpgradeNextKeeps
<1>. QED
  BY <1>1, <1>2, PTL DEF UpgradeSpec

\* The database's columns, rows and sessions keep their types (data/db.ts).
THEOREM UpgradeTypeCorrect == UpgradeSpec => []UpgradeTypeOK
<1>1. UpgradeIInv => UpgradeTypeOK
  BY DEF UpgradeIInv
<1>. QED
  BY <1>1, UpgradeInvariant, PTL

\* However many processes open a database of an older build side by side, wherever
\* they die and whenever the older build is brought back: a server that serves can
\* claim every row, each person's session is there once with its age unless a process
\* without a resolver dropped them all, and no owner's
\* is with the customers' agent but by a server without the variable (data/db.ts
\* migrate, router.ts legacySessionAgentId).
THEOREM NothingIsLost == UpgradeSpec => []UpgradeKeepsEverything
<1>1. UpgradeIInv => UpgradeKeepsEverything
  <2>. SUFFICES ASSUME UpgradeIInv PROVE UpgradeKeepsEverything
    OBVIOUS
  <2>1. RowsCanBeClaimed
    BY ProgramIs DEF UpgradeIInv, UpgradeTypeOK, FilledInAhead, RowsCanBeClaimed, Serving
  <2>2. SessionsAreCarriedOver
    <3>. SUFFICES ASSUME ~dropped, NEW p \in Contact \ resumed, legacy[p] # 0
                  PROVE  \E s \in sessionRows : s.at = legacy[p] /\ {t \in sessionRows : t.phone = p} = {s}
      BY DEF SessionsAreCarriedOver, UpgradeIInv, LegacySessions
    <3>1. PICK s \in sessionRows : s.phone = p
      BY DEF UpgradeIInv, LegacySessions
    <3>2. s.at = legacy[p] /\ {t \in sessionRows : t.phone = p} = {s}
      BY <3>1 DEF UpgradeIInv, LegacySessions
    <3>. QED
      BY <3>2
  <2>3. FiledWithTheirAgent
    BY DEF UpgradeIInv
  <2>. QED
    BY <2>1, <2>2, <2>3 DEF UpgradeKeepsEverything
<1>. QED
  BY <1>1, UpgradeInvariant, PTL

=============================================================================
