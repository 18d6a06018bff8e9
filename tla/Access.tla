------------------------------- MODULE Access --------------------------------
(***************************************************************************)
(* Who is an owner, and how long a person can reach the console.           *)
(*                                                                         *)
(* The assignments table (data/assignments.ts) is written by the operator, *)
(* by the test console's flip (admin/test-console.ts, data/test-roster.ts) *)
(* and by every boot, which seeds it from OWNER_PHONE_NUMBERS.  Sessions   *)
(* of the console (data/admin-sessions.ts) are issued by the word "panel"  *)
(* from an owner (index.ts), by the operator, or by the single-use link a  *)
(* lead notice carries (data/admin-deep-links.ts, admin/deep-link.ts).     *)
(*                                                                         *)
(* Time is a counter.  A credential is live while its deadline is ahead.   *)
(***************************************************************************)
EXTENDS Naturals, FiniteSets

CONSTANTS
  Phone,
  ClaimTtl, SessionTtl, LinkTtl, \* ADMIN_CLAIM_TTL_MINUTES and its like, in ticks
  KeptFor,     \* the sweeps' olderThanDays
  MaxClock,    \* bound: ticks
  MaxSessions, MaxLinks, MaxRosterTokens, \* bound: credentials handed out
  MaxBoots     \* bound: restarts

ASSUME AccessAssumption ==
  /\ {ClaimTtl, SessionTtl, LinkTtl} \subseteq Nat \ {0}
  /\ {KeptFor, MaxClock, MaxSessions, MaxLinks, MaxRosterTokens, MaxBoots} \subseteq Nat

VARIABLES
  clock,
  role,     \* assignments.role, "none" without a row
  decided,  \* history: the role last set by hand
  roster,   \* test_roster: the token of each test phone, 0 for none
  tokens,   \* roster tokens minted
  asked,    \* "panel" as the inbox has it: not asked, waiting, or being sent
  sessions, \* admin_sessions
  links,    \* admin_deep_links
  issued,   \* how many of each were ever made
  boots

accessVars == <<clock, role, decided, roster, tokens, asked, sessions, links, issued, boots>>

Role == {"owner", "customer"}

AccessInit ==
  /\ clock = 0
  /\ role = [p \in Phone |-> "none"] /\ decided = [p \in Phone |-> "none"]
  /\ roster = [p \in Phone |-> 0] /\ tokens = 0
  /\ asked = [p \in Phone |-> "no"]
  /\ sessions = {} /\ links = {}
  /\ issued = [sessions |-> 0, links |-> 0]
  /\ boots = 0

Tick ==
  /\ clock < MaxClock /\ clock' = clock + 1
  /\ UNCHANGED <<role, decided, roster, tokens, asked, sessions, links, issued, boots>>

-----------------------------------------------------------------------------
(* Roles.                                                                   *)

\* Mutant: the table is brought in line with the variable.
SeededBySync(owners) ==
  [p \in Phone |-> IF p \in owners THEN "owner" ELSE role[p]]

\* seedOwnerAssignments: phones the variable names that have no row yet.
Seeded(owners) ==
  [p \in Phone |-> IF p \in owners /\ role[p] = "none" THEN "owner" ELSE role[p]]

\* A process starts, with what OWNER_PHONE_NUMBERS is then, and takes up the
\* messages its predecessor left.
Boot ==
  /\ boots < MaxBoots /\ boots' = boots + 1
  /\ \E owners \in SUBSET Phone : role' = Seeded(owners)
  /\ asked' = [p \in Phone |-> IF asked[p] = "sending" THEN "waiting" ELSE asked[p]]
  /\ UNCHANGED <<clock, decided, roster, tokens, sessions, links, issued>>

\* roleForPhone, read for each message: a phone without a row is a customer.
RoleFor(p) == IF role[p] = "owner" THEN "owner" ELSE "customer"

AssignRole(p, r) ==
  /\ role' = [role EXCEPT ![p] = r]
  /\ decided' = [decided EXCEPT ![p] = r]

\* role-assignments set.
SetRole(p, r) ==
  /\ AssignRole(p, r)
  /\ UNCHANGED <<clock, roster, tokens, asked, sessions, links, issued, boots>>

\* role-assignments remove: no word of the operator's is left, as it warns.
RemoveRole(p) ==
  /\ role[p] # "none"
  /\ role' = [role EXCEPT ![p] = "none"]
  /\ decided' = [decided EXCEPT ![p] = "none"]
  /\ UNCHANGED <<clock, roster, tokens, asked, sessions, links, issued, boots>>

\* addRosterEntry refuses a phone that has one, rotateRosterToken one without.
MintRosterToken(p) ==
  /\ tokens < MaxRosterTokens /\ tokens' = tokens + 1
  /\ roster' = [roster EXCEPT ![p] = tokens']
  /\ UNCHANGED <<clock, role, decided, asked, sessions, links, issued, boots>>

DeleteRosterEntry(p) ==
  /\ roster[p] # 0
  /\ roster' = [roster EXCEPT ![p] = 0]
  /\ UNCHANGED <<clock, role, decided, tokens, asked, sessions, links, issued, boots>>

\* findRosterByToken: a token that was rotated or whose entry is gone is nobody's.
Holder(token) == {p \in Phone : roster[p] = token}

\* POST /test-console/role: whoever holds a token sets the role of its phone.
Flip(token, r) ==
  /\ \E p \in Holder(token) : AssignRole(p, r)
  /\ UNCHANGED <<clock, roster, tokens, asked, sessions, links, issued, boots>>

-----------------------------------------------------------------------------
(* Sessions.                                                                *)

Live(s) == ~s.revoked /\ s.expiresAt > clock

\* issueAdminSession.  root and link say where it came from.
NewSession(p, held, root, link) ==
  [id |-> issued.sessions + 1, phone |-> p, held |-> held, claimed |-> FALSE,
   expiresAt |-> clock + ClaimTtl, revoked |-> FALSE, root |-> root, link |-> link]

Issue(p, held, root, link) ==
  /\ issued.sessions < MaxSessions
  /\ sessions' = sessions \cup {NewSession(p, held, root, link)}

\* An owner writes "panel"; the row waits for its turn.
WritePanel(p) ==
  /\ asked[p] = "no"
  /\ asked' = [asked EXCEPT ![p] = "waiting"]
  /\ UNCHANGED <<clock, role, decided, roster, tokens, sessions, links, issued, boots>>

\* The turn: a session for whom the table calls an owner now, and an ordinary
\* turn for anybody else.
HandlePanel(p) ==
  /\ asked[p] = "waiting"
  /\ IF RoleFor(p) = "owner"
     THEN /\ Issue(p, FALSE, clock, 0)
          /\ issued' = [issued EXCEPT !.sessions = @ + 1]
          /\ asked' = [asked EXCEPT ![p] = "sending"]
     ELSE /\ asked' = [asked EXCEPT ![p] = "no"]
          /\ UNCHANGED <<sessions, issued>>
  /\ UNCHANGED <<clock, role, decided, roster, tokens, links, boots>>

\* The last session issued for this phone by its words.
Sending(p, s) == s.phone = p /\ ~s.held /\ s.link = 0 /\ \A r \in sessions :
                   r.phone = p /\ ~r.held /\ r.link = 0 => r.id <= s.id

\* The message goes out (and its row may yet be handled again), or the session is
\* revoked because it did not.
SendPanel(p) ==
  /\ asked[p] = "sending"
  /\ \/ /\ sessions' = {IF Sending(p, s) THEN [s EXCEPT !.held = TRUE] ELSE s : s \in sessions}
        /\ \E next \in {"no", "waiting"} : asked' = [asked EXCEPT ![p] = next]
     \/ /\ sessions' = {IF Sending(p, s) THEN [s EXCEPT !.revoked = TRUE] ELSE s : s \in sessions}
        /\ asked' = [asked EXCEPT ![p] = "no"]
  /\ UNCHANGED <<clock, role, decided, roster, tokens, links, issued, boots>>

\* admin-access issue.
IssueByHand(p) ==
  /\ Issue(p, TRUE, clock, 0)
  /\ issued' = [issued EXCEPT !.sessions = @ + 1]
  /\ UNCHANGED <<clock, role, decided, roster, tokens, asked, links, boots>>

\* Mutant: every request moves the deadline.
ClaimedSliding(s) == [s EXCEPT !.claimed = TRUE, !.expiresAt = clock + SessionTtl]

\* authenticateAdminSession: the first request moves the deadline, once.
Claimed(s) ==
  IF s.claimed THEN s
  ELSE [s EXCEPT !.claimed = TRUE, !.expiresAt = clock + SessionTtl]

Authenticate ==
  /\ \E s \in sessions : s.held /\ Live(s) /\ sessions' = (sessions \ {s}) \cup {Claimed(s)}
  /\ UNCHANGED <<clock, role, decided, roster, tokens, asked, links, issued, boots>>

\* admin-access revoke, and revoke-phone: one session, or a phone's live ones.
Revoke ==
  /\ \/ \E s \in sessions : ~s.revoked /\ sessions' = (sessions \ {s}) \cup {[s EXCEPT !.revoked = TRUE]}
     \/ \E p \in Phone : sessions' = {IF s.phone = p /\ Live(s) THEN [s EXCEPT !.revoked = TRUE] ELSE s :
                                        s \in sessions}
  /\ UNCHANGED <<clock, role, decided, roster, tokens, asked, links, issued, boots>>

-----------------------------------------------------------------------------
(* Links.                                                                   *)

\* mintAdminDeepLink.
MintLink(p) ==
  /\ issued.links < MaxLinks
  /\ issued' = [issued EXCEPT !.links = @ + 1]
  /\ links' = links \cup {[id |-> issued.links + 1, phone |-> p, born |-> clock,
                           expiresAt |-> clock + LinkTtl, used |-> FALSE]}
  /\ UNCHANGED <<clock, role, decided, roster, tokens, asked, sessions, boots>>

\* A lead is notified to those the table calls owners, with a link for each.
NotifyOfLead(p) == RoleFor(p) = "owner" /\ MintLink(p)

\* admin-access link, for anybody.
LinkByHand(p) == MintLink(p)

\* redeemAdminDeepLink: the code is spent and the session made in one transaction.
Redeem(l) ==
  /\ ~l.used /\ l.expiresAt > clock
  /\ links' = (links \ {l}) \cup {[l EXCEPT !.used = TRUE]}
  /\ Issue(l.phone, TRUE, l.born, l.id)

\* GET /go/:code hands the session to the browser.
OpenLink ==
  /\ \E l \in links : Redeem(l)
  /\ issued' = [issued EXCEPT !.sessions = @ + 1]
  /\ UNCHANGED <<clock, role, decided, roster, tokens, asked, boots>>

\* Housekeeping keeps dead credentials for a while.
SweepAccess ==
  /\ sessions' = {s \in sessions : s.expiresAt + KeptFor >= clock}
  /\ links' = {l \in links : l.expiresAt + KeptFor >= clock}
  /\ UNCHANGED <<clock, role, decided, roster, tokens, asked, issued, boots>>

AccessNext ==
  \/ Tick \/ Boot \/ Authenticate \/ Revoke \/ OpenLink \/ SweepAccess
  \/ \E p \in Phone :
       \/ RemoveRole(p) \/ MintRosterToken(p) \/ DeleteRosterEntry(p)
       \/ WritePanel(p) \/ HandlePanel(p) \/ SendPanel(p) \/ IssueByHand(p)
       \/ NotifyOfLead(p) \/ LinkByHand(p)
  \/ \E r \in Role : \/ \E p \in Phone : SetRole(p, r)
                     \/ \E token \in 1 .. tokens : Flip(token, r)

AccessSpec == AccessInit /\ [][AccessNext]_accessVars
=============================================================================
