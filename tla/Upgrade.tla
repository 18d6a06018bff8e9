------------------------------- MODULE Upgrade -------------------------------
(***************************************************************************)
(* How a database of an older build is brought forward (data/db.ts).       *)
(*                                                                         *)
(* The server and every operator's command open the database the same      *)
(* way: missing columns are added one statement at a time, rows from       *)
(* before the columns are filled in, and `sessions`, once keyed by phone,  *)
(* is rebuilt in one transaction.  Two processes may be at it at once, and *)
(* either may die between any two statements.  The older build may be      *)
(* brought back, and runs by itself.                                       *)
(***************************************************************************)
EXTENDS Naturals, Sequences, FiniteSets

CONSTANTS
  Contact,
  Owners,   \* OWNER_PHONE_NUMBERS, where the variable reaches the process
  InboxRow,
  Process,  \* servers and commands of this build
  MaxOpens, \* bound: processes started
  MaxStamp  \* bound: sessions written

ASSUME UpgradeAssumption == Owners \subseteq Contact /\ {MaxOpens, MaxStamp} \subseteq Nat

VARIABLES
  columns,   \* columns the inbox has of those this build added
  inboxRows,     \* each row: not there, without an envelope, or whole
  shape,     \* the key of `sessions`
  sessionRows,  \* its rows
  opener,    \* each process
  opens,
  stamp,     \* updated_at given last
  legacy,    \* history: when the older build last wrote a person's session
  resumed,   \* history: people this build has written a session of
  careless,  \* history: a server started without the variable
  dropped    \* history: a process without a resolver rebuilt the sessions

upgradeVars == <<columns, inboxRows, shape, sessionRows, opener, opens, stamp, legacy, resumed,
                 careless, dropped>>

Column == {"conversation_key", "principal_id"}

\* The steps of an open, of which the first two stand for twenty columns.
Program == <<"conversation_key", "principal_id", "backfill", "rebuild">>

Down == [kind |-> "none", owners |-> {}, at |-> 0, missing |-> FALSE]

\* A database of the older build.
UpgradeInit ==
  /\ columns = {} /\ inboxRows = [r \in InboxRow |-> "none"]
  /\ shape = "phone" /\ sessionRows = {}
  /\ opener = [o \in Process |-> Down] /\ opens = 0
  /\ stamp = 0 /\ legacy = [p \in Contact |-> 0] /\ resumed = {}
  /\ careless = FALSE /\ dropped = FALSE

-----------------------------------------------------------------------------
(* The older build.                                                         *)

Alone == \A o \in Process : opener[o] = Down

OldRow(r) ==
  /\ Alone /\ inboxRows[r] = "none"
  /\ inboxRows' = [inboxRows EXCEPT ![r] = "bare"]
  /\ UNCHANGED <<columns, shape, sessionRows, opener, opens, stamp, legacy, resumed, careless, dropped>>

\* Its statements name a column that is gone once the table is rebuilt.
OldTurn(p) ==
  /\ Alone /\ shape = "phone" /\ stamp < MaxStamp /\ stamp' = stamp + 1
  /\ sessionRows' = {s \in sessionRows : s.phone # p}
                   \cup {[agent |-> "unkeyed", phone |-> p, at |-> stamp']}
  /\ legacy' = [legacy EXCEPT ![p] = stamp']
  /\ UNCHANGED <<columns, inboxRows, shape, opener, opens, resumed, careless, dropped>>

-----------------------------------------------------------------------------
(* openDb.                                                                  *)

At(o, step) == opener[o].at \in DOMAIN Program /\ Program[opener[o].at] = step
Onward(o) == opener' = [opener EXCEPT ![o].at = @ + 1, ![o].missing = FALSE]
Fails(o) == opener' = [opener EXCEPT ![o] = Down]

\* A process starts.  Its .env may not be there, and the variable is empty.  The
\* server and the commands give openDb a resolver, a tool of another kind need
\* not.  The tables are there: CREATE TABLE IF NOT EXISTS leaves them as they are.
Open(o) ==
  /\ opener[o] = Down /\ opens < MaxOpens /\ opens' = opens + 1
  /\ \E kind \in {"server", "command", "tool"}, owners \in {Owners, {}} :
       /\ opener' = [opener EXCEPT ![o] = [kind |-> kind, owners |-> owners, at |-> 1,
                                           missing |-> FALSE]]
       /\ careless' = (careless \/ (kind = "server" /\ owners # Owners))
  /\ UNCHANGED <<columns, inboxRows, shape, sessionRows, stamp, legacy, resumed, dropped>>

\* addColumn asks which columns there are, and goes on if it has nothing to add ...
TableInfo(o) ==
  /\ \E c \in Column : At(o, c) /\ ~opener[o].missing /\
       IF c \in columns THEN Onward(o) ELSE opener' = [opener EXCEPT ![o].missing = TRUE]
  /\ UNCHANGED <<columns, inboxRows, shape, sessionRows, opens, stamp, legacy, resumed, careless, dropped>>

\* ... and otherwise adds it, and fails to open if another process has meanwhile.
AlterTable(o) ==
  /\ \E c \in Column :
       /\ At(o, c) /\ opener[o].missing
       /\ columns' = columns \cup {c}
       /\ IF c \in columns THEN Fails(o) ELSE Onward(o)
  /\ UNCHANGED <<inboxRows, shape, sessionRows, opens, stamp, legacy, resumed, careless, dropped>>

\* Mutant: done once only, and taken for done when the sessions are rebuilt.
FilledInOnce ==
  [r \in InboxRow |-> IF inboxRows[r] = "bare" /\ shape = "phone" THEN "whole" ELSE inboxRows[r]]

FilledIn == [r \in InboxRow |-> IF inboxRows[r] = "bare" THEN "whole" ELSE inboxRows[r]]

\* backfillInboxEnvelope, on every boot.
Backfill(o) ==
  /\ At(o, "backfill")
  /\ inboxRows' = FilledIn
  /\ Onward(o)
  /\ UNCHANGED <<columns, shape, sessionRows, opens, stamp, legacy, resumed, careless, dropped>>

\* legacySessionAgentId: by the variable, since the table of roles is empty still.
LegacyAgent(o, p) == IF p \in opener[o].owners THEN "owner" ELSE "customer"

\* refusingLegacyAgentIdFor: a command does not guess.
Refuses(o) == opener[o].kind = "command" /\ opener[o].owners = {} /\ sessionRows # {}

CanResolve(o) == opener[o].kind # "tool"

\* A session goes with the age it had, or is dropped where nobody can say whose it is.
Rekeyed(o) ==
  {[s EXCEPT !.agent = LegacyAgent(o, s.phone)] : s \in IF CanResolve(o) THEN sessionRows ELSE {}}

\* migrateSessionsKey looks at the table and rebuilds it in one transaction.
Rebuild(o) ==
  /\ At(o, "rebuild")
  /\ IF shape = "phone" /\ Refuses(o)
     THEN Fails(o) /\ UNCHANGED <<shape, sessionRows, dropped>>
     ELSE /\ Onward(o) /\ shape' = "agent"
          /\ sessionRows' = IF shape = "phone" THEN Rekeyed(o) ELSE sessionRows
          /\ dropped' = (dropped \/ (shape = "phone" /\ ~CanResolve(o)))
  /\ UNCHANGED <<columns, inboxRows, opens, stamp, legacy, resumed, careless>>

-----------------------------------------------------------------------------
(* This build, open.                                                        *)

Serving(o) == opener[o].kind = "server" /\ opener[o].at > Len(Program)

\* insertInboxMessage writes the envelope.
NewRow(o, r) ==
  /\ Serving(o) /\ inboxRows[r] = "none"
  /\ inboxRows' = [inboxRows EXCEPT ![r] = "whole"]
  /\ UNCHANGED <<columns, shape, sessionRows, opener, opens, stamp, legacy, resumed, careless, dropped>>

\* setSessionId, for the agent the table of roles sends the person to.
NewTurn(o, p) ==
  /\ Serving(o) /\ stamp < MaxStamp /\ stamp' = stamp + 1
  /\ \E agent \in {"owner", "customer"} :
       sessionRows' = {s \in sessionRows : s.phone # p \/ s.agent # agent}
                     \cup {[agent |-> agent, phone |-> p, at |-> stamp']}
  /\ resumed' = resumed \cup {p}
  /\ UNCHANGED <<columns, inboxRows, shape, opener, opens, legacy, careless, dropped>>

\* A command is done, or a process dies, wherever it is.
Ends(o) ==
  /\ opener[o] # Down /\ Fails(o)
  /\ UNCHANGED <<columns, inboxRows, shape, sessionRows, opens, stamp, legacy, resumed, careless, dropped>>

UpgradeNext ==
  \/ \E r \in InboxRow : OldRow(r)
  \/ \E p \in Contact : OldTurn(p)
  \/ \E o \in Process :
       \/ Open(o) \/ TableInfo(o) \/ AlterTable(o) \/ Backfill(o) \/ Rebuild(o) \/ Ends(o)
       \/ \E r \in InboxRow : NewRow(o, r)
       \/ \E p \in Contact : NewTurn(o, p)

UpgradeSpec == UpgradeInit /\ [][UpgradeNext]_upgradeVars
=============================================================================
