------------------------------- MODULE Forget --------------------------------
(***************************************************************************)
(* Forgetting the customers: purge-sessions is a process of its own        *)
(* (data/purge.ts, data/purge-sessions.ts) that deletes statement by       *)
(* statement what the running server keeps of them (data/repo.ts), with    *)
(* the transcripts the agent writes to disk (data/transcripts.ts), which   *)
(* the server's housekeeping sweeps too.  Either process goes on while the *)
(* other does; the purge may die at any step and be run again.             *)
(*                                                                         *)
(* A conversation is a phone and the agent that answers it, so one phone   *)
(* can have two.                                                           *)
(***************************************************************************)
EXTENDS Naturals, Sequences, FiniteSets, SequencesExt

CONSTANTS
  Person,        \* phones
  Conversation   \* of [phone, agent]: "owner" and "customer" agents

ASSUME ForgetAssumption ==
  /\ Conversation \subseteq [phone : Person, agent : {"owner", "customer"}]
  /\ IsFiniteSet(Conversation)

VARIABLES
  rows,       \* sessions
  words,      \* conversation_messages
  trace,      \* conversation_tool_calls
  notes,      \* conversation_handoff
  files,      \* transcripts on disk
  oldFiles,   \* those older than the sessions' maximal age
  inTurn,     \* conversations with a turn in flight
  owners,     \* phones the assignments table calls owners
  purge,      \* where the purge is
  due,        \* history: what this purge could see and had to forget
  disturbed   \* history: conversations somebody wrote to since it began

memory == <<rows, words, trace, notes, files, oldFiles>>
server == <<inTurn, owners>>
history == <<due, disturbed>>
forgetVars == <<memory, server, purge, history>>

NoPurge == [phase |-> "none", todo |-> <<>>, step |-> "words", spared |-> {}]

ForgetInit ==
  /\ rows = {} /\ words = {} /\ trace = {} /\ notes = {} /\ files = {} /\ oldFiles = {}
  /\ inTurn = {}
  /\ owners \in SUBSET Person
  /\ purge = NoPurge
  /\ due = {} /\ disturbed = {}

Touch(c) == disturbed' = disturbed \cup {c}

-----------------------------------------------------------------------------
(* The server.                                                              *)

\* A turn begins: what was said is recorded, and the agent opens its transcript.
TurnBegins(c) ==
  /\ c \notin inTurn
  /\ inTurn' = inTurn \cup {c}
  /\ words' = words \cup {c}
  /\ files' = files \cup {c} /\ oldFiles' = oldFiles \ {c}
  /\ Touch(c)
  /\ UNCHANGED <<rows, trace, notes, owners, purge, due>>

\* recordToolCall, while it runs.
ToolCalled(c) ==
  /\ c \in inTurn
  /\ trace' = trace \cup {c}
  /\ Touch(c)
  /\ UNCHANGED <<rows, words, notes, files, oldFiles, server, purge, due>>

\* It ends: with a reply and a session, or with neither.
TurnEnds(c) ==
  /\ c \in inTurn
  /\ inTurn' = inTurn \ {c}
  /\ \/ rows' = rows \cup {c} /\ words' = words \cup {c}
     \/ UNCHANGED <<rows, words>>
  /\ Touch(c)
  /\ UNCHANGED <<trace, notes, files, oldFiles, owners, purge, due>>

\* The console pauses a conversation it shows.
Pause(c) ==
  /\ c \in words \ notes
  /\ notes' = notes \cup {c}
  /\ Touch(c)
  /\ UNCHANGED <<rows, words, trace, files, oldFiles, server, purge, due>>

\* clearSessionId, after a release or a reset.
SessionDropped(c) ==
  /\ c \in rows
  /\ rows' = rows \ {c}
  /\ UNCHANGED <<words, trace, notes, files, oldFiles, server, purge, history>>

FileAges(c) ==
  /\ c \in files \ (oldFiles \cup inTurn)
  /\ oldFiles' = oldFiles \cup {c}
  /\ UNCHANGED <<rows, words, trace, notes, files, server, purge, history>>

\* The operator, or a test phone, changes a role.
RoleChanges(p) ==
  /\ owners' \in {owners \cup {p}, owners \ {p}} \ {owners}
  /\ due' = {c \in due : c.phone # p}
  /\ UNCHANGED <<memory, inTurn, purge, disturbed>>

\* sweepOrphanedTranscripts: nothing refers to it, and it is old.
Orphans == (files \cap oldFiles) \ rows

SweepTranscripts ==
  /\ Orphans # {}
  /\ files' = files \ Orphans /\ oldFiles' = oldFiles \ Orphans
  /\ UNCHANGED <<rows, words, trace, notes, server, purge, history>>

-----------------------------------------------------------------------------
(* The purge.                                                               *)

IsOwnerKey(p, spared) == p \in owners \cup spared

Customers(cs, spared) == {c \in cs : ~IsOwnerKey(c.phone, spared) /\ c.agent # "owner"}

\* purgeCustomerSessions up to its first delete: it refuses where nobody is
\* known to be an owner, by the table or by the variable.
PurgeStarts ==
  /\ purge.phase \in {"none", "done"}
  /\ \E spared \in SUBSET Person :
       /\ owners \cup spared # {}
       /\ purge' = [phase |-> "first", todo |-> SetToSeq(Customers(rows, spared)),
                    step |-> "words", spared |-> spared]
       /\ due' = Customers(rows \cup words, spared)
  /\ disturbed' = inTurn
  /\ UNCHANGED <<memory, server>>

FollowedBy == [words |-> "trace", trace |-> "notes", notes |-> "row", row |-> "file"]

\* One statement of the first pass: the words, the trace, the notes, the row
\* that leads to them, and the transcript.
FirstPass ==
  /\ purge.phase = "first" /\ purge.todo # <<>>
  /\ LET c == Head(purge.todo)
     IN  /\ words' = IF purge.step = "words" THEN words \ {c} ELSE words
         /\ trace' = IF purge.step = "trace" THEN trace \ {c} ELSE trace
         /\ notes' = IF purge.step = "notes" THEN notes \ {c} ELSE notes
         /\ rows'  = IF purge.step = "row"   THEN rows  \ {c} ELSE rows
         /\ files' = IF purge.step = "file"  THEN files \ {c} ELSE files
         /\ oldFiles' = oldFiles \cap files'
  /\ purge' = IF purge.step = "file"
              THEN [purge EXCEPT !.step = "words", !.todo = Tail(@)]
              ELSE [purge EXCEPT !.step = FollowedBy[@]]
  /\ UNCHANGED <<server, history>>

\* Mutant: only what still has a session is purged.
SecondPassIsNone ==
  /\ purge.phase = "first" /\ purge.todo = <<>>
  /\ purge' = [purge EXCEPT !.phase = "second"]
  /\ UNCHANGED <<memory, server, history>>

\* The second pass is over the conversations that still have words.
SecondPassStarts ==
  /\ purge.phase = "first" /\ purge.todo = <<>>
  /\ purge' = [purge EXCEPT !.phase = "second", !.todo = SetToSeq(words)]
  /\ UNCHANGED <<memory, server, history>>

\* Its statements.  Whether to spare is asked when the conversation's turn comes.
SecondPass ==
  /\ purge.phase = "second" /\ purge.todo # <<>>
  /\ LET c == Head(purge.todo)
     IN  IF purge.step = "words" /\ Customers({c}, purge.spared) = {}
         THEN /\ purge' = [purge EXCEPT !.todo = Tail(@)]
              /\ UNCHANGED <<words, trace, notes>>
         ELSE /\ words' = IF purge.step = "words" THEN words \ {c} ELSE words
              /\ trace' = IF purge.step = "trace" THEN trace \ {c} ELSE trace
              /\ notes' = IF purge.step = "notes" THEN notes \ {c} ELSE notes
              /\ purge' = IF purge.step = "notes"
                          THEN [purge EXCEPT !.step = "words", !.todo = Tail(@)]
                          ELSE [purge EXCEPT !.step = FollowedBy[@]]
  /\ UNCHANGED <<rows, files, oldFiles, server, history>>

\* Its last step is the sweep.
PurgeEnds ==
  /\ purge.phase = "second" /\ purge.todo = <<>>
  /\ purge' = [NoPurge EXCEPT !.phase = "done"]
  /\ files' = files \ Orphans /\ oldFiles' = oldFiles \ Orphans
  /\ UNCHANGED <<rows, words, trace, notes, server, history>>

PurgeDies ==
  /\ purge.phase \in {"first", "second"}
  /\ purge' = NoPurge
  /\ UNCHANGED <<memory, server, history>>

ForgetNext ==
  \/ \E c \in Conversation :
       \/ TurnBegins(c) \/ ToolCalled(c) \/ TurnEnds(c) \/ Pause(c)
       \/ SessionDropped(c) \/ FileAges(c)
  \/ \E p \in Person : RoleChanges(p)
  \/ SweepTranscripts
  \/ PurgeStarts \/ FirstPass \/ SecondPassStarts \/ SecondPass \/ PurgeEnds \/ PurgeDies

ForgetSpec == ForgetInit /\ [][ForgetNext]_forgetVars
=============================================================================
