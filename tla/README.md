# Vitrina: specifications, checks and proofs

Vitrina is a WhatsApp sales assistant for a shop. One Node process (`server/src`) takes messages from customers
and owners, runs an agent turn over them, and sends the answer back. It keeps its state in SQLite, reads and
writes the store's catalog at Shopify, and has a console in which a human can take a conversation over. Other
agents can ask it questions over HTTP, and its own agents can ask each other. A Go process (`bridge/`) links it to
a WhatsApp account.

This directory models that program in TLA+, checks the models with TLC and proves their safety properties with
TLAPS. `PROJECT.json` lists components, runs, mutants, hazards, disagreements and theorems, and maps every
definition to the lines it stands for. Paths below are relative to `server/src` unless they start with `bridge/`.

- [1 The system](#1-the-system)
- [2 The modules](#2-the-modules)
- [3 What is checked](#3-what-is-checked)
- [4 What is proved](#4-what-is-proved)
- [5 Where code and comments disagree](#5-where-code-and-comments-disagree)
- [6 What is not modelled](#6-what-is-not-modelled)
- [7 Plan](#7-plan)

## 1 The system

### 1.1 Components

| Component | State | Operations | Hard behaviour | What makes it correct |
| --- | --- | --- | --- | --- |
| **Durable inbox and turn worker** `inbox/webhook.ts`, `inbox/batcher.ts`, `inbox/queue.ts`, inbox part of `data/repo.ts` | table `inbox` (status, attempts, id); in memory the burst timers, retry timers, a FIFO of jobs per conversation, the running job | webhook insert, schedule, flush, retry, claim, run, settle, give up, replay at boot | crashes between any two steps, retries that absorb new rows, timers that yield to each other, refused statements | nothing accepted is lost; arrival order; one job per conversation; a bounded number of prompts; settled is final |
| **Agent door** `inbox/a2a.ts`, `egress/agent-reply.ts`, `inbox/agents-port.ts`, `tools/packs/agents.ts` | one parked caller per conversation with its timer; the request's inbox row and hop | admit, park, insert, run at once, deliver, post to a callback, time out, fail, release | late answers, retries after the caller left, turns that wait on turns | nobody gets somebody else's answer; a 502 is true; every caller hears back; chains end |
| **Human handoff, leads, sessions** `admin/console.ts`, handoff, lead and session parts of `data/repo.ts`, `agent/runtime.ts`, `index.ts` | `conversation_handoff`, `leads`, `sessions` | pause, release, send a message, move a lead; the worker's look at the pause, session read and write, delivery | the worker reads the pause once and then awaits for seconds or minutes; several leads and hand pauses share one row | a human and the agent do not talk over each other; nobody is left with neither; a handoff is not forgotten |
| **Burst window** `inbox/batcher.ts` | silence and cap timers of a phone | open, extend, upgrade to the media window, close | the cap against the silence window, text against media | a burst closes in bounded time and is not split |
| **Inbound media and voice notes** `inbox/batcher.ts`, `whatsapp/media.ts`, `agent/transcribe.ts`, `bridge/inbound.go` | files on disk, `pending_media`, `media_ref` and `audio_path` of a row | stage, fetch, transcribe, attach, drop, sweep | a crash between the file and the row; a retry after a partial fetch | every photo is staged once, in order, and keeps its file until it is fetched; only photos that landed are marked |
| **WhatsApp bridge** `bridge/outbox.go`, `bridge/delivery.go` | a table of queued events | append, deliver the head, delete or discard it | lost acknowledgements, restarts, a head that is never accepted | what was queued is never lost, and bursts keep their order |
| **Admin access** `data/admin-*.ts`, `admin/deep-link.ts`, `admin/link-request.ts` | sessions, deep links, roster | issue, claim, use, expire, revoke | two claims of one link, expiry between check and use | a link opens one session; no use extends the reach |
| **Catalog cache and Shopify client** `shopify/cache.ts`, `shopify/client.ts` | cached catalog, the fill in flight, the token and its refresh | read, fill, invalidate, refresh, retry on 401 and 429 | an invalidation during a fill | a read after a write sees the write, but for a fill in flight; concurrent requests share a mint |
| **Catalog tools** `tools/packs/catalog.ts`, `shopify/catalog.ts` | the store's | update a product in several calls, upload photos, adjust stock | one call of several fails; a replayed turn | a retry does not apply a stock change twice |
| **Rate limiter, failure alert** `inbox/rate-limit.ts`, `inbox/alerts.ts` | sliding windows, a failure streak | check, record | the windows' edges | limits hold per window |
| **Housekeeping** `data/purge*.ts`, `data/transcripts.ts`, `data/backup.ts` | files, old rows | sweep, purge, back up | a purge beside a running server, and its death half-way | a purge that ends has forgotten what it could see |
| **Routing, roles** `router.ts`, `data/assignments.ts` | role of a phone | resolve, assign | a boot whose variable disagrees with the table | what was decided by hand stands |
| **Schema and migrations** `data/db.ts` | columns, the key of `sessions` | add, fill in, rebuild, on every open | two processes at once, a death or a roll-back between two statements | every row can be claimed, every session is carried over once |
| **Knowledge, prompts, scripts** | | | | see section 6 |

### 1.2 How they interact

```
 bridge/outbox --POST--> webhook --insert--> inbox rows <--insert-- agent door <--POST-- other agents
                            |                  |   ^                   |   ^
                         schedule           claim  settle         deliverNow |  ask_agent (a turn asks)
                            v                  v   |                   v   |
                        burst timers --flush--> queue per conversation --> turn (index.ts onMessage)
                        retry timers ---------->                            |  reads the pause once
                                                                            |  awaits the agent, stores the session
 console routes --> conversation_handoff, leads, sessions <-----------------+  awaits the transport
                --> sendText
```

Everything runs in one thread, so a stretch of code without an `await` is atomic, and interleaving happens at the
awaits: the webhook's release of a file, the fetch of media, the agent, a send, a callback, another agent's reply.
The models take each such stretch as one action, and SQLite calls are synchronous. That excludes interleaving, and not
a death or a refused statement between two commits of one stretch. Where that matters the stretch is two actions, or
an action has a second outcome (`ClaimThrows`, `WorkerThrows`, the `Torn` actions of `Handoff`, each step of `Forget` and of
`Upgrade`).

## 2 The modules

| Module | What it is |
| --- | --- |
| `InboxBatcher` | inbox rows, timers, queue and jobs, with crashes and refused statements |
| `InboxPromise` | the abstract inbox: what was accepted is settled, in whole batches, oldest first, in the end |
| `InboxProperties`, `InboxProofs`, `MCInboxBatcher` | its properties, proofs and instances |
| `AgentDoor` | calls, parked callers, callbacks, chains of agents asking agents |
| `ExchangePromise` | the abstract door: one exchange of a conversation after the other, one true word to each caller |
| `AgentDoorProperties`, `AgentDoorProofs`, `MCAgentDoor` | its properties, proofs and instances |
| `Handoff` | pauses, leads and sessions against the attempts of the worker, and requests that end half-way |
| `HandoffProperties`, `HandoffProofs`, `MCHandoff` | its properties, proofs and instances |
| `Intake`, `IntakeProperties`, `IntakeProofs` | a message and its file from WhatsApp over the bridge's outbox or Meta's posts to the row, the turn and the upload |
| `IntakePromise`, `IntakePromiseProofs` | the promise of the inbox with a line in front of it, and the proof that `Intake` keeps it |
| `Catalog`, `CatalogProperties` | the writing tools as programs of mutations, the keys of stock movements, the snapshots of searches |
| `ShopifyClient`, `ShopifyClientProperties` | the token that all requests to Shopify share |
| `ShopifyProofs` | the proofs of `Catalog` and `ShopifyClient` |
| `Access`, `AccessProperties` | the table of roles, and sessions, links and roster tokens over time |
| `Forget`, `ForgetProperties` | the purge and the transcript sweep beside a running server |
| `Upgrade`, `UpgradeProperties` | bringing an older database forward |
| `DataProofs` | the proofs of `Access`, `Forget` and `Upgrade`, all of them about `data/` |
| `MCServices` | these six side by side, with the properties of each module as they stand there; `MCIntake` is `Intake` alone |
| `ServicesProofs` | what is proved of each of the six, carried over to all of them together |

Operators called a *mutant* or a *faulty variant* in a comment stand before the definition they vary. They are not used by the
specification. Each is a mistake the code could have made; `PROJECT.json` "mutants" names the property that fails
when the definition is replaced by it.

### 2.1 InboxBatcher

| Variable | In the code |
| --- | --- |
| `status`, `attempts`, `rowId`, `lastId` | columns of the `inbox` table and its AUTOINCREMENT counter; they survive a crash |
| `posting` | webhook handlers that inserted a row and await `releaseMedia` |
| `burst`, `retry` | keys of `InboxBatcher.timers` and `.retries` |
| `queued`, `phase`, `claimed` | jobs waiting on the conversation's queue; where `processBatch` is; the rows it claimed |
| `turnKey`, `runs` | history: the last turn key, and how many prompts each message was in |
| `up`, `crashes`, `dbFaults` | whether the process runs, and the bounded faults |

A message is identified by its dedupe key, so `Post` of a message already seen is the redelivery that the unique
key absorbs. One burst timer stands for the silence and the cap timer. `AskAgent` is everything from the media to
the call of `onMessage`; `TurnSucceeds`, `TurnFails` and `TurnFailsFinally` are what comes after it. Three details
carry weight and are kept as the code has them: the claim takes `pending` and `processing` rows alike; a retry
timer that fires during an open burst does nothing; jobs whose rows an earlier job took claim nothing.
`ClaimThrows` and `WorkerThrows` are the statements of the worker outside its `try`, or inside its `catch`.

### 2.2 AgentDoor

| Variable | In the code |
| --- | --- |
| `call` | what the caller of each request knows: the HTTP status, or the result of `ask_agent` |
| `waiter` | `AgentReplies.waiters`: who is parked on each conversation key |
| `row`, `attempts`, `hop` | columns of the `inbox` table |
| `due` | conversations with a job queued or a retry timer armed |
| `phase`, `asked` | the running job and the rows of its turn |
| `answer`, `posted` | history: the rows of the turn whose reply a caller was given; replies that reached their callback |

The module keeps of the worker only what a caller can notice; `InboxBatcher` has the rest. Three things look like
details and decide the outcome. A caller that was resolved still awaits the job it started, so it can be answered
with an error after its reply exists (`Return`, `FailThrows`). The busy check looks at the parked caller *and* at
the table, because after a timeout the row is still in play. A turn that asks another agent waits inside its own
job (`Deliver` has to wait until no call it made is open), so a chain of turns holds a chain of queues.

`ExchangePromise` is what is left without the machinery. A request is admitted when no other of its conversation is in play
and its message was not heard before; its reply is handed over once; its caller is told one thing (the reply, a failure, or
nothing) once; it is done only with its reply handed over or its caller gone. `AgentDoor` maps to it by `row` and `call`
(`ExchangeOf`), by `answer` and `posted` (the replies handed over) and by `call` again (`ToldTo`): a caller that was resolved but has not
returned was told nothing yet, and a crash or a refused statement can still keep it from hearing.

### 2.3 Handoff

| Variable | In the code |
| --- | --- |
| `live`, `pauses` | the unreleased rows of `conversation_handoff` by cause (`lead_id`, or none for a pause by hand); rows ever opened |
| `lead` | `leads.status` |
| `session` | the row of `sessions`: 0 for none, else the number of its transcript |
| `waiting`, `tries` | a batch waiting for an attempt; the largest `attempts` of its rows |
| `turn`, `since` | where the attempt is, from the claim to the settlement or the apology; the transcript the agent is asked in |
| `sending` | a console request that paused, and awaits `sendText` |
| `faults` | deaths, refused statements and lost answers of the transport, bounded |
| `spoken`, `sorry`, `mishaps` | history of the live handoff: replies and notices read, apologies read, faults |
| `byHand`, `freed`, `leftover`, `requeued` | history of what was asked for, and of requests that ended half-way |

What a transcript *remembers* is abstracted to one number, which is what the properties tell apart: the handoffs over when
it began, plus one. A turn that resumes a transcript adds to it and leaves its number. `live` is a sequence so that a
second live row could exist; that there is never one is a property.

A batch is claimed until its attempts are spent. The attempt after that (`Abandon`, after deaths that spent the budget) and
the last failure (`FailForGood`) end in an apology that does not look at the pause; every other start does. A reply is
read in one step (`Deliver`) and its rows are settled in another (`Settle`), so a death, a refused `markInboxBatchDone` or
an answer lost on the way back (`SettleFails`) makes a later attempt speak again where nothing stops it.

A request of the console that writes twice commits twice: the rows of a handoff and then the session, or a lead's status
and then its conversation's handoff. `TornRelease`, `TornTake` and `TornHandBack` are such a request that ends between the
two, by a refused statement or, followed by `Crash`, a death; so `ReleaseRoute` repeated after one closes nothing and
drops no session, and a hand-back repeated is no hand-back.

### 2.4 Intake

| Variable | In the code |
| --- | --- |
| `transport`, `content` | the deployment's `WHATSAPP_PROVIDER`; what each message is |
| `seen`, `handling`, `staged` | messages whatsmeow gave the bridge; the event in `Handle`; files on the staging volume |
| `outbox`, `posted`, `late` | the bridge's table; the one POST of the head; events whose POST timed out and may still be handled |
| `inbox`, `row` | rows of the server in the order of their ids, with `media_ref`, `audio_path` and words |
| `worker` | the batch and where `resolveMedia`, `resolveAudio` and the turn are in it |
| `audioFiles`, `pendingMedia`, `landed` | voice notes on disk; the ledger of photos; photos at the store |
| `queued`, `swept`, `fetched` | history |

The handler, the dispatcher, the webhook, the worker and the two sweeps interleave, and either process may die between
any two of their steps. A POST has three ends: an answer, a refusal that discards the event, or a time-out, after
which the server may still handle it. The order of photos is that of `listPendingMedia`: Meta's time stamp
where there is one, and the order of the table where not. The two lists a statement with ORDER BY returns
(`Unsettled`, `PendingPhotos`) are `InOrder`, the list of the set's elements that is sorted: the prover has no definition
of the library's `SortSeq`.

`IntakePromise` puts a line in front of `InboxPromise`: a message joins it once, the first of it becomes a row, or leaves if
the server can never make one of it; with the Cloud API there is no line and any message may become a row, once. The line is
the outbox without a head whose row is already there (`InLine`): its answer was lost, or its POST was handled after the
time-out, and what is still to be done is to forget it. `Stage` reads an unsettled row as owed and a settled one as done.

### 2.5 Catalog and ShopifyClient

A tool is a sequence of mutations at Shopify (`Programs`). Each takes effect and is answered in two steps, its answer
can be lost, and the client then sends it again; the tool, the turn or the process can stop between any two. The store is
one product (its status, whether it is published, and what the model was told) and a count of changes; a snapshot is
the count its first page saw. Stock is not counted: what matters is how often a movement was done against how often one
attempt asked for it. `ShopifyClient` has the token alone: `request` and `holding` are what each `request` does and
which token it sent, `cached`, `fresh` and `minting` the fields of the client, `ended` the tokens Shopify no longer takes.

### 2.6 Access, Forget and Upgrade

`Access` has a clock in ticks, the tables `assignments`, `test_roster`, `admin_sessions` and `admin_deep_links`, and
`asked`, where the word "panel" is on its way. A session keeps where it came from (`root`, `link`), which is history.
`Forget` has one set of conversations for each table or directory that holds something of them, the turns in flight, and the
program counter of the purge. `Upgrade` has the columns that exist, each inbox row's envelope, the key and the rows of
`sessions`, and one program counter for each process that has the database open. The twenty columns of `migrate`
are two. The older build is external: it writes rows without envelope and sessions by phone, and runs by itself.

### 2.7 MCServices

The six services share no state: what one writes another only sees through the inbox, the store or a restart, and each
module has its own view of these as actions. So one behaviour of `MCServices` follows one of them (`part`) while the
others stay as they start. The state space is the sum of the six and not their product, and no interleaving inside a
component is lost. That none between components is lost either is proved (`AllKeepTheirPromises`, section 4).

## 3 What is checked

Every property of a passing run has a mutant that violates it under that run's own configuration.

| Run | Instance | Properties |
| --- | --- | --- |
| `inbox_phone` | one phone, 3 messages (one with a file to drop, one without words), 3 attempts, 2 crashes, 1 refused statement | `TypeOK`, `NoRowStrandedByDesign`, `SettledInOrder`, `AttemptBudget`, `DoneWasRead`, `FailureHasCause`, `TurnKeyIsStable` |
| `inbox_doors` | a phone and an agent conversation with 2 exchanges, 3 attempts, 2 crashes, 1 refused statement | `ExchangeAlone`, `TurnOwnsItsRows`, `KeepsPromise` |
| `inbox_live` | 2 messages of a phone, 1 exchange, 2 attempts, 1 crash | `EveryMessageSettles`, `KeepsPromiseLive` |
| `inbox_db_fault` | one message, one refused statement | `NoRowStranded` is violated, see 5 |
| `agent_door` | 2 callers and a callback that repeats the message of one, on one key; 3 attempts, 2 restarts, 1 refused statement | `TypeOK`, `AnswerIsOwn`, `ParkedIsOwed`, `OneExchangeAtATime` |
| `agent_door_chain` | a chain of 3 agents, hop cap 2, 1 restart, 1 refused statement | `ChainsAreBounded`, `EveryCallReturns`, `TurnsEnd` |
| `handoff` | one customer, 2 leads that ask for the same thing, 1 admin, 3 attempts, 2 pauses, 2 faults | `TypeOK`, `OneLiveHandoff`, `AgentFallsSilent`, `SessionForgetsHandoff`, `HeldLeadKeepsSilence`, `HandBackStrandsNobody`, `PauseByHandStands` |
| `handoff_voices`, `handoff_session`, `handoff_by_hand` | one customer, one lead, one admin | one property each is violated, see 5 |
| `services` | two messages of three mixes with either transport and 1 crash; one turn of 2 attempts with 2 calls each, 2 sends, 3 changes; 2 requests, 2 attempts, 3 tokens; an owner, 4 ticks, 2 sessions, a link, 1 restart; one phone with two conversations; 3 opens by 2 processes, with and without a resolver | `ServicesTypeOK`; `QueuedIsNeverLost`, `PhotosListedAsSent`, `PhotoStagedOnce`, `WaitingRowKeepsItsFile`, `FollowedInOrder`; `StaleOnlyByRace`, `StockMovedOnce`, `ActiveIsVisibleOrTold`; `MintsAreShared`; `OperatorsWordStands`, `ReachIsBounded`; `ForgottenWhole`; `UpgradeKeepsEverything` |
| `photo_marks` | the messages of `services` | `OnlyLandedAreMarked` is violated, see 5 |

### 3.1 Why these bounds

*Attempts* are the code's own three in the safety runs of the inbox, the door and the handoff, so that a budget spent by crashes, by failures and
by both is reached; two are enough to have a first and a last one elsewhere. *Crashes*: one, on the
last attempt, leads to the branch that gives a batch up unread; two let a replayed batch die again. *Messages*:
with three a batch can be in a turn, have one message join its retry, and one arrive after. *Pauses*: two make a
session older than the last pause possible. *Faults* of the handoff, two: one tears a request or loses a settlement, and the other
hits what is done about it; with three attempts a budget is spent by deaths, by failures and by both. *Hops*: a cap of two with three agents is the shortest chain in which
a middle agent both is asked and asks, and the third call must be refused. One refused statement strands a row;
more only strand more.

In `services`: *two messages* are enough for one to overtake another, for a photo to fail beside one that lands, and for an
event to block the one behind it; *one crash* falls between every two steps. *Two attempts with two calls* let a
retry call other tools than the first, or the same in another order; *two sends* lose one answer; *three changes* leave room for a
write, its repetition and somebody else's. *Three tokens* are one that ends, its successor, and one too many. *Four ticks* outlast
every deadline together and the sweep. *Three opens* are two processes at once and a boot after both. The proofs of section 4 do not depend on any of these.

Deadlock is not checked: a process with nothing to do may stop, and so may every bounded instance.

### 3.2 Fairness

`inbox_live` assumes that Node fires a due timer and resumes what awaited; that the queue runs the next job; that
the host restarts a dead process; and that **an agent turn ends**. The last is an assumption on the environment:
`runAgentTurn` sets no timeout on the agent process, and one that hangs blocks its conversation for ever. Nothing
is assumed of senders. A burst does close under weak fairness of `Flush`, however long its sender keeps talking,
because the cap timer is measured from the
burst's first message, and moved at most once, when media joins.

`agent_door_chain` assumes less of turns: `Deliver`, the end of a turn, is fair only once every call that turn made
is over. So that turns end is a consequence of the wait's timer and of the order of the chain, not an assumption.
No fairness is given to restarts, and refused statements are allowed: a caller hears back although its row is
stuck.

### 3.3 What the runs show

- **Inbox.** Every accepted message is settled; in order of arrival within its conversation; after at most three
  prompts; as done only if it was read; as failed only if it, or an older message in its batch, exhausted its
  budget. A retried turn keeps its turn key however many messages join. The burst, retry and replay timers leave
  no gap as long as SQLite refuses nothing. The implementation refines the abstract promise, with liveness.
- **Agent door.** A reply reaches only the caller whose message it answers, through timeouts, retries and restarts.
  504 and 502 mean what the door documents. No row is done with its reply nowhere, unless its caller had left. With all its
  machinery the door comes to exchanges that follow one another, each of which tells its caller one thing (`OneExchangeAtATime`).
  One remark that no property states: after a 504 a late answer of a synchronous call is produced, and paid for,
  but has nowhere to go; the caller can only ask again under a new correlation.
- **Handoff.** In a handoff the customer reads at most one answer of the agent, that of the attempt in flight. Apologies look
  at no pause, so a replay that gives a batch up does speak; all the customer reads of the agent is one message, and one
  more for each fault since. A conversation that was released holds no transcript from before, unless its release was torn or
  found the agent being asked. A pause set by hand is not undone by leads. While a lead is held the agent is silent, unless
  somebody asked for the release, or the lead was taken by a request that never came to pause. A pause that a lead
  caused does not outlive the leads, *except* after a closed lead was put back in the queue (no
  transition from closed releases) and after a torn hand-back. The exceptions are in the properties (`mishaps`, `leftover`, `freed`,
  `requeued`) and are worth a look by whoever owns the console: one transaction around the two writes removes all of
  those that a fault makes.
- **Intake.** What the bridge made durable becomes a row, unless it never could be one. Photos are listed in the order they were
  sent through lost answers, late handling and replays, and staged once, but for a crash at one place with the Cloud API, whose
  files can be fetched twice. A redelivery does not take the file of a row that waits for it.
  At-least-once posts and rows made once come to rows made once and in the order of the queue, settled oldest first (`OnceInOrder`, which `services` checks as `FollowedInOrder`: of the behaviours that
  follow the intake).
- **Catalog, ShopifyClient.** A retried turn moves stock no more often than one of its attempts asked for, whatever else it
  called. A search is stale after a write only by a fill that was under way: that one is kept for its whole TTL. A product that
  a tool made ACTIVE is visible, or the model was told, but for three cases the property names: the call was cut short,
  it had resolved the product while it was still ACTIVE, or it is still at it. Requests share a mint.
- **Access.** What was set by hand outlasts restarts with any value of the variable. A session ends at a time fixed by its issue,
  or by its link's, however it is used; a link opens one.
- **Forget.** A purge that ends has forgotten every conversation it could see when it began and nobody wrote to since. What a
  purge that died in its second pass had left without words is not among these: no later one finds it.
- **Upgrade.** Columns, rows and sessions come through any two processes that open the database at once, deaths between
  statements, and a return to the older build. A process that loses the race for a column fails to open and has to be started
  again. A *server* started without its `.env` files an owner's session with the customers' agent; a command refuses to. A process
  that passes no resolver drops the sessions of the older build, all of them and nobody else's (`dropped`).

## 4 What is proved

For every set of conversations, messages, requests, leads and admins, every assignment between them, and every
bound. The assumptions are those the modules name: `InboxAssumption`, `AgentDoorAssumption`, `HandoffAssumption`,
`IntakeAssumption`, `CatalogAssumption`, `ShopifyClientAssumption`, `AccessAssumption`, `ForgetAssumption`,
`UpgradeAssumption`. They type the constants, and `ForgetAssumption` takes finitely
many conversations; TLC evaluates them in every run. Each module of proofs shows first that
its inductive invariant holds, with one lemma for each action; every other theorem follows from it.

**InboxProofs.** `IInv` has thirteen parts. The order property `SettledInOrder` is not inductive: a job settles
what it claimed, and nothing in it says an older row was not left out. `ClaimsAreOldest` says that (a row a turn
does not hold is younger than all it holds), and itself needs `RowIds` (ids are distinct and bounded by the
counter) and `TurnOwnsItsRows`. `AttemptBudget` is about prompts and follows from `RunsAreClaims`: each prompt was
paid for by a claim. `FailureHasCause` needs `OlderTriedMore`, the fact that claims take whole conversations, so
an older row was claimed at least as often. `TurnKeyIsStable` rests on `KeyIsOldest`, `ExchangeAlone` on
`OneExchange`. The proof of the refinement (`InboxKeepsPromise`) maps each job's settlement to `Settle` with the
claimed rows as the batch, `Post` and `AgentPost` to `Accept`, and all else to a stutter.

**AgentDoorProofs.** A conversation has at most one exchange in play (`OneExchangePerKey`), and a turn reads claimed
rows (`TurnsReadClaimedRows`); with `ParkedIsOwed` this gives the lemma `TurnIsOfTheParked`, that the turn of a
conversation with a parked caller reads that caller's message alone, and the rest follows from it.
`CallersAreAccounted` and `RepliesAreSpent` carry `DoneWasAnswered` from the delivery to the settlement.
`ChainsAreBounded` would need an induction over the chain; it is proved by an invariant instead
(`HopsCoverTheChain`): the call in position *i* of a chain has taken at least *i* hops. Each call is made once, by a
turn whose own row was seen, so the step of the induction is a step of the system.

**HandoffProofs.** `AgentFallsSilent` bounds what was said, and an attempt is about to say more. `AnswersOnce`: who has read an
answer has it from an attempt that is past delivering, and no later one starts. `WordsArePaidFor`: while something may
yet be read without another fault (`MaySpeak`: an attempt that has not settled its rows, or a batch with its attempts
spent) there is a fault left over for it. Both speak of a live handoff, and `CountsAreOfThePause` starts the next one at
zero. `GivenUpIsForgotten` keeps an apology from being followed by a second one for the same rows.
`SessionForgetsHandoff` is about what is stored, and what the agent is being asked in is stored later: `AttemptIsCurrent`.
`PauseByHandStands` needs `ByHandIsWanted`. `HeldLeadSilences` and `NobodyStranded` are inductive.

**ShopifyProofs.** Of the client, `MintsAreShared`, for any number of requests: a mint throws no good token away because it was
needed when it began (`MintIsNeeded`), which lasts since every token but the cached one is over (`OnlyTheCachedIsGood`) and no other
mint begins meanwhile. `NoWaiterIsLost`: who waits has a mint to wait for, through failures of it. Of the catalog, three
properties. `StockMovedOnce` compares two counts that no single step relates. `MovesHaveKeys` makes the first a cardinality (what the
store moved for a turn is how many of its keys the store has seen), `KeysAreDrawn` bounds those keys by the most
movements one attempt asked for, and the two counts meet there. `StaleOnlyByRace` needs `FillsKnow`: a fill that has read and is older than
a write the tool was told of, is marked as raced before it can be kept. `ActiveIsVisibleOrTold` is about a call that ends, and needs
`SomeonePublishes`, which follows the call from the mutation that makes the product ACTIVE to the one that publishes it. That one rests
on `CallsFit`: the steps a call has left belong to its tool.

**DataProofs, of Access.** `OperatorsWordStands` is inductive as it is. `ReachIsBounded` compares the clock with where a live session
came from, and nothing in it bounds the deadline that the clock has yet to reach. `DeadlinesAreBounded` does: a session is
claimed before its first deadline, and claiming moves that once. `LinksAreSpent` says that a link some session came from is marked as used, so a second
one cannot come from it.

**DataProofs, of Forget.** `ForgottenWhole` is about a purge that has ended. `Foreseen` says it of one that is under way: a conversation that is due
and undisturbed is still on the list, or (before the second pass draws up its list) has words and no row, which is what that
pass looks for, or is clean. `HeadProgress` does the same for the statements of the one at hand. `DueAreCustomers` is needed since a
role may change meanwhile: the purge goes by the roles it read when it began.

**IntakeProofs.** `QueuedIsNeverLost` needs `HeadIsAnswered`, which ties the answer of a POST to the head it was about: an event is deleted
when there is a row for it, or when it could never be one. `WaitingRowKeepsItsFile` is about rows and has to be said of
events as well (`FilesOnTheWay`), from the handler through the outbox to a POST that the bridge gave up on. `PhotoStagedOnce` has one
argument for each transport. With the bridge a file is read once, and the photo is in the ledger only after that (`ReadOnce`). With the Cloud
API a file can be read again, and `CopiesAreCounted` accounts for each copy by a crash, but for one more once the row has let go of the file.

`PhotosListedAsSent` has an invariant of its own, `OrderIInv`, on top of that one, since the order is settled in three places. The
outbox holds each event once and in order, it is what is left of all that was queued, and an event that arrives late was once
its head (`QueuedOnce`, `OutboxIsTheRest`, `LateWereHeads`); so a new row is always of
an event behind those of all rows so far (`RowsFollowTheQueue`). The worker takes the files of its batch in the order of the rows, and a row it has passed has no
file left (`FilesInOrder`, `NoneLeftBehind`). So the ids of the ledger follow the arrivals (`StagedInOrder`, `NobodyOvertaken`).
That a finite set has a sorted list needs no induction: `SortedListExists` puts each element where the number of those up to it
says. With it `IntakeTypeCorrect` types the worker's lists too.

**DataProofs, of Upgrade.** `NothingIsLost`, for any people, rows and number of processes. A process past the backfill finds no row to fill in
(`FilledInAhead`), since the older build writes only where no process is at work and this one writes envelopes. Until the table is
rebuilt its rows are the older build's, one for each person (`LegacyTable`); the rebuild maps them one to one, or to nothing, and afterwards the
row of a person nobody answered yet is still the older build's (`LegacySessions`), or there is none. `VariableIsSeen` ties what a server was
started with to whether an owner's session may be misfiled.

**IntakePromiseProofs.** `OnceInOrder`, step by step. A row that a POST makes is the head's and is new (`NewRowIsTheHead`), whether
its answer comes, is lost, or comes late: a late event was a head once, and the dedupe key absorbs every older one. When the
head of the outbox has its row, the next one has none (`NextHasNoRow`), so that forgetting the head changes nothing that
can be seen. Settlement needs more than the two invariants of `IntakeProofs`: `SettlesOldest` (what the worker has in hand is not settled and
nothing older is left out) makes its batch one that the promise may settle, and `NoLineInTheCloud` keeps the transports apart. With
`IntakeKeepsInboxPromise` the rows of `Intake` keep `InboxPromise`, which those of `InboxBatcher` keep: the outbox's at-least-once and the
insert's at-most-once meet in one abstract inbox.

**AgentDoorProofs, the refinement.** `ExchangesKeepOrder` adds `CallsFit` to the door's invariant: what a caller knows fits its row, its
reply and the way it asked. `TurnIsOfOne` and `OneRowInPlay` turn statements over sets of rows (a claim, a settlement, a failure) into
steps of one exchange. A reply that is delivered while its caller waits is handed over; one that comes after is not seen.

**ServicesProofs.** No step of one service touches the state of another (`EachStepsOnItsOwn`), so a behaviour of `MCServices` is one of
each of the six (`EachIsItself`). That carries the theorems of all of them over to the composition: its types (`ServicesTypeCorrect`,
for which one more invariant says which component is followed), its twelve other invariants and `OnceInOrder`, or `FollowedInOrder`. `AllKeepTheirPromises`
says the same of the six running at once, with their steps interleaved in any way: it is what lets TLC follow one at a time.

Three properties are proved and not run by themselves, since a refinement says as much: `SettledIsFinal` (`SettlingIsFinal`;
`KeepsPromise`), and `FailedMeansFailed` and `DoneWasAnswered` (`FailuresAreFinal`, `NoAnswerIsLost`; `OneExchangeAtATime`).

Only model-checked, and why: the liveness properties `EveryMessageSettles`, `KeepsPromiseLive`, `EveryCallReturns` and `TurnsEnd`.
Liveness under fairness, and the ENABLED it stands on, are beyond this prover. Every safety property of a passing run is
proved, for all values of the constants.

## 5 Where code and comments disagree

| Run | What the text says | What the code does |
| --- | --- | --- |
| `inbox_db_fault` | `batcher.ts:634-636`: `processBatch` never throws; a failed attempt returns the rows to pending and arms a retry | the claim and the settling statements are outside the `try`, or in its `catch`; when SQLite refuses one, the queue's tail swallows the rejection and the rows wait for the next restart |
| `handoff_voices` | `console.ts:59-63`: the pause comes before the message, so there is no window in which two voices answer | an attempt in flight does not look at the pause again and delivers its reply meanwhile |
| `handoff_session` | `console.ts:492-499`: a release drops the session, so the agent does not resume a transcript from before the handoff | an attempt in flight stores its session after the release dropped it |
| `handoff_by_hand` | `console.ts:707-709`: a lead must not undo a pause an admin set by hand | an admin's pause over a lead's live pause is not recorded, and handing the lead back releases it |
| `photo_marks` | `tools/packs/media.ts:46-48`: only the photos that landed are marked, so a partial failure leaves the rest claimable | the first *n* rows are marked where *n* photos landed; when an early one fails and a later one lands, the failed one is marked and never offered again, and the other is uploaded twice |

Noted on the way, without a run: the refusal of `update_product` over a SKU already taken says that nothing was changed
(`tools/packs/catalog.ts:658`), though the product's own fields were updated before it (643). Further, the comment at `console.ts:530-541` says that the message route is refused unless
the conversation is paused, while the route pauses it itself (559-583). `a2a.ts:271-274` says that the row is done
before the caller is told; that holds for the first attempt only, since a caller answered by a retry awaits a job
that is long over.

Three more were met in the handoff and the upgrade. `index.ts:627` says of a conversation a human has that the agent says
nothing at all: the apology of a batch given up does not come by that line (`batcher.ts:693-711`, `index.ts:728-764`).
`console.ts:516-518` says that a release that closed nothing means the conversation was never paused: after a release
torn between 514 and 522 it means that the session is still to be dropped, and is not. `db.ts:21-28` says that
the backup and the purge tool pass no resolver, and so drop the sessions of an older build: the purge passes one
(`data/purge-sessions.ts:50`), as does every command that calls `openDb`, and the backup opens the file read-only and runs
no migration (`data/backup.ts:37`). What is left of the comment are the tests (`server/test/sessions-migration.test.ts:103`
pins the drop); `Upgrade` keeps the branch for whoever comes to use it.

## 6 What is not modelled

- **Time.** Timers fire when due; how long the burst's windows are, is not modelled. `received_at`, by which a claim is
  ordered, is the wall clock: the models order rows by id and so assume that it does not step back. The rate limiter and the
  failure alert are windows over that clock, in memory, and are left out. `Access` has a clock of its own.
- **A graceful stop** drops the same timers as a crash and is covered by it.
- **The branch for rows without a target agent** (`batcher.ts:663-674`): no door writes such rows.
- **Replies said twice.** A crash between a delivery and the settlement of its rows makes the replay answer again.
  The design accepts it (at least once). In a handoff `AgentFallsSilent` bounds it; elsewhere no property does.
- **Apologies** after a final failure are best effort, and lost by a crash at the wrong moment. `Handoff` counts those that are read.
- **Echo mode, the admin-link intercept and the alerts to owners** in `index.ts` write to a person without a look at the pause.
  None is the agent's word in a customer's conversation: the first replaces the agent for a whole deployment, the others go to staff.
- **The handoff's attempt** is claimed and looks at the pause in one step, though media is fetched in between: a pause set
  meanwhile is one set just before the claim, and a death there is a death after a claim. Batches without
  words are skipped, and leads without a conversation, which no transition reaches the handoff from, are not in its instance.
- **`InboxBatcher.AbandonBatch`** takes the claim (`batcher.ts:640`) and the settlement as failed (694) in one step. A death in
  between leaves the rows for another claim that finds the budget spent, the same step later.
- **The end of the dedupe.** `deleteStaleInboxRows` (`repo.ts:618`) drops done rows after seven days and failed ones after thirty; a message that a transport
  delivers again after that is a new one. The models keep the rows.
- **Files that cannot be removed or recorded.** `bridge.ts:125-131` swallows a failed `unlink` of a staged file, and a refused
  `clearInboxMedia` leaves the reference: the retry stages the photo again. `Intake` lets both succeed, or the process die.
- **A refused insert at the agent door.** `insertAgentInboxMessage` that throws is an HTTP 500 to a caller that was never admitted;
  its spot is freed in the same stretch of code (`a2a.ts:291`).
- **The agent, Shopify, WhatsApp and SQLite** are outside: an agent answers or fails, a send succeeds or fails, a
  statement takes effect or is refused.
- **Knowledge** is read-only, and **ranking** is a pure function of a snapshot. **Prompts**, parsing and formatting carry
  no state. **Scripts** and backups are run by hand.
- **Of the bridge** the pairing, the status page and the outbound send API; **of the Cloud API** templates and status posts.
- **Of the catalog** the fields of products, options, locations and amounts of stock. A compare-and-set that fails is a call that
  stops. When a create is sent again after a lost answer, the product followed is the second one: its first copy is left
  behind at the store. A token set by hand (`SHOPIFY_ACCESS_TOKEN`) is never minted, and a TTL of zero keeps no snapshot: both are the model with
  actions that never happen.
- **Of the credentials** the bytes, hashes and pages. Who was an owner when a lead was captured and no longer is when its link is made
  still gets the link; that is the link made by hand.
- **Of the purge** conversations between agents, which it leaves alone.
- **Of an upgrade** an older build that runs beside this one. Its rows, written after the backfill, wait for the next boot.
- **Credentials of the agent door** are one set of permitted conversations; its body validation is left out.

## 7 Plan

Built: the inbox, the agent door and the handoff, where messages, answers and conversations can be lost; the six services
around the turn; the promises of the inbox, of the way to it and of the door; and a proof of each safety property. Left:

1. `BurstWindow`: the silence, media and cap timers with a discrete clock; a burst closes within the cap. With it the rate limiter
   and the failure alert, whose hazards are at the edges of their windows.
2. `AgentDoor` and `InboxBatcher` in one module: the door's rows keep an order of arrival there too, so that both are shown to
   refine one abstract inbox, as `Intake` and `InboxBatcher` are.
3. Stock as an amount, with the compare-and-set of `set_to` against a sale at the counter.
