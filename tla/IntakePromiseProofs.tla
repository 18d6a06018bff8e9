------------------------ MODULE IntakePromiseProofs -------------------------
(***************************************************************************)
(* Intake implements IntakePromise: the outbox, its dispatcher, the late   *)
(* POSTs, the dedupe key and the worker's retried batches come to a line   *)
(* that is served in order, each message once, and to batches that are     *)
(* settled oldest first.                                                   *)
(***************************************************************************)
EXTENDS IntakeProofs

\* What the worker has in hand is not settled, and nothing older is left out.
SettlesOldest ==
  worker.phase # "idle" =>
    /\ worker.batch # <<>>
    /\ \A m \in ToSet(worker.batch) : ~row[m].settled
    /\ \A m \in ToSet(worker.batch), n \in ToSet(inbox) \ ToSet(worker.batch) :
         row[n].settled \/ ArrivedBefore(m, n)

\* The Cloud API has neither handler nor outbox.
NoLineInTheCloud ==
  transport = "cloud" => handling = NoEvent /\ outbox = <<>> /\ late = {}

LineIInv == IntakeIInv /\ OrderIInv /\ SettlesOldest /\ NoLineInTheCloud

-----------------------------------------------------------------------------
(* The places of rows.                                                        *)

LEMMA PlacesOfRows ==
  ASSUME LineIInv, NEW m \in ToSet(inbox)
  PROVE  PlaceIn(inbox, m) \in DOMAIN inbox /\ inbox[PlaceIn(inbox, m)] = m
<1>1. \E i \in DOMAIN inbox : inbox[i] = m
  BY DEF ToSet
<1>2. PlaceIn(inbox, m) = CHOOSE i \in DOMAIN inbox : inbox[i] = m
  BY DEF PlaceIn
<1>. QED
  BY <1>1, <1>2

LEMMA ArrivalIsByPlace ==
  ASSUME LineIInv, NEW m, NEW n, ArrivedBefore(m, n)
  PROVE  PlaceIn(inbox, m) < PlaceIn(inbox, n)
<1>1. PICK i \in DOMAIN inbox, j \in DOMAIN inbox : i < j /\ inbox[i] = m /\ inbox[j] = n
  BY DEF ArrivedBefore
<1>2. m \in ToSet(inbox) /\ n \in ToSet(inbox)
  BY <1>1 DEF ToSet
<1>3. PlaceIn(inbox, m) = i /\ PlaceIn(inbox, n) = j
  <2>1. \A k, l \in DOMAIN inbox : inbox[k] = inbox[l] => k = l
    BY DEF LineIInv, OrderIInv, QueueOrder, RowsFollowTheQueue
  <2>. QED
    BY <1>1, <1>2, <2>1, PlacesOfRows
<1>. QED
  BY <1>1, <1>3

\* A row that is added takes the next place, and no other moves.
LEMMA NewRowIsLast ==
  ASSUME LineIInv, NEW x \in Message, ~HasRow(x), inbox' = Append(inbox, x)
  PROVE  /\ Len(inbox') = Len(inbox) + 1
         /\ [m \in Message |-> PlaceIn(inbox, m)]'
              = [[m \in Message |-> PlaceIn(inbox, m)] EXCEPT ![x] = Len(inbox) + 1]
<1>1. /\ inbox \in Seq(Message) /\ Len(inbox) \in Nat /\ DOMAIN inbox = 1 .. Len(inbox)
      /\ \A k, l \in DOMAIN inbox : inbox[k] = inbox[l] => k = l
  BY QueueIsTyped DEF LineIInv, IntakeIInv, OrderIInv, QueueOrder, RowsFollowTheQueue
<1>2. /\ Len(inbox') = Len(inbox) + 1 /\ DOMAIN inbox' = 1 .. Len(inbox) + 1
      /\ \A i \in DOMAIN inbox : inbox'[i] = inbox[i]
      /\ inbox'[Len(inbox) + 1] = x
  <2>1. /\ Append(inbox, x) \in Seq(Message) /\ Len(Append(inbox, x)) = Len(inbox) + 1
        /\ \A i \in 1 .. Len(inbox) : Append(inbox, x)[i] = inbox[i]
        /\ Append(inbox, x)[Len(inbox) + 1] = x
    BY <1>1
  <2>. QED
    BY <1>1, <2>1, LenProperties
<1>3. ToSet(inbox') = ToSet(inbox) \cup {x}
  BY <1>1, WithOneMore
<1>4. \A k, l \in DOMAIN inbox' : inbox'[k] = inbox'[l] => k = l
  <2>1. \A k \in DOMAIN inbox : inbox[k] # x
    BY DEF HasRow, ToSet
  <2>2. \A k \in DOMAIN inbox' : k \in DOMAIN inbox \/ k = Len(inbox) + 1
    BY <1>1, <1>2
  <2>. QED
    BY <1>1, <1>2, <2>1, <2>2
<1>5. ASSUME NEW m \in Message
      PROVE  PlaceIn(inbox', m) = IF m = x THEN Len(inbox) + 1 ELSE PlaceIn(inbox, m)
  <2>1. CASE m \notin ToSet(inbox')
    BY <1>3, <2>1 DEF PlaceIn
  <2>2. CASE m \in ToSet(inbox')
    <3>1. PlaceIn(inbox', m) \in DOMAIN inbox' /\ inbox'[PlaceIn(inbox', m)] = m
      <4>1. \E i \in DOMAIN inbox' : inbox'[i] = m
        BY <2>2 DEF ToSet
      <4>. QED
        BY <2>2, <4>1 DEF PlaceIn
    <3>2. CASE m = x
      BY <1>2, <1>4, <3>1, <3>2, <1>1
    <3>3. CASE m # x
      <4>1. m \in ToSet(inbox)
        BY <1>3, <2>2, <3>3
      <4>2. PlaceIn(inbox, m) \in DOMAIN inbox /\ inbox[PlaceIn(inbox, m)] = m
        BY <4>1, PlacesOfRows
      <4>3. PlaceIn(inbox, m) \in DOMAIN inbox'
        BY <1>1, <1>2, <4>2
      <4>. QED
        BY <1>2, <1>4, <3>1, <3>3, <4>2, <4>3
    <3>. QED
      BY <3>2, <3>3
  <2>. QED
    BY <2>1, <2>2
<1>. QED
  BY <1>2, <1>5

-----------------------------------------------------------------------------
(* The two further parts of the invariant.                                    *)

LEMMA BatchStays ==
  ASSUME LineIInv, inbox' = inbox,
         \A m \in Message : row'[m].settled = row[m].settled,
         worker'.phase = "idle" \/ (worker.phase # "idle" /\ worker'.batch = worker.batch)
  PROVE  SettlesOldest'
<1>1. CASE worker'.phase = "idle"
  BY <1>1 DEF SettlesOldest
<1>2. CASE worker.phase # "idle" /\ worker'.batch = worker.batch
  <2>1. ToSet(inbox) \subseteq Message /\ ToSet(worker.batch) \subseteq Message
    BY SeqDef DEF LineIInv, IntakeIInv, IntakeTypes, OrderIInv, ListsAreTyped, ToSet
  <2>2. \A m, n : ArrivedBefore(m, n)' <=> ArrivedBefore(m, n)
    BY ArrivalStays
  <2>. QED
    BY <1>2, <2>1, <2>2 DEF SettlesOldest, LineIInv
<1>. QED
  BY <1>1, <1>2

LEMMA BatchStaysOldest ==
  ASSUME LineIInv, NEW e \in Event, Accept(e), worker' = worker
  PROVE  SettlesOldest'
<1>1. CASE UNCHANGED <<inbox, row, staged>>
  BY <1>1, BatchStays DEF SettlesOldest, LineIInv
<1>2. CASE WorthARow(e) /\ ~HasRow(e.msg) /\ inbox' = Append(inbox, e.msg)
  <2>1. inbox \in Seq(Message) /\ e.msg \in Message /\ row \in [Message -> RowType]
    BY DEF LineIInv, IntakeIInv, IntakeTypes, Event
  <2>2. /\ \A m, n : ArrivedBefore(m, n)' <=> ArrivedBefore(m, n) \/ (HasRow(m) /\ n = e.msg)
        /\ ToSet(inbox') = ToSet(inbox) \cup {e.msg}
    BY <1>2, <2>1, ArrivalGrows DEF LineIInv, OrderIInv, QueueOrder
  <2>3. \A m \in Message : HasRow(m) => row'[m] = row[m]
    BY AcceptsARow DEF LineIInv, IntakeIInv
  <2>4. ToSet(worker.batch) \subseteq ToSet(inbox)
    BY DEF LineIInv, OrderIInv, WorkOrder, BatchInHand
  <2>5. ToSet(inbox) \subseteq Message
    BY <2>1, LenProperties DEF ToSet
  <2>. QED
    BY <2>2, <2>3, <2>4, <2>5 DEF SettlesOldest, LineIInv, HasRow
<1>. QED
  BY <1>1, <1>2 DEF Accept

\* Between claiming and settling the worker keeps its batch, and settles nothing.
LEMMA WorkerOnItsBatch ==
  ASSUME LineIInv,
         \/ PassOver \/ Download \/ FileFails \/ Save \/ RecordAudio \/ RecordPhoto
         \/ ClearMedia \/ Transcribe \/ Unlink \/ UploadPhotos \/ MarkAttached
  PROVE  /\ inbox' = inbox /\ \A m \in Message : row'[m].settled = row[m].settled
         /\ worker.phase # "idle" /\ worker'.batch = worker.batch
         /\ UNCHANGED <<settings, bridgeVars>>
<1>. USE DEF LineIInv, IntakeIInv
<1>1. WorkerIsARecord /\ IntakeTypes
  BY DEF IntakeTypes
<1>2. ASSUME NEW phase, Advance(phase) \/ To(phase)
      PROVE  worker'.batch = worker.batch
  BY <1>1, <1>2, WorkerMoves
<1>3. CASE PassOver
  <2>1. worker'.batch = worker.batch
    BY <1>1, <1>2, <1>3 DEF PassOver, WorkerIsARecord
  <2>. QED
    BY <1>3, <2>1 DEF PassOver, AtWork
<1>4. CASE Download
  BY <1>2, <1>4 DEF Download, AtWork, Fetching
<1>5. CASE FileFails
  <2>1. \A m \in Message : row'[m].settled = row[m].settled
    BY <1>1, <1>5 DEF FileFails, GiveUpOnFile, IntakeTypes, RowType
  <2>. QED
    BY <1>2, <1>5, <2>1 DEF FileFails, AtWork, Fetching
<1>6. CASE Save
  BY <1>2, <1>6 DEF Save, AtWork
<1>7. CASE RecordAudio
  <2>1. \A m \in Message : row'[m].settled = row[m].settled
    BY <1>1, <1>7 DEF RecordAudio, IntakeTypes, RowType
  <2>. QED
    BY <1>2, <1>7, <2>1 DEF RecordAudio, AtWork
<1>8. CASE RecordPhoto
  BY <1>2, <1>8 DEF RecordPhoto, AtWork
<1>9. CASE ClearMedia
  <2>1. \A m \in Message : row'[m].settled = row[m].settled
    BY <1>1, <1>9 DEF ClearMedia, IntakeTypes, RowType
  <2>. QED
    BY <1>2, <1>9, <2>1 DEF ClearMedia, AtWork
<1>10. CASE Transcribe
  <2>1. \A m \in Message : row'[m].settled = row[m].settled
    BY <1>1, <1>10 DEF Transcribe, IntakeTypes, RowType
  <2>. QED
    BY <1>2, <1>10, <2>1 DEF Transcribe, AtWork
<1>11. CASE Unlink
  BY <1>2, <1>11 DEF Unlink, AtWork
<1>12. CASE UploadPhotos
  <2>1. worker'.batch = worker.batch
    BY <1>1, <1>12 DEF UploadPhotos, WorkerIsARecord
  <2>. QED
    BY <1>12, <2>1 DEF UploadPhotos, AtWork
<1>13. CASE MarkAttached
  <2>1. worker'.batch = worker.batch
    BY <1>1, <1>13 DEF MarkAttached, WorkerIsARecord
  <2>. QED
    BY <1>13, <2>1 DEF MarkAttached, AtWork
<1>. QED
  BY <1>3, <1>4, <1>5, <1>6, <1>7, <1>8, <1>9, <1>10, <1>11, <1>12, <1>13

LEMMA SettlesOldestStays ==
  ASSUME LineIInv, [IntakeNext]_intakeVars
  PROVE  SettlesOldest'
<1>. DEFINE Stays == /\ inbox' = inbox /\ \A m \in Message : row'[m].settled = row[m].settled
                     /\ worker'.phase = "idle"
                        \/ (worker.phase # "idle" /\ worker'.batch = worker.batch)
<1>1. Stays => SettlesOldest'
  BY BatchStays
<1>2. ASSUME inbox' = inbox, row' = row, worker' = worker PROVE SettlesOldest'
  BY <1>1, <1>2
<1>3. CASE \/ \E m \in Message : Handle(m)
           \/ Enqueue \/ Post \/ Settle \/ GiveUp \/ BridgeCrash \/ UNCHANGED intakeVars
  BY <1>2, <1>3 DEF Handle, Enqueue, Post, Settle, GiveUp, BridgeCrash, serverVars, intakeVars
<1>4. CASE SweepStaged \/ SweepPending
  BY <1>2, <1>4 DEF SweepStaged, SweepPending, serverVars
<1>5. CASE ServerCrash
  BY <1>1, <1>5 DEF ServerCrash, Idle
<1>6. CASE Webhook
  <2>1. worker' = worker
    BY <1>6 DEF Webhook, Unmoved
  <2>2. Head(outbox) \in Event
    BY <1>6, WithoutHead DEF Webhook, LineIInv, IntakeIInv, IntakeTypes, HeadIsAnswered
  <2>3. (UNCHANGED <<inbox, row>>) \/ Accept(Head(outbox))
    BY <1>6 DEF Webhook
  <2>. QED
    BY <1>2, <2>1, <2>2, <2>3, BatchStaysOldest
<1>7. CASE WebhookLate
  <2>1. PICK e \in late : (UNCHANGED <<inbox, row>>) \/ Accept(e)
    BY <1>7 DEF WebhookLate
  <2>2. worker' = worker /\ e \in Event
    BY <1>7 DEF WebhookLate, Unmoved, LineIInv, IntakeIInv, IntakeTypes
  <2>. QED
    BY <1>2, <2>1, <2>2, BatchStaysOldest
<1>8. ASSUME NEW m \in Message, MetaPosts(m) PROVE SettlesOldest'
  <2>1. worker' = worker /\ Accept(EventOf(m, TRUE)) /\ EventOf(m, TRUE) \in Event
    BY <1>8, EventsAreEvents DEF MetaPosts, Unmoved
  <2>. QED
    BY <2>1, BatchStaysOldest
<1>9. CASE Claim
  <2>1. /\ ToSet(Unsettled) = {m \in ToSet(inbox) : ~row[m].settled}
        /\ worker'.batch = Unsettled /\ Unsettled # <<>>
        /\ inbox' = inbox /\ row' = row
    BY <1>9, UnsettledIsListed
    DEF Claim, Idle, LineIInv, IntakeIInv, OrderIInv, QueueOrder
  <2>. QED
    BY <2>1 DEF SettlesOldest
<1>10. CASE \/ PassOver \/ Download \/ FileFails \/ Save \/ RecordAudio \/ RecordPhoto
            \/ ClearMedia \/ Transcribe \/ Unlink \/ UploadPhotos \/ MarkAttached
  BY <1>1, <1>10, WorkerOnItsBatch
<1>11. CASE BatchEnds
  BY <1>11 DEF BatchEnds, Idle, SettlesOldest
<1>. QED
  BY <1>3, <1>4, <1>5, <1>6, <1>7, <1>8, <1>9, <1>10, <1>11 DEF IntakeNext

LEMMA NoLineStays ==
  ASSUME LineIInv, [IntakeNext]_intakeVars
  PROVE  NoLineInTheCloud'
<1>. SUFFICES ASSUME transport' = "cloud"
              PROVE  handling' = NoEvent /\ outbox' = <<>> /\ late' = {}
  BY DEF NoLineInTheCloud
<1>1. ASSUME transport = "cloud"
      PROVE  handling = NoEvent /\ outbox = <<>> /\ late = {} /\ posted = "no"
  BY <1>1 DEF LineIInv, NoLineInTheCloud, IntakeIInv, HeadIsAnswered
<1>2. ASSUME UNCHANGED <<settings, bridgeVars>> PROVE handling' = NoEvent /\ outbox' = <<>> /\ late' = {}
  BY <1>1, <1>2 DEF settings, bridgeVars
<1>3. CASE \/ \E m \in Message : Handle(m)
           \/ Enqueue \/ Post \/ Settle \/ GiveUp
  BY <1>1, <1>3 DEF Handle, Enqueue, Post, Settle, GiveUp, settings
<1>4. CASE Webhook \/ WebhookLate \/ \E m \in Message : MetaPosts(m)
  BY <1>1, <1>4 DEF Webhook, WebhookLate, MetaPosts, Unmoved, settings
<1>5. CASE BridgeCrash \/ ServerCrash
  BY <1>1, <1>5 DEF BridgeCrash, ServerCrash, settings
<1>6. CASE Claim \/ BatchEnds \/ SweepStaged \/ SweepPending \/ UNCHANGED intakeVars
  BY <1>2, <1>6 DEF Claim, BatchEnds, SweepStaged, SweepPending, AtWork, intakeVars
<1>7. CASE \/ PassOver \/ Download \/ FileFails \/ Save \/ RecordAudio \/ RecordPhoto
           \/ ClearMedia \/ Transcribe \/ Unlink \/ UploadPhotos \/ MarkAttached
  BY <1>2, <1>7, WorkerOnItsBatch
<1>. QED
  BY <1>3, <1>4, <1>5, <1>6, <1>7 DEF IntakeNext

\* The invariant that the refinement needs holds in every reachable state.
THEOREM LineInvariant == IntakeSpec => []LineIInv
<1>1. IntakeInit => SettlesOldest /\ NoLineInTheCloud
  BY DEF IntakeInit, Idle, SettlesOldest, NoLineInTheCloud
<1>2. LineIInv /\ [IntakeNext]_intakeVars => SettlesOldest' /\ NoLineInTheCloud'
  BY SettlesOldestStays, NoLineStays
<1>3. (SettlesOldest /\ NoLineInTheCloud) /\ IntakeIInv /\ OrderIInv /\ [IntakeNext]_intakeVars
        => (SettlesOldest /\ NoLineInTheCloud)'
  BY <1>2 DEF LineIInv
<1>4. IntakeIInv /\ OrderIInv /\ SettlesOldest /\ NoLineInTheCloud => LineIInv
  BY DEF LineIInv
<1>. QED
  BY <1>1, <1>3, <1>4, IntakeInvariant, OrderInvariant, PTL DEF IntakeSpec

-----------------------------------------------------------------------------
(* The steps of the promise.                                                  *)

\* What leaves outbox, rows and settlements alone cannot be seen from outside.
LEMMA ViewStays ==
  ASSUME UNCHANGED <<settings, outbox, queued, inbox>>,
         \A m \in Message : row'[m].settled = row[m].settled
  PROVE  UNCHANGED Line!promiseVars
<1>1. InLine' = InLine /\ UNCHANGED Line!lineVars
  BY DEF Line!lineVars, InLine, HasRow, settings, Refused, WorthARow, HasText, HasFile,
         HasContentWithoutText
<1>2. UNCHANGED Line!vars
  <2>1. Stage' = Stage
    BY DEF Stage, HasRow
  <2>. QED
    BY <2>1 DEF Line!vars, PlaceIn
<1>. QED
  BY <1>1, <1>2 DEF Line!promiseVars

\* The same, where only the line may move.
LEMMA InboxStays ==
  ASSUME UNCHANGED <<settings, inbox, row>>
  PROVE  /\ UNCHANGED Line!vars
         /\ UNCHANGED transport
         /\ {e \in Event : ~Refused(e) /\ WorthARow(e)}'
              = {e \in Event : ~Refused(e) /\ WorthARow(e)}
<1>1. Stage' = Stage
  BY DEF Stage, HasRow
<1>. QED
  BY <1>1 DEF Line!vars, PlaceIn, settings, Refused, WorthARow, HasText, HasFile,
         HasContentWithoutText

LEMMA EnqueueJoins == ASSUME LineIInv, Enqueue PROVE Line!LineNext \/ UNCHANGED Line!promiseVars
<1>. USE DEF LineIInv
<1>1. /\ handling # NoEvent /\ UNCHANGED <<settings, inbox, row>>
      /\ \/ outbox' = Append(outbox, handling) /\ queued' = Append(queued, handling)
         \/ UNCHANGED <<outbox, queued>>
  BY DEF Enqueue, serverVars
<1>2. CASE UNCHANGED <<outbox, queued>>
  BY <1>1, <1>2, ViewStays
<1>3. CASE outbox' = Append(outbox, handling) /\ queued' = Append(queued, handling)
  <2>1. /\ handling \in Event /\ handling.msg \in Message /\ transport = "bridge"
        /\ outbox \in Seq(Event) /\ queued \in Seq(Event)
    BY <1>1 DEF IntakeIInv, IntakeTypes, Event, NoLineInTheCloud
  <2>2. ~HasRow(handling.msg) /\ handling.msg \notin {queued[i].msg : i \in DOMAIN queued}
    BY <1>1, <2>1 DEF OrderIInv, QueueOrder, QueuedOnce, RowsFollowTheQueue, HasRow
  <2>3. {queued[i].msg : i \in DOMAIN queued}'
          = {queued[i].msg : i \in DOMAIN queued} \cup {handling.msg}
    <3>1. ToSet(queued') = ToSet(queued) \cup {handling}
      BY <1>3, <2>1, WithOneMore
    <3>2. {queued[i].msg : i \in DOMAIN queued} = {e.msg : e \in ToSet(queued)}
      BY DEF ToSet
    <3>3. {queued'[i].msg : i \in DOMAIN queued'} = {e.msg : e \in ToSet(queued')}
      BY DEF ToSet
    <3>4. {e.msg : e \in ToSet(queued) \cup {handling}}
            = {e.msg : e \in ToSet(queued)} \cup {handling.msg}
      OBVIOUS
    <3>. QED
      BY <3>1, <3>2, <3>3, <3>4
  <2>4. InLine' = Append(InLine, handling)
    <3>1. CASE outbox = <<>>
      <4>1. outbox' = <<handling>> /\ Head(outbox') = handling /\ InLine = <<>>
        BY <1>3, <3>1 DEF InLine
      <4>2. handling.msg \notin ToSet(inbox')
        BY <1>1, <2>2 DEF HasRow
      <4>3. InLine' = outbox'
        BY <4>1, <4>2 DEF InLine, HasRow
      <4>. QED
        BY <1>3, <3>1, <4>1, <4>3
    <3>2. CASE outbox # <<>>
      <4>1. /\ outbox' # <<>> /\ Head(outbox') = Head(outbox)
            /\ Tail(outbox') = Append(Tail(outbox), handling)
        BY <1>3, <2>1, <3>2
      <4>. QED
        BY <1>1, <1>3, <3>2, <4>1 DEF InLine, HasRow
    <3>. QED
      BY <3>1, <3>2
  <2>5. Line!Join(handling)
    BY <1>1, <2>1, <2>2, <2>3, <2>4, InboxStays DEF Line!Join
  <2>. QED
    BY <2>1, <2>5 DEF Line!LineNext, Line!Join
<1>. QED
  BY <1>1, <1>2, <1>3

\* Behind the head of the outbox nothing is a row yet.
LEMMA NextHasNoRow ==
  ASSUME LineIInv, outbox # <<>>, Tail(outbox) # <<>>
  PROVE  ~HasRow(Head(Tail(outbox)).msg)
<1>. USE DEF LineIInv
<1>1. /\ queued \in Seq(Event) /\ Len(queued) \in Nat /\ DOMAIN queued = 1 .. Len(queued)
      /\ outbox \in Seq(Event) /\ Len(outbox) \in Nat /\ DOMAIN outbox = 1 .. Len(outbox)
  BY QueueIsTyped DEF IntakeIInv
<1>2. 2 \in DOMAIN outbox /\ Head(Tail(outbox)) = outbox[2]
  BY <1>1
<1>3. /\ Gone \in Nat /\ Gone + 2 \in DOMAIN queued /\ outbox[2] = queued[Gone + 2]
  BY <1>1, <1>2 DEF OrderIInv, QueueOrder, OutboxIsTheRest, Gone
<1>4. SUFFICES ASSUME HasRow(queued[Gone + 2].msg) PROVE FALSE
  BY <1>2, <1>3
<1>5. PICK i \in DOMAIN queued : i <= Gone + 1 /\ queued[i].msg = queued[Gone + 2].msg
  <2>1. transport = "bridge"
    BY DEF NoLineInTheCloud, IntakeIInv, IntakeTypes
  <2>. QED
    BY <1>4, <2>1 DEF OrderIInv, QueueOrder, RowsFollowTheQueue, HasRow
<1>6. i = Gone + 2
  BY <1>3, <1>5 DEF OrderIInv, QueueOrder, QueuedOnce
<1>. QED
  BY <1>1, <1>3, <1>5, <1>6

LEMMA SettleLeavesTheLine ==
  ASSUME LineIInv, Settle PROVE Line!LineNext \/ UNCHANGED Line!promiseVars
<1>. USE DEF LineIInv
<1>1. /\ posted \in {"ok", "refused"} /\ outbox' \in {Tail(outbox), outbox} /\ outbox # <<>>
      /\ UNCHANGED <<settings, inbox, row, queued>>
  BY DEF Settle, serverVars, IntakeIInv, HeadIsAnswered
<1>2. CASE outbox' = outbox
  BY <1>1, <1>2, ViewStays
<1>3. CASE outbox' = Tail(outbox)
  <2>1. InLine' = Tail(outbox)
    BY <1>1, <1>3, NextHasNoRow DEF InLine, HasRow
  <2>2. CASE HasRow(Head(outbox).msg)
    <3>1. InLine' = InLine
      BY <1>1, <2>1, <2>2 DEF InLine
    <3>. QED
      BY <1>1, <3>1, InboxStays DEF Line!promiseVars, Line!lineVars
  <2>3. CASE ~HasRow(Head(outbox).msg)
    <3>1. InLine = outbox
      BY <2>3 DEF InLine
    <3>2. Head(outbox) \notin {e \in Event : ~Refused(e) /\ WorthARow(e)}
      BY <1>1, <2>3 DEF IntakeIInv, HeadIsAnswered
    <3>3. Line!Discard
      BY <1>1, <2>1, <3>1, <3>2, InboxStays DEF Line!Discard
    <3>. QED
      BY <3>3 DEF Line!LineNext
  <2>. QED
    BY <2>2, <2>3
<1>. QED
  BY <1>1, <1>2, <1>3

\* A row that the webhook makes is a message the promise of the inbox accepts.
LEMMA NewRowIsAccepted ==
  ASSUME LineIInv, NEW e \in Event, Accept(e), inbox' # inbox, UNCHANGED settings
  PROVE  /\ Line!Accept(e.msg) /\ WorthARow(e) /\ ~HasRow(e.msg)
         /\ HasRow(e.msg)' /\ \A m : m # e.msg => HasRow(m)' = HasRow(m)
<1>. USE DEF LineIInv
<1>1. WorthARow(e) /\ ~HasRow(e.msg) /\ inbox' = Append(inbox, e.msg) /\ e.msg \in Message
  BY DEF Accept, Event
<1>2. /\ ToSet(inbox') = ToSet(inbox) \cup {e.msg}
      /\ row \in [Message -> RowType] /\ row' \in [Message -> RowType]
      /\ \A m \in Message : HasRow(m) => row'[m] = row[m]
  BY <1>1, WithOneMore, AcceptsARow DEF IntakeIInv, IntakeTypes
<1>3. ~row'[e.msg].settled
  <2>1. ~row[e.msg].settled
    BY <1>1 DEF OrderIInv, WorkOrder, NoneLeftBehind
  <2>2. \E ref \in BOOLEAN, words \in Words :
          row' = [row EXCEPT ![e.msg] = [@ EXCEPT !.ref = ref, !.words = words]]
    BY <1>1, <1>2 DEF Accept, RowType, Words
  <2>. QED
    BY <1>1, <1>2, <2>1, <2>2 DEF RowType
<1>4. Stage' = [Stage EXCEPT ![e.msg] = "owed"] /\ Stage[e.msg] = "unseen"
  BY <1>1, <1>2, <1>3 DEF Stage, HasRow
<1>5. /\ Len(inbox') = Len(inbox) + 1
      /\ [m \in Message |-> PlaceIn(inbox, m)]'
           = [[m \in Message |-> PlaceIn(inbox, m)] EXCEPT ![e.msg] = Len(inbox) + 1]
  BY <1>1, NewRowIsLast
<1>6. Line!Accept(e.msg)
  BY <1>4, <1>5 DEF Line!Accept
<1>. QED
  BY <1>1, <1>2, <1>6 DEF HasRow

LEMMA AcceptStaysOrArrives ==
  ASSUME LineIInv, NEW e \in Event, Accept(e), Unmoved, transport = "bridge", ~Refused(e),
         \E i \in DOMAIN queued : i <= Gone + 1 /\ queued[i] = e
  PROVE  Line!LineNext \/ UNCHANGED Line!promiseVars
<1>. USE DEF LineIInv
<1>1. UNCHANGED <<settings, outbox, queued>>
  BY DEF Unmoved
<1>2. CASE inbox' = inbox
  <2>1. row' = row
    <3>1. inbox \in Seq(Message) /\ e.msg \in Message
      BY DEF IntakeIInv, IntakeTypes, Event
    <3>2. inbox # Append(inbox, e.msg)
      BY <3>1
    <3>. QED
      BY <1>2, <3>2 DEF Accept
  <2>. QED
    BY <1>1, <1>2, <2>1, ViewStays
<1>3. CASE inbox' # inbox
  <2>1. /\ Line!Accept(e.msg) /\ WorthARow(e) /\ ~HasRow(e.msg)
        /\ HasRow(e.msg)' /\ \A m : m # e.msg => HasRow(m)' = HasRow(m)
    BY <1>1, <1>3, NewRowIsAccepted
  <2>2. PICK i \in DOMAIN queued : i <= Gone + 1 /\ queued[i] = e
    OBVIOUS
  <2>3. i = Gone + 1
    BY <2>1, <2>2, NewRowIsTheHead DEF OrderIInv, QueueOrder
  <2>4. outbox # <<>> /\ Head(outbox) = e
    <3>1. /\ Len(queued) \in Nat /\ DOMAIN queued = 1 .. Len(queued)
          /\ outbox \in Seq(Event) /\ Len(outbox) \in Nat
      BY QueueIsTyped DEF IntakeIInv
    <3>2. outbox # <<>>
      BY <2>3, <3>1 DEF Gone
    <3>. QED
      BY <2>2, <2>3, <3>2, HeadIsNext DEF IntakeIInv, OrderIInv, QueueOrder
  <2>5. InLine = outbox /\ InLine' = Tail(outbox)
    BY <1>1, <2>1, <2>4 DEF InLine
  <2>6. Line!Arrive
    <3>1. e \in {f \in Event : ~Refused(f) /\ WorthARow(f)}
      BY <2>1
    <3>2. {f \in Event : ~Refused(f) /\ WorthARow(f)}'
            = {f \in Event : ~Refused(f) /\ WorthARow(f)}
      BY <1>1 DEF settings, Refused, WorthARow, HasText, HasFile, HasContentWithoutText
    <3>. QED
      BY <1>1, <2>1, <2>4, <2>5, <3>1, <3>2 DEF Line!Arrive, settings
  <2>. QED
    BY <2>6 DEF Line!LineNext
<1>. QED
  BY <1>2, <1>3

LEMMA MetaArrivesDirectly ==
  ASSUME LineIInv, NEW m \in Message, MetaPosts(m)
  PROVE  Line!LineNext \/ UNCHANGED Line!promiseVars
<1>. USE DEF LineIInv
<1>. DEFINE e == EventOf(m, TRUE)
<1>1. /\ e \in Event /\ e.msg = m /\ Accept(e) /\ transport = "cloud"
      /\ UNCHANGED <<settings, outbox, queued>>
  BY EventsAreEvents DEF MetaPosts, Unmoved
<1>. HIDE DEF e
<1>2. CASE inbox' = inbox
  <2>1. inbox \in Seq(Message)
    BY DEF IntakeIInv, IntakeTypes
  <2>2. inbox # Append(inbox, m)
    BY <2>1
  <2>3. row' = row
    BY <1>1, <1>2, <2>2 DEF Accept
  <2>. QED
    BY <1>1, <1>2, <2>3, ViewStays
<1>3. CASE inbox' # inbox
  <2>1. Line!Accept(e.msg)
    BY <1>1, <1>3, NewRowIsAccepted
  <2>2. Line!Accept(m)
    BY <1>1, <2>1
  <2>3. InLine = <<>> /\ InLine' = <<>>
    BY <1>1 DEF NoLineInTheCloud, InLine
  <2>4. UNCHANGED Line!lineVars
    <3>1. {f \in Event : ~Refused(f) /\ WorthARow(f)}'
            = {f \in Event : ~Refused(f) /\ WorthARow(f)}
      BY <1>1 DEF settings, Refused, WorthARow, HasText, HasFile, HasContentWithoutText
    <3>. QED
      BY <1>1, <2>3, <3>1 DEF Line!lineVars, settings
  <2>5. Line!ArriveDirectly(m)
    BY <1>1, <2>2, <2>4 DEF Line!ArriveDirectly
  <2>. QED
    BY <2>5 DEF Line!LineNext
<1>. QED
  BY <1>2, <1>3

LEMMA BatchEndsSettles ==
  ASSUME LineIInv, BatchEnds PROVE Line!LineNext \/ UNCHANGED Line!promiseVars
<1>. USE DEF LineIInv
<1>1. PICK done \in BOOLEAN :
        row' = [m \in Message |-> IF done /\ m \in ToSet(worker.batch)
                                  THEN [row[m] EXCEPT !.settled = TRUE] ELSE row[m]]
  BY DEF BatchEnds
<1>2. /\ UNCHANGED <<settings, outbox, queued, inbox>> /\ worker.phase = "turn"
      /\ row \in [Message -> RowType]
  BY DEF BatchEnds, AtWork, bridgeVars, IntakeIInv, IntakeTypes
<1>3. CASE ~done
  BY <1>1, <1>2, <1>3, ViewStays
<1>4. CASE done
  <2>. DEFINE batch == ToSet(worker.batch)
  <2>1. /\ batch \subseteq ToSet(inbox) /\ batch # {}
        /\ \A m \in batch : ~row[m].settled
        /\ \A m \in batch, n \in ToSet(inbox) \ batch : row[n].settled \/ ArrivedBefore(m, n)
    <3>1. worker.batch \in Seq(Message) /\ worker.batch # <<>>
      BY <1>2 DEF OrderIInv, ListsAreTyped, SettlesOldest
    <3>2. batch # {}
      BY <3>1, WithoutHead
    <3>. QED
      BY <1>2, <3>2 DEF SettlesOldest, OrderIInv, WorkOrder, BatchInHand
  <2>2. ToSet(inbox) \subseteq Message
    <3>1. inbox \in Seq(Message) /\ DOMAIN inbox = 1 .. Len(inbox)
      BY QueueIsTyped DEF IntakeIInv
    <3>. QED
      BY <3>1 DEF ToSet
  <2>. HIDE DEF batch
  <2>3. Line!Owed("phone") = {m \in ToSet(inbox) : ~row[m].settled}
    BY <2>2 DEF Line!Owed, Stage, HasRow
  <2>4. batch \in SUBSET Line!Owed("phone")
    BY <2>1, <2>3
  <2>5. Line!OldestFirst("phone", batch)
    <3>1. \A m \in batch, n \in Line!Owed("phone") \ batch :
            PlaceIn(inbox, m) < PlaceIn(inbox, n)
      BY <2>1, <2>3, ArrivalIsByPlace
    <3>. QED
      BY <2>1, <2>2, <2>3, <3>1 DEF Line!OldestFirst
  <2>6. Stage' = [m \in Message |-> IF m \in batch THEN "done" ELSE Stage[m]]
    <3>1. \A m \in Message : row'[m].settled = (row[m].settled \/ m \in batch)
      BY <1>1, <1>2, <1>4 DEF batch, RowType
    <3>. QED
      BY <1>2, <2>1, <3>1 DEF Stage, HasRow
  <2>7. UNCHANGED Line!lineVars
    BY <1>2 DEF Line!lineVars, InLine, HasRow, settings, Refused, WorthARow, HasText, HasFile,
           HasContentWithoutText
  <2>8. Line!Settle("phone")
    <3>1. [m \in Message |-> PlaceIn(inbox, m)]' = [m \in Message |-> PlaceIn(inbox, m)]
      BY <1>2 DEF PlaceIn
    <3>. QED
      BY <1>2, <2>1, <2>4, <2>5, <2>6, <3>1 DEF Line!Settle
  <2>. QED
    BY <2>7, <2>8 DEF Line!LineNext, Line!SettleOldest
<1>. QED
  BY <1>3, <1>4

\* The way from WhatsApp keeps its promise: with every step a message joins the
\* line, the first of it becomes a row or is discarded, a batch of the oldest
\* rows is settled, or nothing is seen of the step (outbox.go, delivery.go,
\* webhook.ts, batcher.ts).
THEOREM ArrivesOnceInOrder == IntakeSpec => OnceInOrder
<1>1. IntakeInit => Line!LineInit
  <2>. SUFFICES ASSUME IntakeInit PROVE Line!LineInit
    OBVIOUS
  <2>1. InLine = <<>> /\ {queued[i].msg : i \in DOMAIN queued} = {} /\ Len(inbox) = 0
    BY DEF IntakeInit, InLine
  <2>3. Stage = [m \in Message |-> "unseen"]
    BY DEF IntakeInit, HasRow, ToSet, Stage
  <2>4. [m \in Message |-> PlaceIn(inbox, m)] = [m \in Message |-> 0]
    BY DEF IntakeInit, PlaceIn, ToSet
  <2>. QED
    BY <2>1, <2>3, <2>4 DEF Line!LineInit, Line!Init
<1>2. LineIInv /\ [IntakeNext]_intakeVars => [Line!LineNext]_(Line!promiseVars)
  <2>. SUFFICES ASSUME LineIInv, [IntakeNext]_intakeVars
                PROVE  Line!LineNext \/ UNCHANGED Line!promiseVars
    OBVIOUS
  <2>1. ASSUME UNCHANGED <<settings, outbox, queued, inbox, row>>
        PROVE  UNCHANGED Line!promiseVars
    BY <2>1, ViewStays
  <2>2. CASE (\E m \in Message : Handle(m)) \/ Post \/ GiveUp \/ BridgeCrash \/ ServerCrash
    BY <2>1, <2>2 DEF Handle, Post, GiveUp, BridgeCrash, ServerCrash, serverVars
  <2>3. CASE Claim \/ SweepStaged \/ SweepPending \/ UNCHANGED intakeVars
    BY <2>1, <2>3 DEF Claim, AtWork, SweepStaged, SweepPending, bridgeVars, serverVars, intakeVars
  <2>4. CASE \/ PassOver \/ Download \/ FileFails \/ Save \/ RecordAudio \/ RecordPhoto
             \/ ClearMedia \/ Transcribe \/ Unlink \/ UploadPhotos \/ MarkAttached
    BY <2>4, WorkerOnItsBatch, ViewStays DEF bridgeVars
  <2>5. CASE Webhook
    <3>1. outbox # <<>> /\ transport = "bridge"
      BY <2>5 DEF Webhook, LineIInv, IntakeIInv, IntakeTypes, HeadIsAnswered, NoLineInTheCloud
    <3>2. Gone + 1 \in DOMAIN queued /\ queued[Gone + 1] = Head(outbox) /\ Head(outbox) \in Event
      BY <3>1, HeadIsNext DEF LineIInv, IntakeIInv, OrderIInv, QueueOrder
    <3>3. CASE Refused(Head(outbox))
      BY <2>1, <2>5, <3>3 DEF Webhook, Unmoved
    <3>4. CASE ~Refused(Head(outbox))
      <4>1. Accept(Head(outbox)) /\ Unmoved
        BY <2>5, <3>4 DEF Webhook
      <4>2. Gone \in Int
        BY QueueIsTyped DEF Gone, LineIInv, IntakeIInv
      <4>. QED
        BY <3>1, <3>2, <3>4, <4>1, <4>2, AcceptStaysOrArrives
    <3>. QED
      BY <3>3, <3>4
  <2>6. CASE WebhookLate
    <3>1. PICK e \in late : /\ IF Refused(e) THEN UNCHANGED <<inbox, row, staged>> ELSE Accept(e)
                            /\ Unmoved
      BY <2>6 DEF WebhookLate
    <3>2. e \in Event /\ transport = "bridge"
      BY DEF LineIInv, IntakeIInv, IntakeTypes, NoLineInTheCloud
    <3>3. \E i \in DOMAIN queued : i <= Gone + 1 /\ queued[i] = e
      BY <3>2 DEF LineIInv, OrderIInv, QueueOrder, LateWereHeads
    <3>4. CASE Refused(e)
      BY <2>1, <3>1, <3>4 DEF Unmoved
    <3>5. CASE ~Refused(e)
      BY <3>1, <3>2, <3>3, <3>5, AcceptStaysOrArrives
    <3>. QED
      BY <3>4, <3>5
  <2>7. ASSUME NEW m \in Message, MetaPosts(m)
        PROVE  Line!LineNext \/ UNCHANGED Line!promiseVars
    BY <2>7, MetaArrivesDirectly
  <2>. QED
    BY <2>2, <2>3, <2>4, <2>5, <2>6, <2>7, EnqueueJoins, SettleLeavesTheLine, BatchEndsSettles
    DEF IntakeNext
<1>. QED
  BY <1>1, <1>2, LineInvariant, PTL DEF IntakeSpec, OnceInOrder, Line!LineSafety

\* So the rows of the intake keep the promise of the inbox, the same that
\* InboxBatcher keeps with its timers, queue and jobs: what either module says of
\* rows is said of one abstract inbox.
THEOREM IntakeKeepsInboxPromise == IntakeSpec => Line!Safety
<1>1. Line!LineInit => Line!Init
  BY DEF Line!LineInit
<1>2. Line!LineNext => Line!Next \/ UNCHANGED Line!vars
  <2>1. ASSUME NEW e \in Event, Line!Join(e) PROVE UNCHANGED Line!vars
    BY <2>1 DEF Line!Join, Line!vars
  <2>2. ASSUME Line!Arrive PROVE Line!Next
    <3>1. Line!Accept(Head(InLine).msg)
      BY <2>2 DEF Line!Arrive
    <3>2. Head(InLine).msg \in Message
      BY <2>2 DEF Line!Arrive, Event
    <3>. QED
      BY <3>1, <3>2 DEF Line!Next
  <2>3. ASSUME Line!Discard PROVE UNCHANGED Line!vars
    BY <2>3 DEF Line!Discard, Line!vars
  <2>4. ASSUME NEW m \in Message, Line!ArriveDirectly(m) PROVE Line!Next
    BY <2>4 DEF Line!ArriveDirectly, Line!Next
  <2>5. ASSUME NEW c \in {"phone"}, Line!SettleOldest(c) PROVE Line!Next
    BY <2>5 DEF Line!SettleOldest, Line!Next
  <2>. QED
    BY <2>1, <2>2, <2>3, <2>4, <2>5 DEF Line!LineNext
<1>3. UNCHANGED Line!promiseVars => UNCHANGED Line!vars
  BY DEF Line!promiseVars, Line!vars
<1>. QED
  BY <1>1, <1>2, <1>3, ArrivesOnceInOrder, PTL
  DEF OnceInOrder, Line!LineSafety, Line!Safety
=============================================================================
