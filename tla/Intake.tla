------------------------------- MODULE Intake -------------------------------
(***************************************************************************)
(* The way of a message, and of the file it may carry, from WhatsApp to    *)
(* the agent's turn.                                                       *)
(*                                                                         *)
(* With the bridge (bridge/inbound.go, outbox.go, delivery.go) a message   *)
(* is decrypted, its file is staged on a shared volume, the event is made  *)
(* durable in the outbox, and ONE dispatcher posts the head of the outbox  *)
(* until the server settles it.  With the Cloud API Meta posts the events, *)
(* in any order and as often as it likes.  The webhook                     *)
(* (server/src/inbox/webhook.ts) only stores a row and a reference; the    *)
(* worker (server/src/inbox/batcher.ts) fetches the files of a batch,      *)
(* turns voice notes into words and runs the turn, whose                   *)
(* attach_pending_photos tool uploads what is staged in pending_media.     *)
(* Either process may crash between two steps; housekeeping sweeps old     *)
(* files.                                                                  *)
(*                                                                         *)
(* queued, landed, swept and fetched are history.                          *)
(***************************************************************************)
EXTENDS Naturals, Sequences, FiniteSets, SequencesExt

CONSTANTS
  Message,
  Mixes,           \* the contents the messages may have together
  Captioned,       \* the images sent with a caption
  SentAt,          \* WhatsApp's own stamp, which only the Cloud API carries on
  NoEvent,
  MaxIntakeCrashes \* bound: crashes, of the bridge and of the server together

\* "unreadable": its event is one the server can never accept (400, 413, 422).
Content == {"text", "image", "voice", "unreadable"}

ASSUME IntakeAssumption ==
  /\ Mixes \subseteq [Message -> Content]
  /\ Captioned \subseteq Message
  /\ SentAt \in [Message -> Nat]
  /\ NoEvent \notin [msg : Message, kind : {"text", "image", "audio", "other"}]
  /\ MaxIntakeCrashes \in Nat

VARIABLES
  transport,   \* "bridge" or "cloud": one deployment, one transport
  content,     \* what each message is
  seen,        \* messages the bridge's handler was given: whatsmeow acks them
  handling,    \* the event in the bridge's handler
  staged,      \* files on the staging volume, named by their message
  outbox,      \* the bridge's table, oldest first
  posted,      \* the dispatcher's POST of the head: "no", "sent", or its answer
  late,        \* events whose POST was given up on but may still be handled
  inbox,       \* the server's rows, oldest first
  row,         \* what each row says
  worker,      \* where the worker is in its batch
  audioFiles,  \* voice notes on the server's disk
  pendingMedia,\* rows of pending_media
  mediaIds,    \* ids handed out by pending_media
  landed,      \* photos the store has
  queued,      \* every event the outbox ever held, in that order
  swept, fetched, \* files removed by the sweep, read by the worker
  intakeCrashes

bridgeVars == <<seen, handling, outbox, posted, late, queued>>
serverVars == <<inbox, row, worker, audioFiles, pendingMedia, mediaIds, landed, fetched>>
settings == <<transport, content>>
intakeVars == <<settings, bridgeVars, staged, serverVars, swept, intakeCrashes>>

Event == [msg : Message, kind : {"text", "image", "audio", "other"}]
Words == {"none", "written", "heard", "fallback"}
Phase == {"idle", "media", "held", "stored", "recorded", "audio", "heard", "turn", "uploaded"}

NoRow == [ref |-> FALSE, audio |-> FALSE, words |-> "none", settled |-> FALSE]
Idle == [phase |-> "idle", batch |-> <<>>, todo |-> <<>>, landing |-> <<>>]

IntakeInit ==
  /\ transport \in {"bridge", "cloud"} /\ content \in Mixes
  /\ seen = {} /\ handling = NoEvent /\ staged = {}
  /\ outbox = <<>> /\ posted = "no" /\ late = {} /\ queued = <<>>
  /\ inbox = <<>> /\ row = [m \in Message |-> NoRow]
  /\ worker = Idle
  /\ audioFiles = {} /\ pendingMedia = {} /\ mediaIds = 0 /\ landed = {}
  /\ swept = {} /\ fetched = {}
  /\ intakeCrashes = 0

-----------------------------------------------------------------------------
(* What an event says.  A file that never made it turns its message into   *)
(* "other", which keeps an image's caption and leaves a voice note empty.  *)

HasFile(m) == content[m] \in {"image", "voice"}

EventOf(m, got) ==
  [msg |-> m,
   kind |-> IF ~HasFile(m) THEN "text"
            ELSE IF ~got THEN "other"
            ELSE IF content[m] = "image" THEN "image" ELSE "audio"]

HasText(m) == ~HasFile(m) \/ m \in Captioned

HasContentWithoutText(e) == e.kind \in {"image", "audio"}

WorthARow(e) == HasText(e.msg) \/ HasContentWithoutText(e)

HasRow(m) == m \in ToSet(inbox)

\* What a query gives that has an ORDER BY which ties no two rows.  (It is
\* SetToSortSeq, but for SortSeq, of which the prover knows no definition.)
InOrder(S, Before(_, _)) ==
  CHOOSE s \in [1 .. Cardinality(S) -> S] : \A i, j \in DOMAIN s : i < j => Before(s[i], s[j])

Refused(e) == content[e.msg] = "unreadable"

-----------------------------------------------------------------------------
(* The bridge.                                                             *)

\* A sender that cannot be resolved to a phone is dropped rather than guessed at.
Dropped == UNCHANGED <<handling, staged>>

\* downloadMedia decrypts a file straight to the staging directory.
Stages(m) ==
  /\ HasFile(m)
  /\ handling' = EventOf(m, TRUE)
  /\ staged' = staged \cup {m}

\* Inbound.Handle up to the event; a file that fails leaves the rest of its message.
Handle(m) ==
  /\ transport = "bridge" /\ handling = NoEvent /\ m \notin seen
  /\ seen' = seen \cup {m}
  /\ \/ Dropped
     \/ Stages(m)
     \/ handling' = EventOf(m, FALSE) /\ UNCHANGED staged
  /\ UNCHANGED <<settings, outbox, posted, late, queued, serverVars, swept, intakeCrashes>>

\* Its last step: the event is durable, or (the insert fails) lost for good.
Enqueue ==
  /\ handling # NoEvent
  /\ handling' = NoEvent
  /\ \/ /\ outbox' = Append(outbox, handling)
        /\ queued' = Append(queued, handling)
     \/ UNCHANGED <<outbox, queued>>
  /\ UNCHANGED <<settings, seen, posted, late, staged, serverVars, swept, intakeCrashes>>

\* Outbox.Run: the head, and only the head, is posted.
Post ==
  /\ outbox # <<>> /\ posted = "no"
  /\ posted' = "sent"
  /\ UNCHANGED <<settings, seen, handling, outbox, late, queued, staged, serverVars, swept,
                 intakeCrashes>>

\* A 2xx deletes the row and so does a permanent error.  When the DELETE fails
\* the row stays and is posted again.
Settle ==
  /\ posted \in {"ok", "refused"}
  /\ posted' = "no"
  /\ outbox' \in {Tail(outbox), outbox}
  /\ UNCHANGED <<settings, seen, handling, late, queued, staged, serverVars, swept, intakeCrashes>>

\* Mutant: a POST that timed out counts as a permanent failure.
GiveUpAndDiscard ==
  /\ posted # "no"
  /\ posted' = "no"
  /\ outbox' = Tail(outbox)
  /\ UNCHANGED <<settings, seen, handling, late, queued, staged, serverVars, swept, intakeCrashes>>

\* Mutant: what failed goes to the back of the outbox and lets the next one pass.
GiveUpAndRotate ==
  /\ posted # "no"
  /\ posted' = "no"
  /\ outbox' = Append(Tail(outbox), Head(outbox))
  /\ late' \in {late, late \cup {Head(outbox)}}
  /\ posted = "sent" \/ late' = late
  /\ UNCHANGED <<settings, seen, handling, queued, staged, serverVars, swept, intakeCrashes>>

\* Anything else is retried, after a wait, forever: no answer within 30 s, a
\* lost response, a 401, a 5xx.  The server may still handle what was sent.
GiveUp ==
  /\ posted # "no"
  /\ posted' = "no"
  /\ late' \in {late, late \cup {Head(outbox)}}
  /\ posted = "sent" \/ late' = late
  /\ UNCHANGED <<settings, seen, handling, outbox, queued, staged, serverVars, swept,
                 intakeCrashes>>

-----------------------------------------------------------------------------
(* The webhook.                                                            *)

\* One event, as POST /webhook settles it: nothing worth a row; a redelivery,
\* whose file belongs to the row already there; or a row, with a reference to
\* the file if this deployment wants it.  Whether the sender is an owner is what
\* the assignments say at that moment.
AcceptReleasing(e) ==
  \/ /\ ~WorthARow(e)
     /\ UNCHANGED <<inbox, row, staged>>
  \/ /\ WorthARow(e) /\ HasRow(e.msg)
     /\ staged' = staged \ {e.msg}
     /\ UNCHANGED <<inbox, row>>
  \/ /\ WorthARow(e) /\ ~HasRow(e.msg)
     /\ inbox' = Append(inbox, e.msg)
     /\ \E owner \in BOOLEAN :
          LET wanted == e.kind = "audio" \/ (e.kind = "image" /\ owner)
          IN  /\ row' = [row EXCEPT ![e.msg].ref = wanted,
                                    ![e.msg].words = IF HasText(e.msg) THEN "written" ELSE "none"]
              /\ staged' = IF e.kind = "image" /\ ~wanted THEN staged \ {e.msg} ELSE staged

Accept(e) ==
  \/ /\ ~WorthARow(e) \/ HasRow(e.msg)
     /\ UNCHANGED <<inbox, row, staged>>
  \/ /\ WorthARow(e) /\ ~HasRow(e.msg)
     /\ inbox' = Append(inbox, e.msg)
     /\ \E owner \in BOOLEAN :
          LET wanted == e.kind = "audio" \/ (e.kind = "image" /\ owner)
          IN  /\ row' = [row EXCEPT ![e.msg].ref = wanted,
                                    ![e.msg].words = IF HasText(e.msg) THEN "written" ELSE "none"]
              /\ staged' = IF e.kind = "image" /\ ~wanted THEN staged \ {e.msg} ELSE staged

Unmoved == UNCHANGED <<settings, seen, handling, outbox, queued, worker, audioFiles,
                       pendingMedia, mediaIds, landed, fetched, swept, intakeCrashes>>

Webhook ==
  /\ posted = "sent"
  /\ IF Refused(Head(outbox))
     THEN posted' = "refused" /\ UNCHANGED <<inbox, row, staged>>
     ELSE posted' = "ok" /\ Accept(Head(outbox))
  /\ UNCHANGED late /\ Unmoved

\* A POST the bridge gave up on reaches the handler after all.
WebhookLate ==
  \E e \in late :
    /\ late' = late \ {e}
    /\ IF Refused(e) THEN UNCHANGED <<inbox, row, staged>> ELSE Accept(e)
    /\ UNCHANGED posted /\ Unmoved

\* Meta's webhook: any message, in any order, again after a lost 200.
MetaPosts(m) ==
  /\ transport = "cloud" /\ ~Refused(EventOf(m, TRUE))
  /\ Accept(EventOf(m, TRUE))
  /\ UNCHANGED <<posted, late>> /\ Unmoved

-----------------------------------------------------------------------------
(* The worker: resolveMedia, then resolveAudio, then the turn.  Every step   *)
(* between two awaits is one action; the files of a batch come one after     *)
(* the other, in the order of the rows.                                      *)

Current == Head(worker.todo)
Advance(phase) == worker' = [worker EXCEPT !.phase = phase, !.todo = Tail(@)]
To(phase) == worker' = [worker EXCEPT !.phase = phase]

AtWork == UNCHANGED <<settings, bridgeVars, swept, intakeCrashes>>

\* claimInboxBatch: every row not settled, those of a crash included, as they
\* arrived.
ArrivedBefore(m, n) ==
  \E i, j \in DOMAIN inbox : i < j /\ inbox[i] = m /\ inbox[j] = n

Unsettled == InOrder({m \in ToSet(inbox) : ~row[m].settled}, ArrivedBefore)

Claim ==
  /\ worker.phase = "idle" /\ Unsettled # <<>>
  /\ worker' = [Idle EXCEPT !.phase = "media", !.batch = Unsettled, !.todo = Unsettled]
  /\ AtWork /\ UNCHANGED <<inbox, row, staged, audioFiles, pendingMedia, mediaIds, landed, fetched>>

\* Rows without a reference are passed over; after the last one the voice notes
\* are turned into words, and after the last of those the turn runs.
PassOver ==
  /\ \/ /\ worker.phase = "media" /\ worker.todo # <<>> /\ ~row[Current].ref
        /\ Advance("media")
     \/ /\ worker.phase = "media" /\ worker.todo = <<>>
        /\ worker' = [worker EXCEPT !.phase = "audio", !.todo = worker.batch]
     \/ /\ worker.phase = "audio" /\ worker.todo # <<>> /\ ~row[Current].audio
        /\ Advance("audio")
     \/ /\ worker.phase = "audio" /\ worker.todo = <<>>
        /\ To("turn")
  /\ AtWork /\ UNCHANGED <<inbox, row, staged, audioFiles, pendingMedia, mediaIds, landed, fetched>>

Fetching == worker.phase = "media" /\ worker.todo # <<>> /\ row[Current].ref

\* The bridge's file is there until it is read; the Cloud API's can be fetched again.
CanBeFetched(m) == transport = "bridge" => m \in staged

\* Mutant: the file is read and left where it is.
DownloadKeeping ==
  /\ Fetching /\ CanBeFetched(Current)
  /\ To("held")
  /\ fetched' = fetched \cup {Current}
  /\ AtWork /\ UNCHANGED <<staged, inbox, row, audioFiles, pendingMedia, mediaIds, landed>>

\* BridgeChannel.downloadMedia reads the staged file and unlinks it.
Download ==
  /\ Fetching /\ CanBeFetched(Current)
  /\ To("held")
  /\ staged' = staged \ {Current}
  /\ fetched' = fetched \cup {Current}
  /\ AtWork /\ UNCHANGED <<inbox, row, audioFiles, pendingMedia, mediaIds, landed>>

\* The catch of resolveMedia, and giveUpOnAudio: the reference is spent, and a
\* voice note gets the line that asks for text.
GiveUpOnFile(m) ==
  row' = [row EXCEPT ![m].ref = FALSE,
                     ![m].words = IF content[m] = "voice" THEN "fallback" ELSE @]

\* The download fails, or the audio is too large, or it cannot be stored.
FileFails ==
  /\ Fetching \/ worker.phase \in {"held", "stored"}
  /\ GiveUpOnFile(Current)
  /\ Advance("media")
  /\ AtWork /\ UNCHANGED <<inbox, staged, audioFiles, pendingMedia, mediaIds, landed, fetched>>

\* saveAudio / savePhoto.
Save ==
  /\ worker.phase = "held"
  /\ To("stored")
  /\ audioFiles' = IF content[Current] = "voice" THEN audioFiles \cup {Current} ELSE audioFiles
  /\ AtWork /\ UNCHANGED <<inbox, row, staged, pendingMedia, mediaIds, landed, fetched>>

\* setInboxAudioPath.
RecordAudio ==
  /\ worker.phase = "stored" /\ content[Current] = "voice"
  /\ row' = [row EXCEPT ![Current].audio = TRUE, ![Current].ref = FALSE]
  /\ Advance("media")
  /\ AtWork /\ UNCHANGED <<inbox, staged, audioFiles, pendingMedia, mediaIds, landed, fetched>>

\* addPendingMedia ...
RecordPhoto ==
  /\ worker.phase = "stored" /\ content[Current] = "image"
  /\ mediaIds' = mediaIds + 1
  /\ pendingMedia' = pendingMedia \cup {[id |-> mediaIds', photo |-> Current, attached |-> FALSE]}
  /\ To("recorded")
  /\ AtWork /\ UNCHANGED <<inbox, row, staged, audioFiles, landed, fetched>>

\* ... and clearInboxMedia.
ClearMedia ==
  /\ worker.phase = "recorded"
  /\ row' = [row EXCEPT ![Current].ref = FALSE]
  /\ Advance("media")
  /\ AtWork /\ UNCHANGED <<inbox, staged, audioFiles, pendingMedia, mediaIds, landed, fetched>>

\* transcribe gives words, or null for every reason it may have.
Transcribe ==
  /\ worker.phase = "audio" /\ worker.todo # <<>> /\ row[Current].audio
  /\ \E text \in {"heard", "fallback"} :
       row' = [row EXCEPT ![Current].audio = FALSE, ![Current].words = text]
  /\ To("heard")
  /\ AtWork /\ UNCHANGED <<inbox, staged, audioFiles, pendingMedia, mediaIds, landed, fetched>>

\* The file goes whether or not the words were recovered; a failed unlink is
\* swallowed.
Unlink ==
  /\ worker.phase = "heard"
  /\ audioFiles' \in {audioFiles, audioFiles \ {Current}}
  /\ Advance("audio")
  /\ AtWork /\ UNCHANGED <<inbox, row, staged, pendingMedia, mediaIds, landed, fetched>>

-----------------------------------------------------------------------------
(* The turn, as far as photos go.                                            *)

\* Mutant: arrival alone decides.
StampIgnored(e) == 0

\* What listPendingMedia returns: WhatsApp's stamp leads where there is one, and
\* arrival breaks its ties.
StampOf(e) == IF transport = "cloud" THEN SentAt[e.photo] ELSE 0

ListedBefore(d, e) ==
  \/ StampOf(d) < StampOf(e)
  \/ StampOf(d) = StampOf(e) /\ d.id < e.id

PendingPhotos == InOrder({e \in pendingMedia : ~e.attached}, ListedBefore)

\* attach_pending_photos: uploadProductPhotos tries every photo in turn and
\* returns only HOW MANY made it ...
UploadPhotos ==
  /\ worker.phase = "turn" /\ PendingPhotos # <<>>
  /\ \E fails \in SUBSET (1 .. Len(PendingPhotos)) :
       /\ landed' = landed \cup {PendingPhotos[i].photo : i \in 1 .. Len(PendingPhotos) \ fails}
       /\ worker' = [worker EXCEPT !.phase = "uploaded",
                       !.landing = SubSeq([i \in 1 .. Len(PendingPhotos) |-> PendingPhotos[i].id],
                                          1, Len(PendingPhotos) - Cardinality(fails))]
  /\ AtWork /\ UNCHANGED <<inbox, row, staged, audioFiles, pendingMedia, mediaIds, fetched>>

\* ... and as many rows, from the first, are marked attached.
MarkAttached ==
  /\ worker.phase = "uploaded"
  /\ pendingMedia' = {IF e.id \in ToSet(worker.landing) THEN [e EXCEPT !.attached = TRUE] ELSE e :
                        e \in pendingMedia}
  /\ worker' = [worker EXCEPT !.phase = "turn", !.landing = <<>>]
  /\ AtWork /\ UNCHANGED <<inbox, row, staged, audioFiles, mediaIds, landed, fetched>>

\* The batch is settled, or goes back to be retried.
BatchEnds ==
  /\ worker.phase = "turn"
  /\ \E done \in BOOLEAN :
       row' = [m \in Message |->
                IF done /\ m \in ToSet(worker.batch) THEN [row[m] EXCEPT !.settled = TRUE] ELSE row[m]]
  /\ worker' = Idle
  /\ AtWork /\ UNCHANGED <<inbox, staged, audioFiles, pendingMedia, mediaIds, landed, fetched>>

-----------------------------------------------------------------------------
(* Housekeeping, and crashes.                                                *)

\* sweepStagedMedia goes by age alone, and any file can grow that old: a bridge
\* may retry for longer than STAGED_MEDIA_TTL_HOURS.
SweepStaged ==
  /\ \E m \in staged : staged' = staged \ {m} /\ swept' = swept \cup {m}
  /\ UNCHANGED <<settings, bridgeVars, serverVars, intakeCrashes>>

\* deleteStalePendingMedia: the oldest photo nobody attached.
SweepPending ==
  /\ \E e \in pendingMedia :
       /\ ~e.attached /\ \A d \in pendingMedia : d.attached \/ e.id <= d.id
       /\ pendingMedia' = pendingMedia \ {e}
  /\ UNCHANGED <<settings, bridgeVars, staged, inbox, row, worker, audioFiles, mediaIds, landed,
                 fetched, swept, intakeCrashes>>

BridgeCrash ==
  /\ transport = "bridge" /\ intakeCrashes < MaxIntakeCrashes
  /\ handling' = NoEvent /\ posted' = "no"
  /\ intakeCrashes' = intakeCrashes + 1
  /\ UNCHANGED <<settings, seen, outbox, late, queued, staged, serverVars, swept>>

ServerCrash ==
  /\ intakeCrashes < MaxIntakeCrashes
  /\ worker' = Idle /\ late' = {}
  /\ intakeCrashes' = intakeCrashes + 1
  /\ UNCHANGED <<settings, seen, handling, outbox, posted, queued, staged, inbox, row, audioFiles,
                 pendingMedia, mediaIds, landed, fetched, swept>>

IntakeNext ==
  \/ \E m \in Message : Handle(m) \/ MetaPosts(m)
  \/ Enqueue \/ Post \/ Settle \/ GiveUp
  \/ Webhook \/ WebhookLate
  \/ Claim \/ PassOver \/ Download \/ FileFails \/ Save
  \/ RecordAudio \/ RecordPhoto \/ ClearMedia \/ Transcribe \/ Unlink
  \/ UploadPhotos \/ MarkAttached \/ BatchEnds
  \/ SweepStaged \/ SweepPending \/ BridgeCrash \/ ServerCrash

IntakeSpec == IntakeInit /\ [][IntakeNext]_intakeVars
=============================================================================
