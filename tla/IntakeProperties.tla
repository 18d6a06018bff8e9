-------------------------- MODULE IntakeProperties --------------------------
(* What the way from WhatsApp to the turn promises.                          *)
EXTENDS Intake

IntakeTypeOK ==
  /\ transport \in {"bridge", "cloud"} /\ content \in Mixes
  /\ seen \subseteq Message /\ staged \subseteq Message
  /\ handling \in Event \cup {NoEvent}
  /\ outbox \in Seq(Event) /\ queued \in Seq(Event) /\ late \subseteq Event
  /\ posted \in {"no", "sent", "ok", "refused"}
  /\ inbox \in Seq(Message)
  /\ row \in [Message -> [ref : BOOLEAN, audio : BOOLEAN, words : Words, settled : BOOLEAN]]
  /\ worker \in [phase : Phase, batch : Seq(Message), todo : Seq(Message), landing : Seq(Nat)]
  /\ audioFiles \subseteq Message /\ landed \subseteq Message
  /\ mediaIds \in Nat
  /\ pendingMedia \subseteq [id : 1 .. mediaIds, photo : Message, attached : BOOLEAN]
  /\ swept \subseteq Message /\ fetched \subseteq Message
  /\ intakeCrashes \in 0 .. MaxIntakeCrashes

\* The promise of bridge/outbox.go ("stays durable until the server confirms"):
\* what was once made durable is still queued, or is a row, or could never be
\* one.  Timeouts, lost answers and crashes of either side lose nothing.
QueuedIsNeverLost ==
  \A i \in DOMAIN queued :
    \/ queued[i] \in ToSet(outbox)
    \/ HasRow(queued[i].msg)
    \/ Refused(queued[i])
    \/ ~WorthARow(queued[i])

\* Position of a message in a sequence of them; 0 when it is not there.
PlaceIn(s, m) == IF m \in ToSet(s) THEN CHOOSE i \in DOMAIN s : s[i] = m ELSE 0

\* When WhatsApp had the message sent, as far as this server can know.
SentBefore(m, n) ==
  IF transport = "cloud" THEN SentAt[m] < SentAt[n]
  ELSE LET order == [i \in DOMAIN queued |-> queued[i].msg]
       IN  PlaceIn(order, m) < PlaceIn(order, n)

\* "The first photo becomes the product's cover": whatever was retried, sent
\* twice, lost or replayed after a crash, photos are listed for upload in the
\* order the owner sent them (outbox.go, listPendingMedia, resolveMedia).
PhotosListedAsSent ==
  \A i, j \in DOMAIN PendingPhotos :
    i < j => ~SentBefore(PendingPhotos[j].photo, PendingPhotos[i].photo)

\* A photo is staged once, however often its batch is retried.  Only the Cloud
\* API, whose files can be fetched again, may stage one twice, and only when the
\* process dies between addPendingMedia and clearInboxMedia.
PhotoStagedOnce ==
  \A m \in Message :
    Cardinality({e \in pendingMedia : e.photo = m})
      <= 1 + (IF transport = "bridge" THEN 0 ELSE intakeCrashes)

\* While a row waits for its file nobody but the worker and the sweep removes
\* it: a redelivery of the event must not release what the first copy owns.
WaitingRowKeepsItsFile ==
  \A m \in Message :
    transport = "bridge" /\ row[m].ref => m \in staged \cup fetched \cup swept

\* attach_pending_photos: "Only the ones that actually landed are marked, so a
\* partial failure leaves the rest claimable by a second attempt".
OnlyLandedAreMarked ==
  \A e \in pendingMedia : e.attached => e.photo \in landed
-----------------------------------------------------------------------------
(* The abstract specification *)

\* What still waits: a head whose row is there, by an answer that was lost or
\* came late, waits no longer.
InLine == IF outbox # <<>> /\ HasRow(Head(outbox).msg) THEN Tail(outbox) ELSE outbox

Stage == [m \in Message |->
            IF ~HasRow(m) THEN "unseen" ELSE IF row[m].settled THEN "done" ELSE "owed"]

Line == INSTANCE IntakePromise WITH
  Conversation <- {"phone"}, ConversationOf <- [m \in Message |-> "phone"],
  AgentConversation <- {},
  stage <- Stage, position <- [m \in Message |-> PlaceIn(inbox, m)], arrivals <- Len(inbox),
  line <- InLine, joined <- {queued[i].msg : i \in DOMAIN queued},
  acceptable <- {e \in Event : ~Refused(e) /\ WorthARow(e)},
  direct <- transport = "cloud"

\* At-least-once posts and rows made once come to this: what the bridge made
\* durable becomes rows in that order, each once, and rows are settled in whole
\* batches, oldest first, whatever answers are lost or late and whoever crashes
\* (outbox.go, delivery.go, webhook.ts, batcher.ts).
OnceInOrder == Line!LineSafety
=============================================================================
