---------------------------- MODULE IntakeProofs -----------------------------
(***************************************************************************)
(* The way of a message and of its file, for any messages, contents and    *)
(* number of crashes.  That nothing durable is lost rests on what an       *)
(* answered POST says of the head of the outbox; that a waiting row keeps  *)
(* its file, on the events still under way keeping theirs; that a photo is *)
(* staged once, on a row's reference being spent between one staging and   *)
(* the next.                                                               *)
(*                                                                         *)
(* That photos are listed in the order they were sent is a second layer:   *)
(* the queue holds every event once and in order, rows come in the order   *)
(* of the queue, and the worker takes their files in the order of the rows *)
(* and leaves none behind; so the ids it draws follow the arrivals.        *)
(***************************************************************************)
EXTENDS IntakeProperties, FiniteSetTheorems, SequenceTheorems, TLAPS

-----------------------------------------------------------------------------
(* The inductive invariant.                                                   *)

RowType == [ref : BOOLEAN, audio : BOOLEAN, words : Words, settled : BOOLEAN]

WorkerIsARecord ==
  worker = [phase |-> worker.phase, batch |-> worker.batch, todo |-> worker.todo,
            landing |-> worker.landing]

PendingAreRecords ==
  \A e \in pendingMedia : e = [id |-> e.id, photo |-> e.photo, attached |-> e.attached]

IntakeTypes ==
  /\ transport \in {"bridge", "cloud"} /\ content \in [Message -> Content]
  /\ seen \subseteq Message /\ staged \subseteq seen
  /\ handling \in Event \cup {NoEvent}
  /\ outbox \in Seq(Event) /\ queued \in Seq(Event) /\ late \subseteq Event
  /\ posted \in {"no", "sent", "ok", "refused"}
  /\ inbox \in Seq(Message) /\ row \in [Message -> RowType]
  /\ WorkerIsARecord /\ IsFiniteSet(pendingMedia) /\ PendingAreRecords
  /\ intakeCrashes \in Nat

\* What the answer to a POST says is so of the event that was posted.
HeadIsAnswered ==
  /\ posted # "no" => outbox # <<>>
  /\ posted = "ok" => HasRow(Head(outbox).msg) \/ ~WorthARow(Head(outbox))
  /\ posted = "refused" => Refused(Head(outbox))

\* An event that says it brings a file, and has no row yet, still has its file.
KeepsItsFile(e) ==
  e.kind \in {"image", "audio"} => HasRow(e.msg) \/ e.msg \in staged \cup fetched \cup swept

FilesOnTheWay ==
  transport = "bridge" =>
    /\ handling # NoEvent => KeepsItsFile(handling)
    /\ \A e \in ToSet(outbox) \cup late : KeepsItsFile(e)

\* The file at hand belongs to a row that still refers to it.
HasInHand(m) == worker.phase \in {"held", "stored", "recorded"} /\ m = Current

RefsAreOfRows ==
  \A m \in Message :
    /\ row[m].ref => HasRow(m)
    /\ HasInHand(m) => row[m].ref

Copies(m) == {e \in pendingMedia : e.photo = m}

\* With the bridge a file is read once, and staged in pending_media after that.
ReadOnce ==
  transport = "bridge" =>
    \A m \in Message :
      /\ Copies(m) # {} => m \in fetched
      /\ m \in fetched => m \in seen /\ m \notin staged
      /\ HasInHand(m) => m \in fetched
      /\ HasInHand(m) /\ worker.phase # "recorded" => Copies(m) = {}
      /\ Cardinality(Copies(m)) <= 1

\* With the Cloud API each crash may cost one more copy, of a row that still
\* refers to its file.
Allowance(m) ==
  intakeCrashes + (IF row[m].ref /\ ~(worker.phase = "recorded" /\ m = Current) THEN 0 ELSE 1)

CopiesAreCounted ==
  \A m \in Message :
    /\ Copies(m) # {} => HasRow(m)
    /\ transport = "cloud" => Cardinality(Copies(m)) <= Allowance(m)

IntakeIInv ==
  /\ IntakeTypes
  /\ HeadIsAnswered /\ QueuedIsNeverLost
  /\ FilesOnTheWay /\ WaitingRowKeepsItsFile
  /\ RefsAreOfRows /\ ReadOnce /\ CopiesAreCounted

-----------------------------------------------------------------------------
(* Lists, and the files of events.                                            *)

LEMMA WithOneMore ==
  ASSUME NEW S, NEW s \in Seq(S), NEW x \in S
  PROVE  /\ Append(s, x) \in Seq(S)
         /\ ToSet(Append(s, x)) = ToSet(s) \cup {x}
<1>1. /\ Append(s, x) \in Seq(S) /\ Len(Append(s, x)) = Len(s) + 1
      /\ \A i \in 1 .. Len(s) : Append(s, x)[i] = s[i]
      /\ Append(s, x)[Len(s) + 1] = x
  OBVIOUS
<1>2. /\ Len(s) \in Nat /\ DOMAIN s = 1 .. Len(s)
      /\ DOMAIN Append(s, x) = 1 .. Len(s) + 1
  BY <1>1, LenProperties
<1>3. \A i \in 1 .. Len(s) + 1 : i \in 1 .. Len(s) \/ i = Len(s) + 1
  BY <1>2
<1>4. 1 .. Len(s) \subseteq 1 .. Len(s) + 1 /\ Len(s) + 1 \in 1 .. Len(s) + 1
  BY <1>2
<1>5. ToSet(Append(s, x)) \subseteq ToSet(s) \cup {x}
  BY <1>1, <1>2, <1>3 DEF ToSet
<1>6. ToSet(s) \cup {x} \subseteq ToSet(Append(s, x))
  BY <1>1, <1>2, <1>4 DEF ToSet
<1>. QED
  BY <1>1, <1>5, <1>6

LEMMA WithoutHead ==
  ASSUME NEW S, NEW s \in Seq(S), s # <<>>
  PROVE  /\ Head(s) \in S /\ Head(s) \in ToSet(s) /\ Tail(s) \in Seq(S)
         /\ ToSet(s) = {Head(s)} \cup ToSet(Tail(s))
<1>1. Len(s) \in Nat \ {0} /\ DOMAIN s = 1 .. Len(s) /\ Head(s) = s[1]
  BY EmptySeq, LenProperties
<1>2. /\ Tail(s) \in Seq(S) /\ Len(Tail(s)) = Len(s) - 1 /\ Head(s) \in S
      /\ \A i \in 1 .. Len(Tail(s)) : Tail(s)[i] = s[i + 1]
  BY HeadTailProperties
<1>3. DOMAIN Tail(s) = 1 .. Len(Tail(s))
  BY <1>2, LenProperties
<1>4. Head(s) \in ToSet(s)
  BY <1>1 DEF ToSet
<1>5. \A i \in 1 .. Len(Tail(s)) : i + 1 \in 1 .. Len(s)
  BY <1>1, <1>2
<1>6. \A i \in 1 .. Len(s) : i # 1 => i - 1 \in 1 .. Len(Tail(s)) /\ (i - 1) + 1 = i
  BY <1>1, <1>2
<1>7. ToSet(Tail(s)) \subseteq ToSet(s)
  BY <1>1, <1>2, <1>3, <1>5 DEF ToSet
<1>8. ASSUME NEW x \in ToSet(s), x # Head(s) PROVE x \in ToSet(Tail(s))
  <2>1. PICK i \in 1 .. Len(s) : x = s[i]
    BY <1>1 DEF ToSet
  <2>2. i - 1 \in 1 .. Len(Tail(s)) /\ s[i] = Tail(s)[i - 1]
    BY <1>1, <1>2, <1>6, <1>8, <2>1
  <2>. QED
    BY <1>3, <2>1, <2>2 DEF ToSet
<1>. QED
  BY <1>2, <1>4, <1>7, <1>8

LEMMA EventsAreEvents ==
  ASSUME NEW m \in Message, NEW got \in BOOLEAN
  PROVE  EventOf(m, got) \in Event /\ EventOf(m, got).msg = m
  BY DEF EventOf, Event

\* An event says that it brings a file only where its message has one.
LEMMA EventsBringFiles ==
  ASSUME NEW m
  PROVE  EventOf(m, FALSE).kind \notin {"image", "audio"}
  BY DEF EventOf

\* No event is the mark that there is none.
LEMMA NoEventIsNone == NoEvent \notin Event
  BY IntakeAssumption DEF IntakeAssumption, Event

-----------------------------------------------------------------------------
(* What a row, and the store's copies of its photo, come to when the webhook  *)
(* accepts an event.                                                          *)

LEMMA AcceptsARow ==
  ASSUME IntakeTypes, NEW e \in Event, Accept(e)
  PROVE  /\ inbox' \in Seq(Message) /\ row' \in [Message -> RowType]
         /\ ToSet(inbox) \subseteq ToSet(inbox') /\ ToSet(inbox') \subseteq ToSet(inbox) \cup {e.msg}
         /\ WorthARow(e) => e.msg \in ToSet(inbox')
         /\ \A m \in Message : m # e.msg \/ HasRow(m) => row'[m] = row[m]
         /\ row'[e.msg].ref /\ ~HasRow(e.msg) =>
              \/ row' = row
              \/ e.kind \in {"image", "audio"} /\ staged' = staged /\ e.msg \in ToSet(inbox')
         /\ staged' \subseteq staged /\ staged \subseteq staged' \cup {e.msg}
         /\ staged' # staged => e.msg \in ToSet(inbox') /\ ~HasRow(e.msg) /\ ~row'[e.msg].ref
<1>1. e.msg \in Message
  BY DEF Event
<1>2. CASE ~WorthARow(e) \/ HasRow(e.msg)
  <2>1. UNCHANGED <<inbox, row, staged>>
    BY <1>2 DEF Accept
  <2>. QED
    BY <1>2, <2>1 DEF IntakeTypes, HasRow
<1>3. CASE WorthARow(e) /\ ~HasRow(e.msg)
  <2>1. inbox' = Append(inbox, e.msg)
    BY <1>3 DEF Accept
  <2>2. inbox' \in Seq(Message) /\ ToSet(inbox') = ToSet(inbox) \cup {e.msg}
    BY <1>1, <2>1, WithOneMore DEF IntakeTypes
  <2>3. PICK owner \in BOOLEAN :
          LET wanted == e.kind = "audio" \/ (e.kind = "image" /\ owner)
          IN  /\ row' = [row EXCEPT ![e.msg].ref = wanted,
                                    ![e.msg].words = IF HasText(e.msg) THEN "written" ELSE "none"]
              /\ staged' = IF e.kind = "image" /\ ~wanted THEN staged \ {e.msg} ELSE staged
    BY <1>3 DEF Accept
  <2>. DEFINE wanted == e.kind = "audio" \/ (e.kind = "image" /\ owner)
              words == IF HasText(e.msg) THEN "written" ELSE "none"
              new == [row[e.msg] EXCEPT !.ref = wanted, !.words = words]
  <2>4. row \in [Message -> RowType] /\ row' = [row EXCEPT ![e.msg] = new]
    BY <2>3 DEF IntakeTypes
  <2>5. new \in RowType /\ new.ref = wanted
    <3>1. row[e.msg] \in RowType /\ wanted \in BOOLEAN /\ words \in Words
      BY <1>1, <2>4 DEF Words
    <3>. HIDE DEF wanted, words
    <3>. QED
      BY <3>1 DEF RowType
  <2>6. staged' = IF e.kind = "image" /\ ~wanted THEN staged \ {e.msg} ELSE staged
    BY <2>3
  <2>. HIDE DEF new
  <2>7. row' \in [Message -> RowType] /\ row'[e.msg] = new
    BY <1>1, <2>4, <2>5
  <2>8. \A m \in Message : m # e.msg => row'[m] = row[m]
    BY <2>4
  <2>. QED
    BY <1>3, <2>2, <2>5, <2>6, <2>7, <2>8
<1>. QED
  BY <1>2, <1>3

\* What Accept leaves alone besides.
LEMMA AcceptKeepsTheRest ==
  ASSUME IntakeIInv, NEW e \in Event, Accept(e), KeepsItsFile(e) \/ transport = "cloud",
         UNCHANGED <<settings, seen, handling, outbox, queued, worker, pendingMedia, fetched,
                     swept, intakeCrashes>>,
         late' \subseteq late
  PROVE  /\ QueuedIsNeverLost' /\ FilesOnTheWay' /\ WaitingRowKeepsItsFile'
         /\ RefsAreOfRows' /\ ReadOnce' /\ CopiesAreCounted'
         /\ ToSet(inbox) \subseteq ToSet(inbox')
         /\ WorthARow(e) => HasRow(e.msg)'
<1>1. /\ inbox' \in Seq(Message) /\ row' \in [Message -> RowType]
      /\ ToSet(inbox) \subseteq ToSet(inbox') /\ ToSet(inbox') \subseteq ToSet(inbox) \cup {e.msg}
      /\ WorthARow(e) => e.msg \in ToSet(inbox')
      /\ \A m \in Message : m # e.msg \/ HasRow(m) => row'[m] = row[m]
      /\ row'[e.msg].ref /\ ~HasRow(e.msg) =>
           \/ row' = row
           \/ e.kind \in {"image", "audio"} /\ staged' = staged /\ e.msg \in ToSet(inbox')
      /\ staged' \subseteq staged /\ staged \subseteq staged' \cup {e.msg}
      /\ staged' # staged => e.msg \in ToSet(inbox') /\ ~HasRow(e.msg) /\ ~row'[e.msg].ref
  BY AcceptsARow DEF IntakeIInv
<1>2. e.msg \in Message
  BY DEF Event
<1>3. \A m : HasRow(m)' <=> m \in ToSet(inbox')
  BY DEF HasRow
<1>4. \A d : KeepsItsFile(d) => KeepsItsFile(d)'
  BY <1>1, <1>3 DEF KeepsItsFile, HasRow
<1>5. QueuedIsNeverLost'
  BY <1>1 DEF IntakeIInv, QueuedIsNeverLost, HasRow, Refused, WorthARow, HasText, HasFile,
     HasContentWithoutText, settings
<1>6. FilesOnTheWay'
  BY <1>4 DEF IntakeIInv, FilesOnTheWay, settings
<1>7. WaitingRowKeepsItsFile'
  <2>. SUFFICES ASSUME NEW m \in Message, transport = "bridge", row'[m].ref
                PROVE  m \in staged' \cup fetched \cup swept
    BY DEF WaitingRowKeepsItsFile, settings
  <2>1. CASE m = e.msg /\ ~HasRow(m) /\ row' # row
    BY <1>1, <2>1 DEF KeepsItsFile
  <2>2. CASE m # e.msg \/ HasRow(m) \/ row' = row
    <3>1. m \in staged \cup fetched \cup swept
      BY <1>1, <2>2 DEF IntakeIInv, WaitingRowKeepsItsFile
    <3>2. m \in staged => m \in staged'
      BY <1>1, <2>2
    <3>. QED
      BY <3>1, <3>2
  <2>. QED
    BY <2>1, <2>2
<1>8. RefsAreOfRows'
  <2>1. ASSUME NEW m \in Message, row'[m].ref PROVE HasRow(m)'
    BY <1>1, <1>3, <2>1 DEF IntakeIInv, RefsAreOfRows, HasRow
  <2>2. ASSUME NEW m \in Message, HasInHand(m)' PROVE row'[m].ref
    <3>1. HasInHand(m)
      BY <2>2 DEF HasInHand, Current
    <3>2. row[m].ref /\ HasRow(m)
      BY <3>1 DEF IntakeIInv, RefsAreOfRows
    <3>. QED
      BY <1>1, <3>2
  <2>. QED
    BY <2>1, <2>2 DEF RefsAreOfRows
<1>9. ReadOnce'
  BY <1>1 DEF IntakeIInv, ReadOnce, Copies, HasInHand, Current, settings
<1>10. CopiesAreCounted'
  <2>1. ASSUME NEW m \in Message
        PROVE  /\ Copies(m)' # {} => HasRow(m)'
               /\ transport = "cloud" => Cardinality(Copies(m)') <= Allowance(m)'
    <3>1. Copies(m)' = Copies(m)
      BY DEF Copies
    <3>2. Copies(m)' # {} => HasRow(m)'
      BY <1>1, <1>3, <3>1 DEF IntakeIInv, CopiesAreCounted, HasRow
    <3>3. CASE m # e.msg \/ HasRow(m)
      BY <1>1, <3>1, <3>2, <3>3
      DEF IntakeIInv, CopiesAreCounted, Allowance, Current
    <3>4. CASE m = e.msg /\ ~HasRow(m)
      <4>1. Copies(m) = {}
        BY <3>4 DEF IntakeIInv, CopiesAreCounted
      <4>2. Cardinality(Copies(m)') = 0 /\ intakeCrashes' \in Nat
        BY <3>1, <4>1, FS_EmptySet DEF IntakeIInv, IntakeTypes
      <4>. QED
        BY <3>2, <4>2 DEF Allowance
    <3>. QED
      BY <3>3, <3>4
  <2>. QED
    BY <2>1 DEF CopiesAreCounted, settings
<1>. QED
  BY <1>1, <1>3, <1>5, <1>6, <1>7, <1>8, <1>9, <1>10

-----------------------------------------------------------------------------
(* The invariant holds at first.                                              *)

LEMMA IntakeInitEstablishes == IntakeInit => IntakeIInv
<1>. SUFFICES ASSUME IntakeInit PROVE IntakeIInv
  OBVIOUS
<1>1. <<>> \in Seq(Event) /\ <<>> \in Seq(Message) /\ DOMAIN <<>> = {}
  BY EmptySeq
<1>2. IsFiniteSet({}) /\ Cardinality({}) = 0
  BY FS_EmptySet
<1>3. \A m : Copies(m) = {}
  BY DEF IntakeInit, Copies
<1>4. worker.phase = "idle" /\ WorkerIsARecord
  BY DEF IntakeInit, Idle, WorkerIsARecord
<1>5. content \in [Message -> Content] /\ row \in [Message -> RowType]
  BY IntakeAssumption DEF IntakeInit, IntakeAssumption, RowType, NoRow, Words
<1>6. IntakeTypes
  BY <1>1, <1>2, <1>4, <1>5 DEF IntakeInit, IntakeTypes, PendingAreRecords
<1>7. HeadIsAnswered /\ QueuedIsNeverLost /\ FilesOnTheWay
  BY <1>1 DEF IntakeInit, HeadIsAnswered, QueuedIsNeverLost, FilesOnTheWay, ToSet
<1>8. \A m \in Message : ~row[m].ref /\ ~HasInHand(m)
  BY <1>4 DEF IntakeInit, NoRow, HasInHand
<1>9. WaitingRowKeepsItsFile /\ RefsAreOfRows
  BY <1>8 DEF WaitingRowKeepsItsFile, RefsAreOfRows
<1>10. ReadOnce
  <2>1. \A m \in Message : Copies(m) = {} /\ Cardinality(Copies(m)) = 0 /\ m \notin fetched
    BY <1>2, <1>3 DEF IntakeInit
  <2>. QED
    BY <1>8, <2>1 DEF ReadOnce
<1>11. CopiesAreCounted
  <2>1. \A m \in Message : Allowance(m) = 1
    BY <1>8 DEF IntakeInit, Allowance
  <2>. QED
    BY <1>2, <1>3, <2>1 DEF CopiesAreCounted
<1>. QED
  BY <1>6, <1>7, <1>9, <1>10, <1>11 DEF IntakeIInv

-----------------------------------------------------------------------------
(* The bridge.                                                                *)

\* What the bridge does to its own table is nothing to the server's rows.
LEMMA ServerAlone ==
  ASSUME IntakeIInv, UNCHANGED <<settings, seen, staged, serverVars, swept>>,
         \/ intakeCrashes' = intakeCrashes
         \/ transport = "bridge" /\ intakeCrashes' = intakeCrashes + 1
  PROVE  /\ WaitingRowKeepsItsFile' /\ RefsAreOfRows' /\ ReadOnce' /\ CopiesAreCounted'
         /\ \A e : KeepsItsFile(e)' <=> KeepsItsFile(e)
<1>1. UNCHANGED <<transport, content, inbox, row, worker, audioFiles, pendingMedia, mediaIds,
                  landed, fetched>>
  BY DEF settings, serverVars
<1>2. WaitingRowKeepsItsFile' /\ RefsAreOfRows'
  BY <1>1 DEF IntakeIInv, WaitingRowKeepsItsFile, RefsAreOfRows, HasRow, HasInHand, Current
<1>3. ReadOnce'
  BY <1>1 DEF IntakeIInv, ReadOnce, Copies, HasInHand, Current
<1>4. CopiesAreCounted'
  <2>1. \A m : Copies(m)' = Copies(m) /\ HasRow(m)' = HasRow(m)
    BY <1>1 DEF Copies, HasRow
  <2>. QED
    BY <1>1, <2>1 DEF IntakeIInv, IntakeTypes, CopiesAreCounted, Allowance, Current
<1>. QED
  BY <1>1, <1>2, <1>3, <1>4 DEF KeepsItsFile, HasRow

\* The file is staged before the event that says so, under a name of its own.
LEMMA HandleKeeps ==
  ASSUME IntakeIInv, NEW m \in Message, Handle(m)
  PROVE  IntakeIInv'
<1>1. /\ transport = "bridge" /\ handling = NoEvent /\ m \notin seen /\ seen' = seen \cup {m}
      /\ UNCHANGED <<settings, outbox, posted, late, queued, serverVars, swept, intakeCrashes>>
  BY DEF Handle
<1>2. UNCHANGED <<transport, content, inbox, row, worker, audioFiles, pendingMedia, mediaIds,
                  landed, fetched>>
  BY <1>1 DEF settings, serverVars
<1>3. \/ handling' = handling /\ staged' = staged
      \/ handling' = EventOf(m, TRUE) /\ staged' = staged \cup {m}
      \/ handling' = EventOf(m, FALSE) /\ staged' = staged
  BY DEF Handle, Dropped, Stages
<1>4. IntakeTypes'
  <2>1. handling' \in Event \cup {NoEvent}
    BY <1>3, EventsAreEvents DEF IntakeIInv, IntakeTypes
  <2>2. staged' \subseteq seen' /\ seen' \subseteq Message
    BY <1>1, <1>3 DEF IntakeIInv, IntakeTypes
  <2>. QED
    BY <1>1, <1>2, <2>1, <2>2 DEF IntakeIInv, IntakeTypes, WorkerIsARecord, PendingAreRecords, RowType
<1>5. HeadIsAnswered' /\ QueuedIsNeverLost'
  BY <1>1, <1>2 DEF IntakeIInv, HeadIsAnswered, QueuedIsNeverLost, HasRow, Refused, WorthARow,
     HasText, HasFile, HasContentWithoutText
<1>6. \A e : KeepsItsFile(e) => KeepsItsFile(e)'
  BY <1>1, <1>2, <1>3 DEF KeepsItsFile, HasRow
<1>7. FilesOnTheWay'
  <2>1. handling' # NoEvent => KeepsItsFile(handling)'
    <3>1. CASE handling' = handling
      BY <1>1, <3>1
    <3>2. CASE handling' = EventOf(m, TRUE) /\ staged' = staged \cup {m}
      <4>1. handling'.msg = m /\ m \in staged'
        BY <3>2, EventsAreEvents
      <4>. QED
        BY <4>1 DEF KeepsItsFile
    <3>3. CASE handling' = EventOf(m, FALSE)
      <4>1. handling'.kind \notin {"image", "audio"}
        BY <3>3, EventsBringFiles
      <4>. QED
        BY <4>1 DEF KeepsItsFile
    <3>. QED
      BY <1>3, <3>1, <3>2, <3>3
  <2>2. \A e \in ToSet(outbox') \cup late' : KeepsItsFile(e)'
    BY <1>1, <1>6 DEF IntakeIInv, FilesOnTheWay
  <2>. QED
    BY <2>1, <2>2 DEF FilesOnTheWay
<1>8. WaitingRowKeepsItsFile' /\ RefsAreOfRows'
  BY <1>1, <1>2, <1>3
  DEF IntakeIInv, WaitingRowKeepsItsFile, RefsAreOfRows, HasRow, HasInHand, Current
<1>9. ReadOnce'
  BY <1>1, <1>2, <1>3 DEF IntakeIInv, IntakeTypes, ReadOnce, Copies, HasInHand, Current
<1>10. CopiesAreCounted'
  BY <1>1, <1>2 DEF IntakeIInv, CopiesAreCounted, Copies, HasRow
<1>. QED
  BY <1>4, <1>5, <1>7, <1>8, <1>9, <1>10 DEF IntakeIInv

LEMMA EnqueueKeeps == ASSUME IntakeIInv, Enqueue PROVE IntakeIInv'
<1>1. /\ handling # NoEvent /\ handling' = NoEvent
      /\ \/ outbox' = Append(outbox, handling) /\ queued' = Append(queued, handling)
         \/ UNCHANGED <<outbox, queued>>
      /\ UNCHANGED <<settings, seen, posted, late, staged, serverVars, swept, intakeCrashes>>
  BY DEF Enqueue
<1>2. UNCHANGED <<transport, content, inbox, row, worker, audioFiles, pendingMedia, mediaIds,
                  landed, fetched>>
  BY <1>1 DEF settings, serverVars
<1>3. handling \in Event /\ outbox \in Seq(Event) /\ queued \in Seq(Event)
  BY <1>1 DEF IntakeIInv, IntakeTypes
<1>4. /\ outbox' \in Seq(Event) /\ queued' \in Seq(Event)
      /\ \/ UNCHANGED <<outbox, queued>>
         \/ /\ ToSet(outbox') = ToSet(outbox) \cup {handling}
            /\ ToSet(queued') = ToSet(queued) \cup {handling}
  <2>1. /\ Append(outbox, handling) \in Seq(Event)
        /\ ToSet(Append(outbox, handling)) = ToSet(outbox) \cup {handling}
    BY <1>3, WithOneMore
  <2>2. /\ Append(queued, handling) \in Seq(Event)
        /\ ToSet(Append(queued, handling)) = ToSet(queued) \cup {handling}
    BY <1>3, WithOneMore
  <2>. QED
    BY <1>1, <1>3, <2>1, <2>2
<1>5. IntakeTypes'
  BY <1>1, <1>2, <1>4 DEF IntakeIInv, IntakeTypes, WorkerIsARecord, PendingAreRecords, RowType
<1>6. outbox # <<>> => outbox' # <<>> /\ Head(outbox') = Head(outbox)
  BY <1>1, <1>3, HeadTailAppend
<1>7. HeadIsAnswered'
  BY <1>1, <1>2, <1>6
  DEF IntakeIInv, IntakeTypes, HeadIsAnswered, HasRow, Refused, WorthARow, HasText, HasFile,
      HasContentWithoutText
<1>8. QueuedIsNeverLost'
  <2>1. \A e \in ToSet(queued) : \/ e \in ToSet(outbox) \/ HasRow(e.msg)
                                 \/ Refused(e) \/ ~WorthARow(e)
    BY DEF IntakeIInv, QueuedIsNeverLost, ToSet
  <2>2. \A e \in ToSet(queued') : \/ e \in ToSet(outbox') \/ HasRow(e.msg)
                                  \/ Refused(e) \/ ~WorthARow(e)
    BY <1>4, <2>1
  <2>3. \A i \in DOMAIN queued' : queued'[i] \in ToSet(queued')
    BY DEF ToSet
  <2>. QED
    BY <1>2, <2>2, <2>3
    DEF QueuedIsNeverLost, HasRow, Refused, WorthARow, HasText, HasFile, HasContentWithoutText
<1>9. /\ WaitingRowKeepsItsFile' /\ RefsAreOfRows' /\ ReadOnce' /\ CopiesAreCounted'
      /\ \A e : KeepsItsFile(e)' <=> KeepsItsFile(e)
  BY <1>1, ServerAlone
<1>10. FilesOnTheWay'
  BY <1>1, <1>2, <1>4, <1>9 DEF IntakeIInv, FilesOnTheWay
<1>. QED
  BY <1>5, <1>7, <1>8, <1>9, <1>10 DEF IntakeIInv

\* A step of the dispatcher that takes nothing out of the outbox.
LEMMA DispatcherKeeps ==
  ASSUME IntakeIInv, UNCHANGED <<settings, seen, outbox, queued, staged, serverVars, swept>>,
         handling' \in {handling, NoEvent},
         posted' \in {"no", "sent"}, posted' = "sent" => outbox # <<>>,
         late' \subseteq late \cup ToSet(outbox),
         \/ intakeCrashes' = intakeCrashes
         \/ transport = "bridge" /\ intakeCrashes' = intakeCrashes + 1
  PROVE  IntakeIInv'
<1>1. UNCHANGED <<transport, content, inbox, row, worker, audioFiles, pendingMedia, mediaIds,
                  landed, fetched>>
  BY DEF settings, serverVars
<1>2. ToSet(outbox) \subseteq Event
  BY ElementOfSeq, LenProperties DEF IntakeIInv, IntakeTypes, ToSet
<1>3. IntakeTypes'
  BY <1>1, <1>2 DEF IntakeIInv, IntakeTypes, WorkerIsARecord, PendingAreRecords, RowType
<1>4. HeadIsAnswered'
  BY DEF HeadIsAnswered
<1>5. QueuedIsNeverLost'
  BY <1>1 DEF IntakeIInv, QueuedIsNeverLost, HasRow, Refused, WorthARow,
     HasText, HasFile, HasContentWithoutText
<1>6. /\ WaitingRowKeepsItsFile' /\ RefsAreOfRows' /\ ReadOnce' /\ CopiesAreCounted'
      /\ \A e : KeepsItsFile(e)' <=> KeepsItsFile(e)
  BY ServerAlone
<1>7. FilesOnTheWay'
  BY <1>1, <1>6 DEF IntakeIInv, FilesOnTheWay
<1>. QED
  BY <1>3, <1>4, <1>5, <1>6, <1>7 DEF IntakeIInv

LEMMA PostKeeps == ASSUME IntakeIInv, Post PROVE IntakeIInv'
  BY DispatcherKeeps DEF Post

LEMMA GiveUpKeeps == ASSUME IntakeIInv, GiveUp PROVE IntakeIInv'
<1>1. outbox # <<>> /\ outbox \in Seq(Event)
  BY DEF IntakeIInv, IntakeTypes, HeadIsAnswered, GiveUp
<1>2. Head(outbox) \in ToSet(outbox)
  BY <1>1, WithoutHead
<1>. QED
  BY <1>2, DispatcherKeeps DEF GiveUp

LEMMA BridgeCrashKeeps == ASSUME IntakeIInv, BridgeCrash PROVE IntakeIInv'
  BY DispatcherKeeps DEF BridgeCrash

\* Only an event the server answered for leaves the outbox.
LEMMA SettleKeeps == ASSUME IntakeIInv, Settle PROVE IntakeIInv'
<1>1. /\ posted \in {"ok", "refused"} /\ posted' = "no" /\ outbox' \in {Tail(outbox), outbox}
      /\ UNCHANGED <<settings, seen, handling, late, queued, staged, serverVars, swept,
                     intakeCrashes>>
  BY DEF Settle
<1>2. UNCHANGED <<transport, content, inbox, row, worker, audioFiles, pendingMedia, mediaIds,
                  landed, fetched>>
  BY <1>1 DEF settings, serverVars
<1>3. outbox \in Seq(Event) /\ outbox # <<>>
  BY <1>1 DEF IntakeIInv, IntakeTypes, HeadIsAnswered
<1>4. Tail(outbox) \in Seq(Event) /\ ToSet(outbox) = {Head(outbox)} \cup ToSet(Tail(outbox))
  BY <1>3, WithoutHead
<1>5. IntakeTypes'
  BY <1>1, <1>2, <1>4 DEF IntakeIInv, IntakeTypes, WorkerIsARecord, PendingAreRecords, RowType
<1>6. HeadIsAnswered'
  BY <1>1 DEF HeadIsAnswered
<1>7. \/ HasRow(Head(outbox).msg) \/ ~WorthARow(Head(outbox)) \/ Refused(Head(outbox))
  BY <1>1 DEF IntakeIInv, HeadIsAnswered
<1>8. \A e \in ToSet(outbox) : \/ e \in ToSet(outbox') \/ HasRow(e.msg)
                               \/ Refused(e) \/ ~WorthARow(e)
  BY <1>1, <1>4, <1>7
<1>9. QueuedIsNeverLost'
  BY <1>1, <1>2, <1>8 DEF IntakeIInv, QueuedIsNeverLost, HasRow, Refused, WorthARow,
     HasText, HasFile, HasContentWithoutText
<1>10. /\ WaitingRowKeepsItsFile' /\ RefsAreOfRows' /\ ReadOnce' /\ CopiesAreCounted'
       /\ \A e : KeepsItsFile(e)' <=> KeepsItsFile(e)
  BY <1>1, ServerAlone
<1>11. FilesOnTheWay'
  BY <1>1, <1>2, <1>4, <1>10 DEF IntakeIInv, FilesOnTheWay
<1>. QED
  BY <1>5, <1>6, <1>9, <1>10, <1>11 DEF IntakeIInv

-----------------------------------------------------------------------------
(* The webhook.                                                               *)

LEMMA AcceptedTypes ==
  ASSUME IntakeIInv, NEW e \in Event, Accept(e),
         UNCHANGED <<settings, seen, handling, outbox, queued, worker, pendingMedia,
                     intakeCrashes>>,
         late' \subseteq late, posted' \in {"no", "sent", "ok", "refused"}
  PROVE  IntakeTypes'
<1>1. inbox' \in Seq(Message) /\ row' \in [Message -> RowType] /\ staged' \subseteq staged
  BY AcceptsARow DEF IntakeIInv
<1>2. UNCHANGED <<transport, content>>
  BY DEF settings
<1>. QED
  BY <1>1, <1>2 DEF IntakeIInv, IntakeTypes, WorkerIsARecord, PendingAreRecords, RowType

\* An event that is refused changes no row.
LEMMA WebhookKeeps == ASSUME IntakeIInv, Webhook PROVE IntakeIInv'
<1>. DEFINE e == Head(outbox)
<1>1. /\ posted = "sent" /\ late' = late
      /\ UNCHANGED <<settings, seen, handling, outbox, queued, worker, audioFiles,
                     pendingMedia, mediaIds, landed, fetched, swept, intakeCrashes>>
  BY DEF Webhook, Unmoved
<1>2. outbox \in Seq(Event) /\ outbox # <<>>
  BY <1>1 DEF IntakeIInv, IntakeTypes, HeadIsAnswered
<1>3. e \in Event /\ e \in ToSet(outbox)
  BY <1>2, WithoutHead
<1>4. UNCHANGED <<transport, content>>
  BY <1>1 DEF settings
<1>5. CASE Refused(e)
  <2>1. posted' = "refused" /\ UNCHANGED <<inbox, row, staged>>
    BY <1>5 DEF Webhook
  <2>2. IntakeTypes'
    BY <1>1, <1>4, <2>1 DEF IntakeIInv, IntakeTypes, WorkerIsARecord, PendingAreRecords, RowType
  <2>3. HeadIsAnswered'
    BY <1>1, <1>2, <1>4, <1>5, <2>1 DEF HeadIsAnswered, Refused
  <2>4. QueuedIsNeverLost'
    BY <1>1, <1>4, <2>1 DEF IntakeIInv, QueuedIsNeverLost, HasRow, Refused, WorthARow,
       HasText, HasFile, HasContentWithoutText
  <2>5. /\ WaitingRowKeepsItsFile' /\ RefsAreOfRows' /\ ReadOnce' /\ CopiesAreCounted'
        /\ \A d : KeepsItsFile(d)' <=> KeepsItsFile(d)
    BY <1>1, <2>1, ServerAlone DEF serverVars
  <2>6. FilesOnTheWay'
    BY <1>1, <1>4, <2>5 DEF IntakeIInv, FilesOnTheWay
  <2>. QED
    BY <2>2, <2>3, <2>4, <2>5, <2>6 DEF IntakeIInv
<1>6. CASE ~Refused(e)
  <2>1. posted' = "ok" /\ Accept(e)
    BY <1>6 DEF Webhook
  <2>2. KeepsItsFile(e) \/ transport = "cloud"
    BY <1>3 DEF IntakeIInv, IntakeTypes, FilesOnTheWay
  <2>3. IntakeTypes'
    BY <1>1, <1>3, <2>1, AcceptedTypes
  <2>4. /\ QueuedIsNeverLost' /\ FilesOnTheWay' /\ WaitingRowKeepsItsFile'
        /\ RefsAreOfRows' /\ ReadOnce' /\ CopiesAreCounted'
        /\ WorthARow(e) => HasRow(e.msg)'
    BY <1>1, <1>3, <2>1, <2>2, AcceptKeepsTheRest
  <2>5. HeadIsAnswered'
    BY <1>1, <1>2, <1>4, <2>1, <2>4
    DEF HeadIsAnswered, WorthARow, HasText, HasFile, HasContentWithoutText, HasRow
  <2>. QED
    BY <2>3, <2>4, <2>5 DEF IntakeIInv
<1>. QED
  BY <1>5, <1>6

\* A POST that comes late, or twice, finds its row and takes nothing from it.
LEMMA WebhookLateKeeps == ASSUME IntakeIInv, WebhookLate PROVE IntakeIInv'
<1>1. PICK e \in late :
        /\ late' = late \ {e}
        /\ IF Refused(e) THEN UNCHANGED <<inbox, row, staged>> ELSE Accept(e)
        /\ UNCHANGED posted /\ Unmoved
  BY DEF WebhookLate
<1>2. UNCHANGED <<settings, seen, handling, outbox, queued, worker, audioFiles,
                  pendingMedia, mediaIds, landed, fetched, swept, intakeCrashes>>
  BY <1>1 DEF Unmoved
<1>3. e \in Event /\ UNCHANGED <<transport, content>>
  BY <1>2 DEF IntakeIInv, IntakeTypes, settings
<1>4. CASE Refused(e)
  <2>1. UNCHANGED <<inbox, row, staged, posted>> /\ late' \subseteq late
    BY <1>1, <1>4
  <2>2. IntakeTypes'
    BY <1>2, <1>3, <2>1 DEF IntakeIInv, IntakeTypes, WorkerIsARecord, PendingAreRecords, RowType
  <2>3. HeadIsAnswered' /\ QueuedIsNeverLost'
    BY <1>2, <1>3, <2>1 DEF IntakeIInv, HeadIsAnswered, QueuedIsNeverLost, HasRow, Refused,
       WorthARow, HasText, HasFile, HasContentWithoutText
  <2>4. /\ WaitingRowKeepsItsFile' /\ RefsAreOfRows' /\ ReadOnce' /\ CopiesAreCounted'
        /\ \A d : KeepsItsFile(d)' <=> KeepsItsFile(d)
    BY <1>2, <2>1, ServerAlone DEF serverVars
  <2>5. FilesOnTheWay'
    BY <1>2, <1>3, <2>1, <2>4 DEF IntakeIInv, FilesOnTheWay
  <2>. QED
    BY <2>2, <2>3, <2>4, <2>5 DEF IntakeIInv
<1>5. CASE ~Refused(e)
  <2>1. Accept(e) /\ posted' = posted /\ late' \subseteq late
    BY <1>1, <1>5
  <2>2. KeepsItsFile(e) \/ transport = "cloud"
    BY DEF IntakeIInv, IntakeTypes, FilesOnTheWay
  <2>3. IntakeTypes'
    BY <1>2, <1>3, <2>1, AcceptedTypes DEF IntakeIInv, IntakeTypes
  <2>4. /\ QueuedIsNeverLost' /\ FilesOnTheWay' /\ WaitingRowKeepsItsFile'
        /\ RefsAreOfRows' /\ ReadOnce' /\ CopiesAreCounted'
        /\ ToSet(inbox) \subseteq ToSet(inbox')
    BY <1>2, <1>3, <2>1, <2>2, AcceptKeepsTheRest
  <2>5. HeadIsAnswered'
    BY <1>2, <1>3, <2>1, <2>4
    DEF IntakeIInv, HeadIsAnswered, WorthARow, HasText, HasFile, HasContentWithoutText, HasRow,
        Refused
  <2>. QED
    BY <2>3, <2>4, <2>5 DEF IntakeIInv
<1>. QED
  BY <1>4, <1>5

LEMMA MetaPostsKeeps ==
  ASSUME IntakeIInv, NEW m \in Message, MetaPosts(m)
  PROVE  IntakeIInv'
<1>. DEFINE e == EventOf(m, TRUE)
<1>1. /\ transport = "cloud" /\ Accept(e) /\ UNCHANGED <<posted, late>>
      /\ UNCHANGED <<settings, seen, handling, outbox, queued, worker, audioFiles,
                     pendingMedia, mediaIds, landed, fetched, swept, intakeCrashes>>
  BY DEF MetaPosts, Unmoved
<1>2. e \in Event /\ UNCHANGED <<transport, content>>
  BY <1>1, EventsAreEvents DEF settings
<1>. HIDE DEF e
<1>3. IntakeTypes'
  BY <1>1, <1>2, AcceptedTypes DEF IntakeIInv, IntakeTypes
<1>4. /\ QueuedIsNeverLost' /\ FilesOnTheWay' /\ WaitingRowKeepsItsFile'
      /\ RefsAreOfRows' /\ ReadOnce' /\ CopiesAreCounted'
      /\ ToSet(inbox) \subseteq ToSet(inbox')
  BY <1>1, <1>2, AcceptKeepsTheRest
<1>5. HeadIsAnswered'
  BY <1>1, <1>2, <1>4
  DEF IntakeIInv, HeadIsAnswered, WorthARow, HasText, HasFile, HasContentWithoutText, HasRow,
      Refused
<1>. QED
  BY <1>3, <1>4, <1>5 DEF IntakeIInv

-----------------------------------------------------------------------------
(* The worker.  Nothing it does unsays what was answered, nor takes a file     *)
(* from an event on its way or from a row that waits for it.                   *)

LEMMA WorkerLeavesTheWay ==
  ASSUME IntakeIInv, UNCHANGED <<settings, seen, handling, outbox, posted, queued, inbox>>,
         late' \subseteq late, intakeCrashes' \in Nat,
         row' \in [Message -> RowType], \A m \in Message : row'[m].ref => row[m].ref,
         worker' = [phase |-> worker'.phase, batch |-> worker'.batch, todo |-> worker'.todo,
                    landing |-> worker'.landing],
         staged' \subseteq staged, IsFiniteSet(pendingMedia'), PendingAreRecords',
         staged \cup fetched \cup swept \subseteq staged' \cup fetched' \cup swept'
  PROVE  IntakeTypes' /\ HeadIsAnswered' /\ QueuedIsNeverLost' /\ FilesOnTheWay'
         /\ WaitingRowKeepsItsFile'
<1>1. UNCHANGED <<transport, content>>
  BY DEF settings
<1>2. \A m : HasRow(m)' = HasRow(m)
  BY DEF HasRow
<1>3. IntakeTypes'
  BY <1>1 DEF IntakeIInv, IntakeTypes, WorkerIsARecord, PendingAreRecords, RowType
<1>4. HeadIsAnswered' /\ QueuedIsNeverLost'
  BY <1>1, <1>2 DEF IntakeIInv, HeadIsAnswered, QueuedIsNeverLost, Refused, WorthARow,
     HasText, HasFile, HasContentWithoutText
<1>5. \A e : KeepsItsFile(e) => KeepsItsFile(e)'
  BY <1>2 DEF KeepsItsFile
<1>6. FilesOnTheWay'
  BY <1>1, <1>5 DEF IntakeIInv, FilesOnTheWay
<1>7. WaitingRowKeepsItsFile'
  BY <1>1 DEF IntakeIInv, WaitingRowKeepsItsFile
<1>. QED
  BY <1>3, <1>4, <1>6, <1>7

\* A step of the worker that reads no file, spends no reference and stages no
\* photo, and has at hand no more than it had.
LEMMA WorkerWalks ==
  ASSUME IntakeIInv,
         UNCHANGED <<settings, bridgeVars, swept, intakeCrashes, inbox, row, staged,
                     pendingMedia, fetched>>,
         worker' = [phase |-> worker'.phase, batch |-> worker'.batch, todo |-> worker'.todo,
                    landing |-> worker'.landing],
         \/ worker'.phase \notin {"held", "stored", "recorded"} /\ worker.phase # "recorded"
         \/ worker.phase = "held" /\ worker'.phase = "stored" /\ worker'.todo = worker.todo
  PROVE  IntakeIInv'
<1>1. UNCHANGED <<transport, seen>>
  BY DEF settings, bridgeVars
<1>2. IntakeTypes' /\ HeadIsAnswered' /\ QueuedIsNeverLost' /\ FilesOnTheWay'
      /\ WaitingRowKeepsItsFile'
  <2>1. /\ row' \in [Message -> RowType] /\ IsFiniteSet(pendingMedia') /\ PendingAreRecords'
        /\ intakeCrashes' \in Nat
    BY DEF IntakeIInv, IntakeTypes, PendingAreRecords
  <2>2. UNCHANGED <<handling, outbox, posted, late, queued>>
    BY DEF bridgeVars
  <2>. QED
    BY <1>1, <2>1, <2>2, WorkerLeavesTheWay
<1>3. \A m : /\ HasInHand(m)' => HasInHand(m) /\ worker.phase # "recorded"
             /\ Copies(m)' = Copies(m) /\ HasRow(m)' = HasRow(m)
  BY DEF HasInHand, Current, Copies, HasRow
<1>4. RefsAreOfRows'
  BY <1>3 DEF IntakeIInv, RefsAreOfRows
<1>5. ReadOnce'
  BY <1>1, <1>3 DEF IntakeIInv, ReadOnce
<1>6. CopiesAreCounted'
  <2>1. \A m \in Message : Allowance(m)' = Allowance(m)
    <3>1. worker.phase # "recorded" /\ worker'.phase # "recorded"
      OBVIOUS
    <3>. QED
      BY <3>1 DEF Allowance
  <2>. QED
    BY <1>1, <1>3, <2>1 DEF IntakeIInv, CopiesAreCounted
<1>. QED
  BY <1>2, <1>4, <1>5, <1>6 DEF IntakeIInv

LEMMA ClaimKeeps == ASSUME IntakeIInv, Claim PROVE IntakeIInv'
<1>1. /\ worker.phase = "idle"
      /\ worker' = [phase |-> "media", batch |-> Unsettled, todo |-> Unsettled, landing |-> <<>>]
      /\ UNCHANGED <<settings, bridgeVars, swept, intakeCrashes, inbox, row, staged,
                     pendingMedia, fetched>>
  BY DEF Claim, Idle, AtWork
<1>. QED
  BY <1>1, WorkerWalks

\* What Advance and To leave of the worker.
LEMMA WorkerMoves ==
  ASSUME WorkerIsARecord, NEW phase
  PROVE  /\ Advance(phase) =>
              worker' = [phase |-> phase, batch |-> worker.batch, todo |-> Tail(worker.todo),
                         landing |-> worker.landing]
         /\ To(phase) =>
              worker' = [phase |-> phase, batch |-> worker.batch, todo |-> worker.todo,
                         landing |-> worker.landing]
  BY DEF WorkerIsARecord, Advance, To

LEMMA PassOverKeeps == ASSUME IntakeIInv, PassOver PROVE IntakeIInv'
<1>1. UNCHANGED <<settings, bridgeVars, swept, intakeCrashes, inbox, row, staged,
                  pendingMedia, fetched>>
  BY DEF PassOver, AtWork
<1>2. WorkerIsARecord
  BY DEF IntakeIInv, IntakeTypes
<1>3. /\ worker.phase \in {"media", "audio"}
      /\ \/ Advance("media") \/ Advance("audio") \/ To("turn")
         \/ worker' = [worker EXCEPT !.phase = "audio", !.todo = worker.batch]
  BY DEF PassOver
<1>4. /\ worker' = [phase |-> worker'.phase, batch |-> worker'.batch, todo |-> worker'.todo,
                    landing |-> worker'.landing]
      /\ worker'.phase \in {"media", "audio", "turn"}
  <2>1. CASE Advance("media") \/ Advance("audio") \/ To("turn")
    BY <1>2, <2>1, WorkerMoves
  <2>2. CASE worker' = [worker EXCEPT !.phase = "audio", !.todo = worker.batch]
    BY <1>2, <2>2 DEF WorkerIsARecord
  <2>. QED
    BY <1>3, <2>1, <2>2
<1>. QED
  BY <1>1, <1>3, <1>4, WorkerWalks

LEMMA SaveKeeps == ASSUME IntakeIInv, Save PROVE IntakeIInv'
<1>1. UNCHANGED <<settings, bridgeVars, swept, intakeCrashes, inbox, row, staged,
                  pendingMedia, fetched>>
  BY DEF Save, AtWork
<1>2. /\ worker.phase = "held"
      /\ worker' = [phase |-> "stored", batch |-> worker.batch, todo |-> worker.todo,
                    landing |-> worker.landing]
  BY WorkerMoves DEF IntakeIInv, IntakeTypes, Save
<1>. QED
  BY <1>1, <1>2, WorkerWalks

LEMMA UnlinkKeeps == ASSUME IntakeIInv, Unlink PROVE IntakeIInv'
<1>1. UNCHANGED <<settings, bridgeVars, swept, intakeCrashes, inbox, row, staged,
                  pendingMedia, fetched>>
  BY DEF Unlink, AtWork
<1>2. /\ worker.phase = "heard"
      /\ worker' = [phase |-> "audio", batch |-> worker.batch, todo |-> Tail(worker.todo),
                    landing |-> worker.landing]
  BY WorkerMoves DEF IntakeIInv, IntakeTypes, Unlink
<1>. QED
  BY <1>1, <1>2, WorkerWalks

LEMMA UploadPhotosKeeps == ASSUME IntakeIInv, UploadPhotos PROVE IntakeIInv'
<1>1. UNCHANGED <<settings, bridgeVars, swept, intakeCrashes, inbox, row, staged,
                  pendingMedia, fetched>>
  BY DEF UploadPhotos, AtWork
<1>2. WorkerIsARecord /\ worker.phase = "turn"
  BY DEF IntakeIInv, IntakeTypes, UploadPhotos
<1>3. \E ids : worker' = [worker EXCEPT !.phase = "uploaded", !.landing = ids]
  BY DEF UploadPhotos
<1>4. PICK ids : worker' = [worker EXCEPT !.phase = "uploaded", !.landing = ids]
  BY <1>3
<1>5. worker' = [phase |-> "uploaded", batch |-> worker.batch, todo |-> worker.todo,
                 landing |-> ids]
  BY <1>2, <1>4 DEF WorkerIsARecord
<1>. QED
  BY <1>1, <1>2, <1>5, WorkerWalks

\* A step of the worker that changes a row's reference only by spending it, and
\* ends with nothing at hand.
LEMMA WorkerSpends ==
  ASSUME IntakeIInv,
         UNCHANGED <<settings, bridgeVars, swept, intakeCrashes, inbox, staged, pendingMedia,
                     fetched>>,
         worker' = [phase |-> worker'.phase, batch |-> worker'.batch, todo |-> worker'.todo,
                    landing |-> worker'.landing],
         worker'.phase \notin {"held", "stored", "recorded"},
         row' \in [Message -> RowType],
         \A m \in Message :
           row'[m].ref => row[m].ref /\ ~(worker.phase = "recorded" /\ m = Current)
  PROVE  IntakeIInv'
<1>1. UNCHANGED <<transport, seen, handling, outbox, posted, late, queued>>
  BY DEF settings, bridgeVars
<1>2. IntakeTypes' /\ HeadIsAnswered' /\ QueuedIsNeverLost' /\ FilesOnTheWay'
      /\ WaitingRowKeepsItsFile'
  <2>1. IsFiniteSet(pendingMedia') /\ PendingAreRecords' /\ intakeCrashes' \in Nat
    BY DEF IntakeIInv, IntakeTypes, PendingAreRecords
  <2>. QED
    BY <1>1, <2>1, WorkerLeavesTheWay
<1>3. \A m : ~HasInHand(m)' /\ Copies(m)' = Copies(m) /\ HasRow(m)' = HasRow(m)
  BY DEF HasInHand, Copies, HasRow
<1>4. RefsAreOfRows'
  BY <1>3 DEF IntakeIInv, RefsAreOfRows
<1>5. ReadOnce'
  BY <1>1, <1>3 DEF IntakeIInv, ReadOnce
<1>6. CopiesAreCounted'
  <2>1. ASSUME NEW m \in Message
        PROVE  \/ /\ Allowance(m) = intakeCrashes
                  /\ Allowance(m)' = intakeCrashes
               \/ /\ Allowance(m) \in {intakeCrashes, intakeCrashes + 1}
                  /\ Allowance(m)' = intakeCrashes + 1
    <3>1. Allowance(m)' = IF row'[m].ref THEN intakeCrashes + 0 ELSE intakeCrashes + 1
      BY DEF Allowance
    <3>2. row'[m].ref => Allowance(m) = intakeCrashes + 0
      BY DEF Allowance
    <3>3. intakeCrashes \in Nat
      BY DEF IntakeIInv, IntakeTypes
    <3>4. Allowance(m) \in {intakeCrashes, intakeCrashes + 1}
      BY <3>3 DEF Allowance
    <3>. QED
      BY <3>1, <3>2, <3>3, <3>4
  <2>2. ASSUME NEW m \in Message, transport = "cloud"
        PROVE  Cardinality(Copies(m)') <= Allowance(m)'
    <3>1. IsFiniteSet(Copies(m)) /\ intakeCrashes \in Nat
      BY FS_Subset DEF IntakeIInv, IntakeTypes, Copies
    <3>2. Cardinality(Copies(m)) \in Nat /\ Cardinality(Copies(m)) <= Allowance(m)
      BY <2>2, <3>1, FS_CardinalityType DEF IntakeIInv, CopiesAreCounted
    <3>. QED
      BY <1>3, <2>1, <3>1, <3>2
  <2>. QED
    BY <1>1, <1>3, <2>2 DEF IntakeIInv, CopiesAreCounted
<1>. QED
  BY <1>2, <1>4, <1>5, <1>6 DEF IntakeIInv

\* A change of one row.
LEMMA OneRowChanges ==
  ASSUME IntakeTypes, NEW m, NEW new, row' = [row EXCEPT ![m] = new],
         m \in Message => new \in RowType
  PROVE  /\ row' \in [Message -> RowType]
         /\ \A n \in Message : row'[n] = IF n = m THEN new ELSE row[n]
  BY DEF IntakeTypes

LEMMA FileFailsKeeps == ASSUME IntakeIInv, FileFails PROVE IntakeIInv'
<1>. DEFINE c == Current
            words == IF content[c] = "voice" THEN "fallback" ELSE row[c].words
            new == [row[c] EXCEPT !.ref = FALSE, !.words = words]
<1>1. UNCHANGED <<settings, bridgeVars, swept, intakeCrashes, inbox, staged, pendingMedia,
                  fetched>>
  BY DEF FileFails, AtWork
<1>2. worker' = [phase |-> "media", batch |-> worker.batch, todo |-> Tail(worker.todo),
                 landing |-> worker.landing]
  BY WorkerMoves DEF IntakeIInv, IntakeTypes, FileFails
<1>3. worker.phase # "recorded" /\ GiveUpOnFile(c)
  BY DEF FileFails, Fetching
<1>4. row' = [row EXCEPT ![c] = new]
  BY <1>3 DEF IntakeIInv, IntakeTypes, GiveUpOnFile
<1>5. c \in Message => new \in RowType /\ ~new.ref
  <2>. SUFFICES ASSUME c \in Message PROVE new \in RowType /\ ~new.ref
    OBVIOUS
  <2>1. row[c] \in RowType /\ words \in Words
    BY DEF IntakeIInv, IntakeTypes, RowType, Words
  <2>. HIDE DEF words
  <2>. QED
    BY <2>1 DEF RowType
<1>. HIDE DEF new
<1>6. /\ row' \in [Message -> RowType]
      /\ \A n \in Message : row'[n] = IF n = c THEN new ELSE row[n]
  BY <1>4, <1>5, OneRowChanges DEF IntakeIInv
<1>. QED
  BY <1>1, <1>2, <1>3, <1>5, <1>6, WorkerSpends

LEMMA RecordAudioKeeps == ASSUME IntakeIInv, RecordAudio PROVE IntakeIInv'
<1>. DEFINE c == Current
            new == [row[c] EXCEPT !.audio = TRUE, !.ref = FALSE]
<1>1. UNCHANGED <<settings, bridgeVars, swept, intakeCrashes, inbox, staged, pendingMedia,
                  fetched>>
  BY DEF RecordAudio, AtWork
<1>2. worker' = [phase |-> "media", batch |-> worker.batch, todo |-> Tail(worker.todo),
                 landing |-> worker.landing]
  BY WorkerMoves DEF IntakeIInv, IntakeTypes, RecordAudio
<1>3. worker.phase # "recorded" /\ row' = [row EXCEPT ![c] = new]
  BY DEF IntakeIInv, IntakeTypes, RecordAudio
<1>4. c \in Message => new \in RowType /\ ~new.ref
  BY DEF IntakeIInv, IntakeTypes, RowType
<1>. HIDE DEF new
<1>5. /\ row' \in [Message -> RowType]
      /\ \A n \in Message : row'[n] = IF n = c THEN new ELSE row[n]
  BY <1>3, <1>4, OneRowChanges DEF IntakeIInv
<1>. QED
  BY <1>1, <1>2, <1>3, <1>4, <1>5, WorkerSpends

LEMMA ClearMediaKeeps == ASSUME IntakeIInv, ClearMedia PROVE IntakeIInv'
<1>. DEFINE c == Current
            new == [row[c] EXCEPT !.ref = FALSE]
<1>1. UNCHANGED <<settings, bridgeVars, swept, intakeCrashes, inbox, staged, pendingMedia,
                  fetched>>
  BY DEF ClearMedia, AtWork
<1>2. worker' = [phase |-> "media", batch |-> worker.batch, todo |-> Tail(worker.todo),
                 landing |-> worker.landing]
  BY WorkerMoves DEF IntakeIInv, IntakeTypes, ClearMedia
<1>3. row' = [row EXCEPT ![c] = new]
  BY DEF ClearMedia
<1>4. c \in Message => new \in RowType /\ ~new.ref
  BY DEF IntakeIInv, IntakeTypes, RowType
<1>. HIDE DEF new
<1>5. /\ row' \in [Message -> RowType]
      /\ \A n \in Message : row'[n] = IF n = c THEN new ELSE row[n]
  BY <1>3, <1>4, OneRowChanges DEF IntakeIInv
<1>. QED
  BY <1>1, <1>2, <1>4, <1>5, WorkerSpends

LEMMA TranscribeKeeps == ASSUME IntakeIInv, Transcribe PROVE IntakeIInv'
<1>1. PICK text \in {"heard", "fallback"} :
        row' = [row EXCEPT ![Current].audio = FALSE, ![Current].words = text]
  BY DEF Transcribe
<1>. DEFINE c == Current
            new == [row[c] EXCEPT !.audio = FALSE, !.words = text]
<1>2. UNCHANGED <<settings, bridgeVars, swept, intakeCrashes, inbox, staged, pendingMedia,
                  fetched>>
  BY DEF Transcribe, AtWork
<1>3. worker' = [phase |-> "heard", batch |-> worker.batch, todo |-> worker.todo,
                 landing |-> worker.landing]
  BY WorkerMoves DEF IntakeIInv, IntakeTypes, Transcribe
<1>4. worker.phase = "audio" /\ row' = [row EXCEPT ![c] = new]
  BY <1>1 DEF IntakeIInv, IntakeTypes, Transcribe
<1>5. c \in Message => new \in RowType /\ new.ref = row[c].ref
  BY DEF IntakeIInv, IntakeTypes, RowType, Words
<1>. HIDE DEF new
<1>6. /\ row' \in [Message -> RowType]
      /\ \A n \in Message : row'[n] = IF n = c THEN new ELSE row[n]
  BY <1>4, <1>5, OneRowChanges DEF IntakeIInv
<1>. QED
  BY <1>2, <1>3, <1>4, <1>5, <1>6, WorkerSpends

LEMMA BatchEndsKeeps == ASSUME IntakeIInv, BatchEnds PROVE IntakeIInv'
<1>1. PICK done \in BOOLEAN :
        row' = [m \in Message |->
                  IF done /\ m \in ToSet(worker.batch)
                  THEN [row[m] EXCEPT !.settled = TRUE] ELSE row[m]]
  BY DEF BatchEnds
<1>2. UNCHANGED <<settings, bridgeVars, swept, intakeCrashes, inbox, staged, pendingMedia,
                  fetched>>
  BY DEF BatchEnds, AtWork
<1>3. worker.phase = "turn"
      /\ worker' = [phase |-> "idle", batch |-> <<>>, todo |-> <<>>, landing |-> <<>>]
  BY DEF BatchEnds, Idle
<1>4. \A m \in Message : row'[m] \in RowType /\ row'[m].ref = row[m].ref
  BY <1>1 DEF IntakeIInv, IntakeTypes, RowType
<1>5. row' \in [Message -> RowType]
  BY <1>1, <1>4
<1>. QED
  BY <1>2, <1>3, <1>4, <1>5, WorkerSpends

\* Reading a file takes it off the volume: on the bridge it was still there, so
\* nobody had read it, nor staged its photo.
LEMMA DownloadKeeps == ASSUME IntakeIInv, Download PROVE IntakeIInv'
<1>1. /\ worker.phase = "media" /\ row[Current].ref /\ CanBeFetched(Current)
      /\ staged' = staged \ {Current} /\ fetched' = fetched \cup {Current}
      /\ UNCHANGED <<settings, bridgeVars, swept, intakeCrashes, inbox, row, pendingMedia>>
  BY DEF Download, Fetching, AtWork
<1>2. UNCHANGED <<transport, seen, handling, outbox, posted, late, queued>>
  BY <1>1 DEF settings, bridgeVars
<1>3. worker' = [phase |-> "held", batch |-> worker.batch, todo |-> worker.todo,
                 landing |-> worker.landing]
  BY WorkerMoves DEF IntakeIInv, IntakeTypes, Download
<1>4. IntakeTypes' /\ HeadIsAnswered' /\ QueuedIsNeverLost' /\ FilesOnTheWay'
      /\ WaitingRowKeepsItsFile'
  <2>1. /\ row' \in [Message -> RowType] /\ IsFiniteSet(pendingMedia') /\ PendingAreRecords'
        /\ intakeCrashes' \in Nat
    BY <1>1 DEF IntakeIInv, IntakeTypes, PendingAreRecords
  <2>. QED
    BY <1>1, <1>2, <1>3, <2>1, WorkerLeavesTheWay
<1>5. \A m : /\ HasInHand(m)' => m = Current
             /\ Copies(m)' = Copies(m) /\ HasRow(m)' = HasRow(m)
  BY <1>1, <1>3 DEF HasInHand, Current, Copies, HasRow
<1>6. RefsAreOfRows'
  BY <1>1, <1>5 DEF IntakeIInv, RefsAreOfRows
<1>7. ReadOnce'
  <2>. SUFFICES ASSUME transport = "bridge", NEW m \in Message
                PROVE  /\ Copies(m) # {} => m \in fetched'
                       /\ m \in fetched' => m \in seen /\ m \notin staged'
                       /\ m = Current => m \in fetched'
                       /\ m = Current => Copies(m) = {}
                       /\ Cardinality(Copies(m)) <= 1
    BY <1>2, <1>5 DEF ReadOnce
  <2>1. Current \in staged /\ staged \subseteq seen
    BY <1>1 DEF CanBeFetched, IntakeIInv, IntakeTypes
  <2>2. /\ Copies(m) # {} => m \in fetched
        /\ m \in fetched => m \in seen /\ m \notin staged
        /\ Cardinality(Copies(m)) <= 1
    BY DEF IntakeIInv, ReadOnce
  <2>. QED
    BY <1>1, <2>1, <2>2
<1>8. CopiesAreCounted'
  <2>1. worker.phase # "recorded" /\ worker'.phase # "recorded"
    BY <1>1, <1>3
  <2>2. \A m \in Message : Allowance(m)' = Allowance(m)
    BY <1>1, <2>1 DEF Allowance
  <2>. QED
    BY <1>2, <1>5, <2>2 DEF IntakeIInv, CopiesAreCounted
<1>. QED
  BY <1>4, <1>6, <1>7, <1>8 DEF IntakeIInv

\* A photo is staged of a row that refers to it, and of one that was just read.
LEMMA RecordPhotoKeeps == ASSUME IntakeIInv, RecordPhoto PROVE IntakeIInv'
<1>. DEFINE new == [id |-> mediaIds', photo |-> Current, attached |-> FALSE]
<1>1. /\ worker.phase = "stored" /\ pendingMedia' = pendingMedia \cup {new}
      /\ UNCHANGED <<settings, bridgeVars, swept, intakeCrashes, inbox, row, staged, fetched>>
  BY DEF RecordPhoto, AtWork
<1>2. UNCHANGED <<transport, seen, handling, outbox, posted, late, queued>>
  BY <1>1 DEF settings, bridgeVars
<1>3. worker' = [phase |-> "recorded", batch |-> worker.batch, todo |-> worker.todo,
                 landing |-> worker.landing]
  BY WorkerMoves DEF IntakeIInv, IntakeTypes, RecordPhoto
<1>4. /\ new.photo = Current
      /\ new = [id |-> new.id, photo |-> new.photo, attached |-> new.attached]
  OBVIOUS
<1>. HIDE DEF new
<1>5. IsFiniteSet(pendingMedia') /\ PendingAreRecords'
  <2>1. PendingAreRecords'
    BY <1>1, <1>4 DEF IntakeIInv, IntakeTypes, PendingAreRecords
  <2>. QED
    BY <1>1, <2>1, FS_AddElement DEF IntakeIInv, IntakeTypes
<1>6. IntakeTypes' /\ HeadIsAnswered' /\ QueuedIsNeverLost' /\ FilesOnTheWay'
      /\ WaitingRowKeepsItsFile'
  <2>1. row' \in [Message -> RowType] /\ intakeCrashes' \in Nat
    BY <1>1 DEF IntakeIInv, IntakeTypes
  <2>. QED
    BY <1>1, <1>2, <1>3, <1>5, <2>1, WorkerLeavesTheWay
<1>7. /\ Current' = Current
      /\ \A m : HasInHand(m)' => m = Current
      /\ \A m : m = Current => HasInHand(m)
      /\ \A m : HasRow(m)' = HasRow(m)
  BY <1>1, <1>3 DEF HasInHand, Current, HasRow
<1>8. \A m : Copies(m)' = IF m = Current THEN Copies(m) \cup {new} ELSE Copies(m)
  BY <1>1, <1>4 DEF Copies
<1>9. ASSUME NEW m PROVE IsFiniteSet(Copies(m)) /\ Cardinality(Copies(m)) \in Nat
  BY FS_Subset, FS_CardinalityType DEF IntakeIInv, IntakeTypes, Copies
<1>10. /\ IsFiniteSet(Copies(Current)) /\ Cardinality(Copies(Current)) \in Nat
       /\ Cardinality(Copies(Current) \cup {new}) <= Cardinality(Copies(Current)) + 1
  BY <1>9, FS_AddElement
<1>11. RefsAreOfRows'
  BY <1>1, <1>7 DEF IntakeIInv, RefsAreOfRows
<1>12. ReadOnce'
  <2>. SUFFICES ASSUME transport = "bridge", NEW m \in Message
                PROVE  /\ Copies(m)' # {} => m \in fetched
                       /\ m \in fetched => m \in seen /\ m \notin staged
                       /\ m = Current => m \in fetched
                       /\ Cardinality(Copies(m)') <= 1
    BY <1>1, <1>2, <1>3, <1>7 DEF ReadOnce
  <2>1. /\ Copies(m) # {} => m \in fetched
        /\ m \in fetched => m \in seen /\ m \notin staged
        /\ m = Current => m \in fetched /\ Copies(m) = {}
        /\ Cardinality(Copies(m)) <= 1
    BY <1>1, <1>7 DEF IntakeIInv, ReadOnce
  <2>2. CASE m = Current
    <3>1. Cardinality(Copies(m)) = 0
      BY <2>1, <2>2, FS_EmptySet
    <3>. QED
      BY <1>8, <1>10, <2>1, <2>2, <3>1
  <2>3. CASE m # Current
    BY <1>8, <2>1, <2>3
  <2>. QED
    BY <2>2, <2>3
<1>13. CopiesAreCounted'
  <2>. SUFFICES ASSUME NEW m \in Message
                PROVE  /\ Copies(m)' # {} => HasRow(m)
                       /\ transport = "cloud" => Cardinality(Copies(m)') <= Allowance(m)'
    BY <1>2, <1>7 DEF CopiesAreCounted
  <2>1. /\ Copies(m) # {} => HasRow(m)
        /\ transport = "cloud" => Cardinality(Copies(m)) <= Allowance(m)
    BY DEF IntakeIInv, CopiesAreCounted
  <2>2. intakeCrashes \in Nat /\ intakeCrashes' = intakeCrashes
    BY <1>1 DEF IntakeIInv, IntakeTypes
  <2>3. CASE m = Current
    <3>1. row[m].ref /\ HasRow(m)
      BY <1>7, <2>3 DEF IntakeIInv, RefsAreOfRows
    <3>2. Allowance(m) = intakeCrashes /\ Allowance(m)' = intakeCrashes + 1
      BY <1>1, <1>3, <1>7, <2>2, <2>3, <3>1 DEF Allowance
    <3>3. Copies(m)' = Copies(Current) \cup {new} /\ Copies(m) = Copies(Current)
      BY <1>8, <2>3
    <3>4. Cardinality(Copies(m)') <= Cardinality(Copies(m)) + 1 /\ Cardinality(Copies(m)) \in Nat
      BY <1>10, <3>3
    <3>5. Cardinality(Copies(m)') \in Nat
      BY <1>9, <3>3, FS_AddElement, FS_CardinalityType
    <3>. QED
      BY <2>1, <2>2, <3>1, <3>2, <3>4, <3>5
  <2>4. CASE m # Current
    <3>1. Allowance(m)' = Allowance(m)
      BY <1>1, <1>3, <1>7, <2>4 DEF Allowance
    <3>. QED
      BY <1>8, <2>1, <2>4, <3>1
  <2>. QED
    BY <2>3, <2>4
<1>. QED
  BY <1>6, <1>11, <1>12, <1>13 DEF IntakeIInv

\* Fewer photos, or as many with another mark, are no more copies.
LEMMA CopiesShrink ==
  ASSUME IntakeIInv,
         UNCHANGED <<settings, bridgeVars, swept, intakeCrashes, inbox, row, staged, fetched>>,
         worker' = [phase |-> worker'.phase, batch |-> worker'.batch, todo |-> worker'.todo,
                    landing |-> worker'.landing],
         \/ worker' = worker
         \/ /\ worker.phase \notin {"held", "stored", "recorded"}
            /\ worker'.phase \notin {"held", "stored", "recorded"},
         IsFiniteSet(pendingMedia'), PendingAreRecords',
         \A m \in Message : /\ Copies(m)' # {} => Copies(m) # {}
                            /\ Cardinality(Copies(m)') <= Cardinality(Copies(m))
  PROVE  IntakeIInv'
<1>1. UNCHANGED <<transport, seen, handling, outbox, posted, late, queued>>
  BY DEF settings, bridgeVars
<1>2. IntakeTypes' /\ HeadIsAnswered' /\ QueuedIsNeverLost' /\ FilesOnTheWay'
      /\ WaitingRowKeepsItsFile'
  <2>1. row' \in [Message -> RowType] /\ intakeCrashes' \in Nat
    BY DEF IntakeIInv, IntakeTypes
  <2>. QED
    BY <1>1, <2>1, WorkerLeavesTheWay
<1>3. \A m : /\ HasInHand(m)' => HasInHand(m) /\ worker' = worker
             /\ HasRow(m)' = HasRow(m)
  BY DEF HasInHand, Current, HasRow
<1>4. \A m \in Message : /\ Cardinality(Copies(m)) \in Nat
                         /\ Cardinality(Copies(m)') \in Nat
                         /\ Allowance(m) \in Nat /\ Allowance(m)' = Allowance(m)
  <2>. SUFFICES ASSUME NEW m \in Message
                PROVE  /\ Cardinality(Copies(m)) \in Nat
                       /\ Cardinality(Copies(m)') \in Nat
                       /\ Allowance(m) \in Nat /\ Allowance(m)' = Allowance(m)
    OBVIOUS
  <2>1. Copies(m) \subseteq pendingMedia /\ Copies(m)' \subseteq pendingMedia'
    BY DEF Copies
  <2>2. Cardinality(Copies(m)) \in Nat
    BY <2>1, FS_Subset, FS_CardinalityType DEF IntakeIInv, IntakeTypes
  <2>3. Cardinality(Copies(m)') \in Nat
    BY <2>1, FS_Subset, FS_CardinalityType
  <2>4. Allowance(m) \in Nat
    BY DEF IntakeIInv, IntakeTypes, Allowance
  <2>5. CASE worker' = worker
    BY <2>2, <2>3, <2>4, <2>5 DEF Allowance, Current
  <2>6. CASE worker.phase # "recorded" /\ worker'.phase # "recorded"
    BY <2>2, <2>3, <2>4, <2>6 DEF Allowance
  <2>. QED
    BY <2>5, <2>6
<1>5. RefsAreOfRows'
  BY <1>3 DEF IntakeIInv, RefsAreOfRows
<1>6. ReadOnce'
  <2>. SUFFICES ASSUME transport = "bridge", NEW m \in Message
                PROVE  /\ Copies(m)' # {} => m \in fetched
                       /\ m \in fetched => m \in seen /\ m \notin staged
                       /\ HasInHand(m)' => m \in fetched
                       /\ HasInHand(m)' /\ worker'.phase # "recorded" => Copies(m)' = {}
                       /\ Cardinality(Copies(m)') <= 1
    BY <1>1 DEF ReadOnce
  <2>1. /\ Copies(m) # {} => m \in fetched
        /\ m \in fetched => m \in seen /\ m \notin staged
        /\ HasInHand(m) => m \in fetched
        /\ HasInHand(m) /\ worker.phase # "recorded" => Copies(m) = {}
        /\ Cardinality(Copies(m)) <= 1
    BY DEF IntakeIInv, ReadOnce
  <2>2. /\ Copies(m)' # {} => Copies(m) # {}
        /\ Cardinality(Copies(m)') <= Cardinality(Copies(m))
    OBVIOUS
  <2>3. Cardinality(Copies(m)') <= 1
    BY <1>4, <2>1, <2>2
  <2>. QED
    BY <1>3, <2>1, <2>2, <2>3
<1>7. CopiesAreCounted'
  <2>. SUFFICES ASSUME NEW m \in Message
                PROVE  /\ Copies(m)' # {} => HasRow(m)
                       /\ transport = "cloud" => Cardinality(Copies(m)') <= Allowance(m)'
    BY <1>1, <1>3 DEF CopiesAreCounted
  <2>1. /\ Copies(m) # {} => HasRow(m)
        /\ transport = "cloud" => Cardinality(Copies(m)) <= Allowance(m)
    BY DEF IntakeIInv, CopiesAreCounted
  <2>2. /\ Copies(m)' # {} => Copies(m) # {}
        /\ Cardinality(Copies(m)') <= Cardinality(Copies(m))
    OBVIOUS
  <2>. QED
    BY <1>4, <2>1, <2>2
<1>. QED
  BY <1>2, <1>5, <1>6, <1>7 DEF IntakeIInv

LEMMA MarkAttachedKeeps == ASSUME IntakeIInv, MarkAttached PROVE IntakeIInv'
<1>. DEFINE Mark(e) == IF e.id \in ToSet(worker.landing) THEN [e EXCEPT !.attached = TRUE] ELSE e
<1>1. /\ worker.phase = "uploaded" /\ pendingMedia' = {Mark(e) : e \in pendingMedia}
      /\ UNCHANGED <<settings, bridgeVars, swept, intakeCrashes, inbox, row, staged, fetched>>
  BY DEF MarkAttached, AtWork
<1>2. worker' = [phase |-> "turn", batch |-> worker.batch, todo |-> worker.todo,
                 landing |-> <<>>]
  BY DEF IntakeIInv, IntakeTypes, WorkerIsARecord, MarkAttached
<1>3. \A e \in pendingMedia :
        /\ Mark(e).photo = e.photo
        /\ Mark(e) = [id |-> Mark(e).id, photo |-> Mark(e).photo, attached |-> Mark(e).attached]
  <2>. SUFFICES ASSUME NEW e \in pendingMedia
                PROVE  /\ Mark(e).photo = e.photo
                       /\ Mark(e) = [id |-> Mark(e).id, photo |-> Mark(e).photo,
                                      attached |-> Mark(e).attached]
    OBVIOUS
  <2>1. e = [id |-> e.id, photo |-> e.photo, attached |-> e.attached]
    BY DEF IntakeIInv, IntakeTypes, PendingAreRecords
  <2>2. \/ Mark(e) = [id |-> e.id, photo |-> e.photo, attached |-> TRUE]
        \/ Mark(e) = e
    BY <2>1
  <2>. HIDE DEF Mark
  <2>. QED
    BY <2>1, <2>2
<1>. HIDE DEF Mark
<1>4. PendingAreRecords'
  BY <1>1, <1>3 DEF PendingAreRecords
<1>5. ASSUME NEW S, S \subseteq pendingMedia
      PROVE  /\ IsFiniteSet({Mark(e) : e \in S})
             /\ Cardinality({Mark(e) : e \in S}) <= Cardinality(S)
  <2>. DEFINE T == {Mark(e) : e \in S}
              f == [e \in S |-> Mark(e)]
  <2>1. IsFiniteSet(S)
    BY <1>5, FS_Subset DEF IntakeIInv, IntakeTypes
  <2>2. f \in Surjection(S, T)
    BY DEF Surjection
  <2>. QED
    BY <2>1, <2>2, FS_Surjection
<1>6. \A m : Copies(m)' = {Mark(e) : e \in Copies(m)}
  BY <1>1, <1>3 DEF Copies
<1>7. \A m \in Message : /\ Copies(m)' # {} => Copies(m) # {}
                         /\ Cardinality(Copies(m)') <= Cardinality(Copies(m))
  <2>1. \A m : Copies(m) \subseteq pendingMedia
    BY DEF Copies
  <2>. QED
    BY <1>5, <1>6, <2>1
<1>8. IsFiniteSet(pendingMedia')
  BY <1>1, <1>5
<1>. QED
  BY <1>1, <1>2, <1>4, <1>7, <1>8, CopiesShrink

-----------------------------------------------------------------------------
(* Housekeeping, and the crash of the server.                                  *)

LEMMA SweepStagedKeeps == ASSUME IntakeIInv, SweepStaged PROVE IntakeIInv'
<1>1. PICK m \in staged : staged' = staged \ {m} /\ swept' = swept \cup {m}
  BY DEF SweepStaged
<1>2. UNCHANGED <<settings, bridgeVars, serverVars, intakeCrashes>>
  BY DEF SweepStaged
<1>3. /\ UNCHANGED <<transport, content, seen, handling, outbox, posted, late, queued>>
      /\ UNCHANGED <<inbox, row, worker, pendingMedia, fetched>>
  BY <1>2 DEF settings, bridgeVars, serverVars
<1>4. IntakeTypes' /\ HeadIsAnswered' /\ QueuedIsNeverLost' /\ FilesOnTheWay'
      /\ WaitingRowKeepsItsFile'
  <2>1. /\ row' \in [Message -> RowType] /\ IsFiniteSet(pendingMedia') /\ PendingAreRecords'
        /\ intakeCrashes' \in Nat
    BY <1>2, <1>3 DEF IntakeIInv, IntakeTypes, PendingAreRecords
  <2>2. worker' = [phase |-> worker'.phase, batch |-> worker'.batch, todo |-> worker'.todo,
                   landing |-> worker'.landing]
    BY <1>3 DEF IntakeIInv, IntakeTypes, WorkerIsARecord
  <2>. QED
    BY <1>1, <1>2, <1>3, <2>1, <2>2, WorkerLeavesTheWay
<1>5. \A n : /\ HasInHand(n)' = HasInHand(n) /\ HasRow(n)' = HasRow(n)
             /\ Copies(n)' = Copies(n) /\ Allowance(n)' = Allowance(n)
  BY <1>2, <1>3 DEF HasInHand, Current, HasRow, Copies, Allowance
<1>6. RefsAreOfRows'
  BY <1>3, <1>5 DEF IntakeIInv, RefsAreOfRows
<1>7. ReadOnce'
  BY <1>1, <1>3, <1>5 DEF IntakeIInv, ReadOnce
<1>8. CopiesAreCounted'
  BY <1>3, <1>5 DEF IntakeIInv, CopiesAreCounted
<1>. QED
  BY <1>4, <1>6, <1>7, <1>8 DEF IntakeIInv

LEMMA SweepPendingKeeps == ASSUME IntakeIInv, SweepPending PROVE IntakeIInv'
<1>1. PICK e \in pendingMedia : pendingMedia' = pendingMedia \ {e}
  BY DEF SweepPending
<1>2. /\ UNCHANGED <<settings, bridgeVars, swept, intakeCrashes, inbox, row, staged, fetched>>
      /\ worker' = worker
  BY DEF SweepPending
<1>3. worker' = [phase |-> worker'.phase, batch |-> worker'.batch, todo |-> worker'.todo,
                 landing |-> worker'.landing]
  BY <1>2 DEF IntakeIInv, IntakeTypes, WorkerIsARecord
<1>4. IsFiniteSet(pendingMedia') /\ PendingAreRecords'
  <2>1. IsFiniteSet(pendingMedia')
    BY <1>1, FS_Subset DEF IntakeIInv, IntakeTypes
  <2>. QED
    BY <1>1, <2>1 DEF IntakeIInv, IntakeTypes, PendingAreRecords
<1>5. ASSUME NEW m \in Message
      PROVE  /\ Copies(m)' # {} => Copies(m) # {}
             /\ Cardinality(Copies(m)') <= Cardinality(Copies(m))
  <2>1. Copies(m)' \subseteq Copies(m) /\ IsFiniteSet(Copies(m))
    BY <1>1, FS_Subset DEF IntakeIInv, IntakeTypes, Copies
  <2>. QED
    BY <2>1, FS_Subset
<1>. QED
  BY <1>2, <1>3, <1>4, <1>5, CopiesShrink

\* What was at hand when the server died is fetched again by the Cloud API.
LEMMA ServerCrashKeeps == ASSUME IntakeIInv, ServerCrash PROVE IntakeIInv'
<1>1. /\ late' = {} /\ intakeCrashes' = intakeCrashes + 1
      /\ UNCHANGED <<settings, seen, handling, outbox, posted, queued, staged, inbox, row,
                     pendingMedia, fetched, swept>>
      /\ worker' = [phase |-> "idle", batch |-> <<>>, todo |-> <<>>, landing |-> <<>>]
  BY DEF ServerCrash, Idle
<1>2. transport' = transport /\ intakeCrashes \in Nat
  BY <1>1 DEF IntakeIInv, IntakeTypes, settings
<1>3. IntakeTypes' /\ HeadIsAnswered' /\ QueuedIsNeverLost' /\ FilesOnTheWay'
      /\ WaitingRowKeepsItsFile'
  <2>1. /\ row' \in [Message -> RowType] /\ IsFiniteSet(pendingMedia') /\ PendingAreRecords'
        /\ intakeCrashes' \in Nat
    BY <1>1, <1>2 DEF IntakeIInv, IntakeTypes, PendingAreRecords
  <2>. QED
    BY <1>1, <2>1, WorkerLeavesTheWay
<1>4. \A m : ~HasInHand(m)' /\ Copies(m)' = Copies(m) /\ HasRow(m)' = HasRow(m)
  BY <1>1 DEF HasInHand, Copies, HasRow
<1>5. RefsAreOfRows'
  BY <1>1, <1>4 DEF IntakeIInv, RefsAreOfRows
<1>6. ReadOnce'
  BY <1>1, <1>2, <1>4 DEF IntakeIInv, ReadOnce
<1>7. CopiesAreCounted'
  <2>1. ASSUME NEW m \in Message, transport = "cloud"
        PROVE  Cardinality(Copies(m)') <= Allowance(m)'
    <3>1. Allowance(m)' = intakeCrashes + 1 + (IF row[m].ref THEN 0 ELSE 1)
      BY <1>1 DEF Allowance
    <3>2. Allowance(m) \in {intakeCrashes, intakeCrashes + 1}
      BY <1>2 DEF Allowance
    <3>3. ~row[m].ref => Allowance(m)' = intakeCrashes + 2
      BY <1>2, <3>1
    <3>4. row[m].ref => Allowance(m)' = intakeCrashes + 1
      BY <1>2, <3>1
    <3>5. Cardinality(Copies(m)) <= Allowance(m)
      BY <2>1 DEF IntakeIInv, CopiesAreCounted
    <3>6. Cardinality(Copies(m)) \in Nat
      BY FS_Subset, FS_CardinalityType DEF IntakeIInv, IntakeTypes, Copies
    <3>. QED
      BY <1>2, <1>4, <3>2, <3>3, <3>4, <3>5, <3>6
  <2>. QED
    BY <1>2, <1>4, <2>1 DEF IntakeIInv, CopiesAreCounted
<1>. QED
  BY <1>3, <1>5, <1>6, <1>7 DEF IntakeIInv

-----------------------------------------------------------------------------
(* Every step keeps it; what it says of every state.                           *)

LEMMA IntakeStutterKeeps == ASSUME IntakeIInv, UNCHANGED intakeVars PROVE IntakeIInv'
<1>1. /\ UNCHANGED <<settings, bridgeVars, swept, intakeCrashes, inbox, row, staged, fetched>>
      /\ UNCHANGED <<worker, pendingMedia>>
  BY DEF intakeVars, serverVars
<1>2. /\ worker' = [phase |-> worker'.phase, batch |-> worker'.batch, todo |-> worker'.todo,
                    landing |-> worker'.landing]
      /\ IsFiniteSet(pendingMedia') /\ PendingAreRecords'
  BY <1>1 DEF IntakeIInv, IntakeTypes, WorkerIsARecord, PendingAreRecords
<1>3. ASSUME NEW m \in Message
      PROVE  /\ Copies(m)' # {} => Copies(m) # {}
             /\ Cardinality(Copies(m)') <= Cardinality(Copies(m))
  <2>1. Copies(m)' = Copies(m) /\ Copies(m) \subseteq pendingMedia
    BY <1>1 DEF Copies
  <2>2. Cardinality(Copies(m)) \in Nat
    BY <2>1, FS_Subset, FS_CardinalityType DEF IntakeIInv, IntakeTypes
  <2>. QED
    BY <2>1, <2>2
<1>. QED
  BY <1>1, <1>2, <1>3, CopiesShrink

LEMMA IntakeNextKeeps == IntakeIInv /\ [IntakeNext]_intakeVars => IntakeIInv'
<1>. SUFFICES ASSUME IntakeIInv, [IntakeNext]_intakeVars PROVE IntakeIInv'
  OBVIOUS
<1>1. ASSUME NEW m \in Message, Handle(m) PROVE IntakeIInv'
  BY <1>1, HandleKeeps
<1>2. ASSUME NEW m \in Message, MetaPosts(m) PROVE IntakeIInv'
  BY <1>2, MetaPostsKeeps
<1>3. CASE Enqueue
  BY <1>3, EnqueueKeeps
<1>4. CASE Post
  BY <1>4, PostKeeps
<1>5. CASE Settle
  BY <1>5, SettleKeeps
<1>6. CASE GiveUp
  BY <1>6, GiveUpKeeps
<1>7. CASE Webhook
  BY <1>7, WebhookKeeps
<1>8. CASE WebhookLate
  BY <1>8, WebhookLateKeeps
<1>9. CASE Claim
  BY <1>9, ClaimKeeps
<1>10. CASE PassOver
  BY <1>10, PassOverKeeps
<1>11. CASE Download
  BY <1>11, DownloadKeeps
<1>12. CASE FileFails
  BY <1>12, FileFailsKeeps
<1>13. CASE Save
  BY <1>13, SaveKeeps
<1>14. CASE RecordAudio
  BY <1>14, RecordAudioKeeps
<1>15. CASE RecordPhoto
  BY <1>15, RecordPhotoKeeps
<1>16. CASE ClearMedia
  BY <1>16, ClearMediaKeeps
<1>17. CASE Transcribe
  BY <1>17, TranscribeKeeps
<1>18. CASE Unlink
  BY <1>18, UnlinkKeeps
<1>19. CASE UploadPhotos
  BY <1>19, UploadPhotosKeeps
<1>20. CASE MarkAttached
  BY <1>20, MarkAttachedKeeps
<1>21. CASE BatchEnds
  BY <1>21, BatchEndsKeeps
<1>22. CASE SweepStaged
  BY <1>22, SweepStagedKeeps
<1>23. CASE SweepPending
  BY <1>23, SweepPendingKeeps
<1>24. CASE BridgeCrash
  BY <1>24, BridgeCrashKeeps
<1>25. CASE ServerCrash
  BY <1>25, ServerCrashKeeps
<1>26. CASE UNCHANGED intakeVars
  BY <1>26, IntakeStutterKeeps
<1>. QED
  BY <1>1, <1>2, <1>3, <1>4, <1>5, <1>6, <1>7, <1>8, <1>9, <1>10, <1>11, <1>12, <1>13, <1>14,
     <1>15, <1>16, <1>17, <1>18, <1>19, <1>20, <1>21, <1>22, <1>23, <1>24, <1>25, <1>26
  DEF IntakeNext

\* The bridge's answers, the files and the copies are as said in every state the
\* transports, the worker, housekeeping and crashes lead to.
THEOREM IntakeInvariant == IntakeSpec => []IntakeIInv
<1>. QED
  BY IntakeInitEstablishes, IntakeNextKeeps, PTL DEF IntakeSpec

\* What the outbox once held is still there, or a row, or could never be one:
\* no timeout, lost answer, failed DELETE or crash loses it (outbox.go).
THEOREM QueuedLosesNothing == IntakeSpec => []QueuedIsNeverLost
<1>1. IntakeIInv => QueuedIsNeverLost
  BY DEF IntakeIInv
<1>. QED
  BY <1>1, IntakeInvariant, PTL

\* A row of the bridge's that waits for its file finds it, unless the worker read
\* it or the sweep took it for old: no redelivery releases it (webhook.ts).
THEOREM WaitingKeepsFile == IntakeSpec => []WaitingRowKeepsItsFile
<1>1. IntakeIInv => WaitingRowKeepsItsFile
  BY DEF IntakeIInv
<1>. QED
  BY <1>1, IntakeInvariant, PTL

\* With the bridge no photo is staged twice; with the Cloud API only a crash
\* stages one again, and each crash no more than once (resolveMedia).
THEOREM StagedOnce == IntakeSpec => []PhotoStagedOnce
<1>1. ASSUME IntakeIInv PROVE PhotoStagedOnce
  <2>1. transport \in {"bridge", "cloud"} /\ intakeCrashes \in Nat
    BY <1>1 DEF IntakeIInv, IntakeTypes
  <2>2. ASSUME NEW m \in Message
        PROVE  Cardinality({e \in pendingMedia : e.photo = m})
                 <= 1 + (IF transport = "bridge" THEN 0 ELSE intakeCrashes)
    <3>1. {e \in pendingMedia : e.photo = m} = Copies(m)
      BY DEF Copies
    <3>2. Cardinality(Copies(m)) \in Nat
      BY <1>1, FS_Subset, FS_CardinalityType DEF IntakeIInv, IntakeTypes, Copies
    <3>3. transport = "bridge" => Cardinality(Copies(m)) <= 1
      BY <1>1 DEF IntakeIInv, ReadOnce
    <3>4. transport = "cloud" => Cardinality(Copies(m)) <= intakeCrashes + 1
      <4>1. Allowance(m) \in {intakeCrashes, intakeCrashes + 1}
        BY <2>1 DEF Allowance
      <4>2. transport = "cloud" => Cardinality(Copies(m)) <= Allowance(m)
        BY <1>1 DEF IntakeIInv, CopiesAreCounted
      <4>. QED
        BY <2>1, <3>2, <4>1, <4>2
    <3>. QED
      BY <2>1, <3>1, <3>2, <3>3, <3>4
  <2>. QED
    BY <2>2 DEF PhotoStagedOnce
<1>. QED
  BY <1>1, IntakeInvariant, PTL

-----------------------------------------------------------------------------
(* Sorted lists.                                                              *)

\* A finite set in a total order has a list in that order: put each element
\* where the number of those up to it says.
LEMMA SortedListExists ==
  ASSUME NEW S, IsFiniteSet(S), NEW R,
         \A x, y, z \in S : <<x, y>> \in R /\ <<y, z>> \in R => <<x, z>> \in R,
         \A x \in S : <<x, x>> \notin R,
         \A x, y \in S : x = y \/ <<x, y>> \in R \/ <<y, x>> \in R
  PROVE  \E s \in [1 .. Cardinality(S) -> S] :
           \A i, j \in DOMAIN s : i < j => <<s[i], s[j]>> \in R
<1>. DEFINE n == Cardinality(S)
            UpTo(x) == {y \in S : y = x \/ <<y, x>> \in R}
            rank == [x \in S |-> Cardinality(UpTo(x))]
            s == [i \in 1 .. n |-> CHOOSE x \in S : rank[x] = i]
<1>1. n \in Nat /\ IsFiniteSet(1 .. n) /\ Cardinality(1 .. n) = n
  BY FS_CardinalityType, FS_Interval
<1>2. ASSUME NEW x \in S PROVE rank[x] \in 1 .. n
  <2>1. /\ IsFiniteSet(UpTo(x)) /\ Cardinality(UpTo(x)) <= n
    BY FS_Subset, UpTo(x) \subseteq S
  <2>2. Cardinality(UpTo(x)) \in Nat /\ Cardinality(UpTo(x)) # 0
    BY <2>1, FS_CardinalityType, FS_EmptySet, x \in UpTo(x)
  <2>. QED
    BY <1>1, <2>1, <2>2
<1>3. ASSUME NEW x \in S, NEW y \in S, <<x, y>> \in R PROVE rank[x] < rank[y]
  <2>1. UpTo(x) \subseteq UpTo(y) /\ y \in UpTo(y) /\ y \notin UpTo(x)
    BY <1>3
  <2>2. IsFiniteSet(UpTo(y))
    BY FS_Subset, UpTo(y) \subseteq S
  <2>3. /\ Cardinality(UpTo(x)) <= Cardinality(UpTo(y))
        /\ Cardinality(UpTo(x)) # Cardinality(UpTo(y))
    BY <2>1, <2>2, FS_Subset
  <2>. QED
    BY <1>1, <1>2, <2>3
<1>. HIDE DEF rank
<1>4. rank \in [S -> 1 .. n]
  BY <1>2 DEF rank
<1>5. ASSUME NEW x \in S, NEW y \in S, x # y PROVE rank[x] # rank[y]
  <2>1. <<x, y>> \in R \/ <<y, x>> \in R
    BY <1>5
  <2>2. rank[x] \in Nat /\ rank[y] \in Nat
    BY <1>1, <1>2
  <2>. QED
    BY <1>3, <2>1, <2>2
<1>6. rank \in Injection(S, 1 .. n)
  BY <1>4, <1>5 DEF Injection, IsInjective
<1>7. rank \in Surjection(S, 1 .. n)
  BY <1>1, <1>6, FS_Injection
<1>8. \A i \in 1 .. n : \E x \in S : rank[x] = i
  BY <1>7 DEF Surjection
<1>9. \A i \in 1 .. n : s[i] \in S /\ rank[s[i]] = i
  BY <1>8
<1>. HIDE DEF s
<1>10. s \in [1 .. n -> S]
  BY <1>9 DEF s
<1>11. ASSUME NEW i \in 1 .. n, NEW j \in 1 .. n, i < j PROVE <<s[i], s[j]>> \in R
  <2>1. s[i] # s[j]
    BY <1>9, <1>11
  <2>2. <<s[j], s[i]>> \notin R
    BY <1>1, <1>3, <1>9, <1>11
  <2>. QED
    BY <1>9, <2>1, <2>2
<1>. QED
  BY <1>10, <1>11

\* A list without repetition that is as long as its set is large holds all of it.
LEMMA WholeList ==
  ASSUME NEW S, IsFiniteSet(S), NEW f \in [1 .. Cardinality(S) -> S],
         \A i, j \in 1 .. Cardinality(S) : i < j => f[i] # f[j]
  PROVE  /\ f \in Seq(S) /\ ToSet(f) = S
         /\ Len(f) = Cardinality(S) /\ DOMAIN f = 1 .. Len(f)
         /\ f = <<>> <=> S = {}
<1>. DEFINE n == Cardinality(S)
<1>1. n \in Nat /\ Cardinality(1 .. n) = n
  BY FS_CardinalityType, FS_Interval
<1>2. \A i, j \in 1 .. n : f[i] = f[j] => i = j
  BY <1>1
<1>3. f \in Injection(1 .. n, S)
  BY <1>2 DEF Injection, IsInjective
<1>4. f \in Surjection(1 .. n, S)
  BY <1>1, <1>3, FS_Injection
<1>5. f \in Seq(S) /\ DOMAIN f = 1 .. n
  BY <1>1, SeqDef
<1>6. Len(f) = n
  BY <1>1, <1>5, LenProperties
<1>7. ToSet(f) = S
  BY <1>4, <1>5 DEF ToSet, Surjection
<1>8. f = <<>> <=> S = {}
  BY <1>1, <1>5, <1>6, EmptySeq, FS_EmptySet
<1>. QED
  BY <1>5, <1>6, <1>7, <1>8

-----------------------------------------------------------------------------
(* The order of photos.                                                       *)

\* A message is queued once, after the handler was given it; the outbox is what
\* is left of the queue, and only what was its head can have been given up on.
Gone == Len(queued) - Len(outbox)

QueuedOnce ==
  /\ handling # NoEvent => handling.msg \in seen
  /\ \A i \in DOMAIN queued :
       /\ queued[i].msg \in seen
       /\ handling # NoEvent => queued[i].msg # handling.msg
       /\ \A j \in DOMAIN queued : queued[i].msg = queued[j].msg => i = j

OutboxIsTheRest ==
  /\ Len(outbox) <= Len(queued)
  /\ \A i \in DOMAIN outbox : outbox[i] = queued[Gone + i]

LateWereHeads ==
  transport = "bridge" =>
    \A e \in late : \E i \in DOMAIN queued : i <= Gone + 1 /\ queued[i] = e

\* Rows come in the order of the queue.
Behind(m, n) == \E i, j \in DOMAIN queued : i < j /\ queued[i].msg = m /\ queued[j].msg = n

RowsFollowTheQueue ==
  /\ \A i, j \in DOMAIN inbox : inbox[i] = inbox[j] => i = j
  /\ transport = "bridge" =>
       /\ \A m \in ToSet(inbox) : \E i \in DOMAIN queued : i <= Gone + 1 /\ queued[i].msg = m
       /\ \A m, n \in Message : ArrivedBefore(m, n) => Behind(m, n)

\* The worker takes the files of its batch as the rows came, and leaves none of
\* them behind.
AtFiles == worker.phase \in {"media", "held", "stored", "recorded"}

BatchInHand ==
  /\ worker.phase \in {"held", "stored", "recorded", "heard"} => worker.todo # <<>>
  /\ ToSet(worker.todo) \subseteq ToSet(worker.batch) /\ ToSet(worker.batch) \subseteq ToSet(inbox)

FilesInOrder ==
  AtFiles =>
    /\ \A i, j \in DOMAIN worker.todo : i < j => ArrivedBefore(worker.todo[i], worker.todo[j])
    /\ \A n \in ToSet(worker.todo), m \in Message :
         ArrivedBefore(m, n) /\ row[m].ref => m \in ToSet(worker.todo)

NoneLeftBehind ==
  \A m \in Message :
    /\ m \in ToSet(worker.batch) /\ row[m].ref => AtFiles /\ m \in ToSet(worker.todo)
    /\ row[m].settled => HasRow(m) /\ ~row[m].ref

\* Ids are handed out in that order, and who was passed over stays so.
IdsAreDrawn == \A d, e \in pendingMedia : d.id = e.id => d = e

StagedInOrder ==
  \A d, e \in pendingMedia : d.id < e.id => ArrivedBefore(d.photo, e.photo) \/ d.photo = e.photo

NobodyOvertaken ==
  \A e \in pendingMedia, m \in Message : ArrivedBefore(m, e.photo) => ~row[m].ref

\* What the worker's lists and the ledgers hold.
ListsAreTyped ==
  /\ worker.phase \in Phase
  /\ worker.batch \in Seq(Message) /\ worker.todo \in Seq(Message) /\ worker.landing \in Seq(Nat)

LedgersAreTyped ==
  /\ content \in Mixes /\ intakeCrashes \in 0 .. MaxIntakeCrashes
  /\ audioFiles \subseteq Message /\ landed \subseteq Message
  /\ swept \subseteq Message /\ fetched \subseteq Message
  /\ mediaIds \in Nat
  /\ pendingMedia \subseteq [id : 1 .. mediaIds, photo : Message, attached : BOOLEAN]

QueueOrder == QueuedOnce /\ OutboxIsTheRest /\ LateWereHeads /\ RowsFollowTheQueue

WorkOrder == BatchInHand /\ FilesInOrder /\ NoneLeftBehind

PhotoOrder == IdsAreDrawn /\ StagedInOrder /\ NobodyOvertaken

OrderIInv ==
  /\ ListsAreTyped /\ LedgersAreTyped
  /\ QueueOrder /\ WorkOrder /\ PhotoOrder

\* What listPendingMedia gives is what is not attached, in its order.
LEMMA PendingIsListed ==
  ASSUME IntakeIInv, LedgersAreTyped, IdsAreDrawn
  PROVE  LET open == {e \in pendingMedia : ~e.attached}
         IN  /\ PendingPhotos \in Seq(open) /\ ToSet(PendingPhotos) = open
             /\ \A i, j \in DOMAIN PendingPhotos :
                  i < j => ListedBefore(PendingPhotos[i], PendingPhotos[j])
<1>. DEFINE open == {e \in pendingMedia : ~e.attached}
            R == {p \in open \X open : ListedBefore(p[1], p[2])}
<1>1. IsFiniteSet(open)
  BY FS_Subset DEF IntakeIInv, IntakeTypes
<1>2. \A e \in open : e.id \in Nat /\ StampOf(e) \in Nat /\ e.photo \in Message
  BY IntakeAssumption DEF LedgersAreTyped, StampOf, IntakeAssumption
<1>3. \A d, e \in open : <<d, e>> \in R <=> ListedBefore(d, e)
  OBVIOUS
<1>4. \A d, e \in open : d.id = e.id => d = e
  BY DEF IdsAreDrawn
<1>. HIDE DEF R, open
<1>5. \A c, d, e \in open : <<c, d>> \in R /\ <<d, e>> \in R => <<c, e>> \in R
  BY <1>2, <1>3 DEF ListedBefore
<1>6. \A d \in open : <<d, d>> \notin R
  BY <1>2, <1>3 DEF ListedBefore
<1>7. ASSUME NEW d \in open, NEW e \in open, d # e PROVE <<d, e>> \in R \/ <<e, d>> \in R
  <2>1. d.id \in Nat /\ e.id \in Nat /\ d.id # e.id
    BY <1>2, <1>4, <1>7
  <2>2. StampOf(d) \in Nat /\ StampOf(e) \in Nat
    BY <1>2
  <2>3. ListedBefore(d, e) \/ ListedBefore(e, d)
    BY <2>1, <2>2 DEF ListedBefore
  <2>. QED
    BY <1>3, <2>3
<1>8. \E s \in [1 .. Cardinality(open) -> open] :
        \A i, j \in DOMAIN s : i < j => <<s[i], s[j]>> \in R
  BY <1>1, <1>5, <1>6, <1>7, SortedListExists
<1>9. \E s \in [1 .. Cardinality(open) -> open] :
        \A i, j \in DOMAIN s : i < j => ListedBefore(s[i], s[j])
  <2>1. PICK s \in [1 .. Cardinality(open) -> open] :
          \A i, j \in DOMAIN s : i < j => <<s[i], s[j]>> \in R
    BY <1>8
  <2>. QED
    BY <1>3, <2>1
<1>10. /\ PendingPhotos \in [1 .. Cardinality(open) -> open]
       /\ \A i, j \in DOMAIN PendingPhotos :
            i < j => ListedBefore(PendingPhotos[i], PendingPhotos[j])
  BY <1>9 DEF PendingPhotos, InOrder, open
<1>11. \A i, j \in 1 .. Cardinality(open) : i < j => PendingPhotos[i] # PendingPhotos[j]
  BY <1>3, <1>6, <1>10
<1>12. PendingPhotos \in Seq(open) /\ ToSet(PendingPhotos) = open
  BY <1>1, <1>10, <1>11, WholeList
<1>. QED
  BY <1>10, <1>12 DEF open

\* Arrival is an order of the rows.
LEMMA ArrivalIsAnOrder ==
  ASSUME inbox \in Seq(Message), RowsFollowTheQueue
  PROVE  /\ \A l, m, n : ArrivedBefore(l, m) /\ ArrivedBefore(m, n) => ArrivedBefore(l, n)
         /\ \A m, n : ArrivedBefore(m, n) => ~ArrivedBefore(n, m) /\ m # n
         /\ \A m, n : ArrivedBefore(m, n) => HasRow(m) /\ HasRow(n)
         /\ \A m, n \in ToSet(inbox) : m = n \/ ArrivedBefore(m, n) \/ ArrivedBefore(n, m)
<1>1. Len(inbox) \in Nat /\ DOMAIN inbox = 1 .. Len(inbox)
  BY LenProperties
<1>2. \A i, j \in DOMAIN inbox : inbox[i] = inbox[j] => i = j
  BY DEF RowsFollowTheQueue
<1>3. ASSUME NEW l, NEW m, NEW n, ArrivedBefore(l, m), ArrivedBefore(m, n)
      PROVE  ArrivedBefore(l, n)
  <2>1. PICK i, j \in DOMAIN inbox : i < j /\ inbox[i] = l /\ inbox[j] = m
    BY <1>3 DEF ArrivedBefore
  <2>2. PICK k, h \in DOMAIN inbox : k < h /\ inbox[k] = m /\ inbox[h] = n
    BY <1>3 DEF ArrivedBefore
  <2>3. j = k
    BY <1>2, <2>1, <2>2
  <2>4. i < h
    BY <1>1, <2>1, <2>2, <2>3
  <2>. QED
    BY <2>1, <2>2, <2>4 DEF ArrivedBefore
<1>4. ASSUME NEW m, NEW n, ArrivedBefore(m, n)
      PROVE  ~ArrivedBefore(n, m) /\ m # n /\ HasRow(m) /\ HasRow(n)
  <2>1. PICK i, j \in DOMAIN inbox : i < j /\ inbox[i] = m /\ inbox[j] = n
    BY <1>4 DEF ArrivedBefore
  <2>2. m # n
    BY <1>1, <1>2, <2>1
  <2>3. ASSUME NEW k \in DOMAIN inbox, NEW h \in DOMAIN inbox, k < h, inbox[k] = n, inbox[h] = m
        PROVE  FALSE
    <3>1. h = i /\ k = j
      BY <1>2, <2>1, <2>3
    <3>. QED
      BY <1>1, <2>1, <2>3, <3>1
  <2>4. HasRow(m) /\ HasRow(n)
    BY <2>1 DEF HasRow, ToSet
  <2>. QED
    BY <2>2, <2>3, <2>4 DEF ArrivedBefore
<1>5. ASSUME NEW m \in ToSet(inbox), NEW n \in ToSet(inbox), m # n
      PROVE  ArrivedBefore(m, n) \/ ArrivedBefore(n, m)
  <2>1. PICK i, j \in DOMAIN inbox : inbox[i] = m /\ inbox[j] = n
    BY DEF ToSet
  <2>2. i < j \/ j < i
    BY <1>1, <1>5, <2>1
  <2>. QED
    BY <2>1, <2>2 DEF ArrivedBefore
<1>. QED
  BY <1>3, <1>4, <1>5

\* claimInboxBatch gives the rows that are not settled, as they arrived.
LEMMA UnsettledIsListed ==
  ASSUME IntakeTypes, RowsFollowTheQueue
  PROVE  /\ Unsettled \in Seq(Message)
         /\ ToSet(Unsettled) = {m \in ToSet(inbox) : ~row[m].settled}
         /\ \A i, j \in DOMAIN Unsettled : i < j => ArrivedBefore(Unsettled[i], Unsettled[j])
<1>. DEFINE open == {m \in ToSet(inbox) : ~row[m].settled}
            R == {p \in open \X open : ArrivedBefore(p[1], p[2])}
<1>1. Len(inbox) \in Nat /\ DOMAIN inbox = 1 .. Len(inbox) /\ inbox \in Seq(Message)
  BY LenProperties DEF IntakeTypes
<1>2. open \subseteq Message /\ ToSet(inbox) \subseteq Message
  BY <1>1 DEF ToSet
<1>3. IsFiniteSet(open)
  <2>1. inbox \in Surjection(1 .. Len(inbox), ToSet(inbox))
    BY <1>1 DEF Surjection, ToSet
  <2>2. IsFiniteSet(ToSet(inbox))
    BY <1>1, <2>1, FS_Interval, FS_Surjection
  <2>. QED
    BY <2>2, FS_Subset, open \subseteq ToSet(inbox)
<1>4. \A m, n \in open : <<m, n>> \in R <=> ArrivedBefore(m, n)
  OBVIOUS
<1>5. open \subseteq ToSet(inbox)
  OBVIOUS
<1>. HIDE DEF R, open
<1>6. \A l, m, n \in open : <<l, m>> \in R /\ <<m, n>> \in R => <<l, n>> \in R
  BY <1>1, <1>4, ArrivalIsAnOrder
<1>7. \A m \in open : <<m, m>> \notin R
  BY <1>1, <1>4, ArrivalIsAnOrder
<1>8. \A m, n \in open : m = n \/ <<m, n>> \in R \/ <<n, m>> \in R
  BY <1>1, <1>4, <1>5, ArrivalIsAnOrder
<1>9. \E s \in [1 .. Cardinality(open) -> open] :
        \A i, j \in DOMAIN s : i < j => <<s[i], s[j]>> \in R
  BY <1>3, <1>6, <1>7, <1>8, SortedListExists
<1>10. \E s \in [1 .. Cardinality(open) -> open] :
         \A i, j \in DOMAIN s : i < j => ArrivedBefore(s[i], s[j])
  <2>1. PICK s \in [1 .. Cardinality(open) -> open] :
          \A i, j \in DOMAIN s : i < j => <<s[i], s[j]>> \in R
    BY <1>9
  <2>. QED
    BY <1>4, <2>1
<1>11. /\ Unsettled \in [1 .. Cardinality(open) -> open]
       /\ \A i, j \in DOMAIN Unsettled : i < j => ArrivedBefore(Unsettled[i], Unsettled[j])
  BY <1>10 DEF Unsettled, InOrder, open
<1>12. \A i, j \in 1 .. Cardinality(open) : i < j => Unsettled[i] # Unsettled[j]
  BY <1>4, <1>7, <1>11
<1>13. Unsettled \in Seq(open) /\ ToSet(Unsettled) = open
  BY <1>3, <1>11, <1>12, WholeList
<1>. QED
  BY <1>2, <1>11, <1>13, SeqMonotonic DEF open

\* A message has one place in the queue.
LEMMA PlacesInTheQueue ==
  ASSUME queued \in Seq(Event), QueuedOnce, NEW i \in DOMAIN queued
  PROVE  PlaceIn([k \in DOMAIN queued |-> queued[k].msg], queued[i].msg) = i
<1>. DEFINE order == [k \in DOMAIN queued |-> queued[k].msg]
<1>1. Len(queued) \in Nat /\ DOMAIN queued = 1 .. Len(queued)
  BY LenProperties
<1>2. DOMAIN order = DOMAIN queued /\ \A k \in DOMAIN queued : order[k] = queued[k].msg
  BY <1>1
<1>3. queued[i].msg \in ToSet(order)
  BY <1>2 DEF ToSet
<1>4. \A k \in DOMAIN order : order[k] = queued[i].msg => k = i
  BY <1>2 DEF QueuedOnce
<1>. HIDE DEF order
<1>5. (CHOOSE k \in DOMAIN order : order[k] = queued[i].msg) = i
  BY <1>2, <1>4
<1>6. PlaceIn(order, queued[i].msg) = i
  BY <1>3, <1>5 DEF PlaceIn
<1>. QED
  BY <1>6 DEF order

\* The list of photos is then in the order they were sent.
LEMMA OrderIsSendOrder == IntakeIInv /\ OrderIInv => PhotosListedAsSent
<1>. SUFFICES ASSUME IntakeIInv, OrderIInv,
                     NEW i \in DOMAIN PendingPhotos, NEW j \in DOMAIN PendingPhotos, i < j
              PROVE  ~SentBefore(PendingPhotos[j].photo, PendingPhotos[i].photo)
  BY DEF PhotosListedAsSent
<1>. DEFINE d == PendingPhotos[i]
            e == PendingPhotos[j]
<1>1. /\ ToSet(PendingPhotos) \subseteq pendingMedia
      /\ ListedBefore(d, e)
  BY PendingIsListed DEF OrderIInv, PhotoOrder
<1>2. d \in pendingMedia /\ e \in pendingMedia
  BY <1>1 DEF ToSet
<1>3. /\ d.id \in Nat /\ e.id \in Nat
      /\ d.photo \in Message /\ e.photo \in Message
  BY <1>2 DEF OrderIInv, LedgersAreTyped
<1>. HIDE DEF d, e
<1>4. CASE transport = "cloud"
  <2>1. SentAt[d.photo] \in Nat /\ SentAt[e.photo] \in Nat
    BY <1>3, IntakeAssumption DEF IntakeAssumption
  <2>2. SentAt[d.photo] <= SentAt[e.photo]
    BY <1>1, <1>4, <2>1 DEF ListedBefore, StampOf
  <2>3. ~SentBefore(e.photo, d.photo)
    BY <1>4, <2>1, <2>2 DEF SentBefore
  <2>. QED
    BY <2>3 DEF d, e
<1>5. CASE transport = "bridge"
  <2>. DEFINE order == [k \in DOMAIN queued |-> queued[k].msg]
  <2>1. d.id < e.id
    BY <1>1, <1>3, <1>5 DEF ListedBefore, StampOf
  <2>2. ArrivedBefore(d.photo, e.photo) \/ d.photo = e.photo
    BY <1>2, <2>1 DEF OrderIInv, PhotoOrder, StagedInOrder
  <2>3. \E k, h \in DOMAIN queued : k <= h /\ queued[k].msg = d.photo /\ queued[h].msg = e.photo
    <3>0. queued \in Seq(Event) /\ Len(queued) \in Nat /\ DOMAIN queued = 1 .. Len(queued)
      BY LenProperties DEF IntakeIInv, IntakeTypes
    <3>1. CASE ArrivedBefore(d.photo, e.photo)
      <4>1. Behind(d.photo, e.photo)
        BY <1>3, <1>5, <3>1 DEF OrderIInv, QueueOrder, RowsFollowTheQueue
      <4>. QED
        BY <3>0, <4>1 DEF Behind
    <3>2. CASE d.photo = e.photo
      <4>1. d.photo \in ToSet(inbox)
        <5>1. d \in Copies(d.photo)
          BY <1>2 DEF Copies
        <5>. QED
          BY <1>3, <5>1 DEF IntakeIInv, CopiesAreCounted, HasRow
      <4>2. PICK k \in DOMAIN queued : queued[k].msg = d.photo
        BY <1>5, <4>1 DEF OrderIInv, QueueOrder, RowsFollowTheQueue
      <4>. QED
        BY <3>0, <3>2, <4>2
    <3>. QED
      BY <2>2, <3>1, <3>2
  <2>4. PICK k, h \in DOMAIN queued : k <= h /\ queued[k].msg = d.photo /\ queued[h].msg = e.photo
    BY <2>3
  <2>5. queued \in Seq(Event) /\ QueuedOnce
    BY DEF IntakeIInv, IntakeTypes, OrderIInv, QueueOrder
  <2>6. PlaceIn(order, d.photo) = k /\ PlaceIn(order, e.photo) = h
    BY <2>4, <2>5, PlacesInTheQueue
  <2>7. k \in Nat /\ h \in Nat
    BY <2>5, LenProperties
  <2>. HIDE DEF order
  <2>8. ~(PlaceIn(order, e.photo) < PlaceIn(order, d.photo))
    BY <2>4, <2>6, <2>7
  <2>9. ~SentBefore(e.photo, d.photo)
    BY <1>5, <2>8 DEF SentBefore, order
  <2>. QED
    BY <2>9 DEF d, e
<1>. QED
  BY <1>4, <1>5 DEF IntakeIInv, IntakeTypes

\* What the queue's order is stated of.
LEMMA QueueIsTyped ==
  ASSUME IntakeTypes
  PROVE  /\ queued \in Seq(Event) /\ Len(queued) \in Nat /\ DOMAIN queued = 1 .. Len(queued)
         /\ outbox \in Seq(Event) /\ Len(outbox) \in Nat /\ DOMAIN outbox = 1 .. Len(outbox)
         /\ inbox \in Seq(Message) /\ Len(inbox) \in Nat /\ DOMAIN inbox = 1 .. Len(inbox)
  BY LenProperties DEF IntakeTypes

\* The head of the outbox is the first event of the queue that is not gone.
LEMMA HeadIsNext ==
  ASSUME IntakeTypes, OutboxIsTheRest, outbox # <<>>
  PROVE  Gone + 1 \in DOMAIN queued /\ queued[Gone + 1] = Head(outbox) /\ Head(outbox) \in Event
<1>1. Len(outbox) # 0 /\ Head(outbox) = outbox[1]
  BY QueueIsTyped, EmptySeq
<1>2. 1 \in DOMAIN outbox
  BY <1>1, QueueIsTyped
<1>3. outbox[1] = queued[Gone + 1]
  BY <1>2 DEF OutboxIsTheRest
<1>4. Gone + 1 \in DOMAIN queued
  BY <1>1, QueueIsTyped DEF OutboxIsTheRest, Gone
<1>5. Head(outbox) \in Event
  BY <1>1, QueueIsTyped, HeadTailProperties
<1>. QED
  BY <1>1, <1>3, <1>4, <1>5

\* Who sees neither the inbox nor the queue change sees no order change.
LEMMA ArrivalStays ==
  ASSUME inbox' = inbox
  PROVE  \A m, n : ArrivedBefore(m, n)' <=> ArrivedBefore(m, n)
  BY DEF ArrivedBefore

LEMMA ServersOrderStays ==
  ASSUME OrderIInv, UNCHANGED serverVars
  PROVE  WorkOrder' /\ PhotoOrder' /\ ListsAreTyped'
<1>1. \A m, n : ArrivedBefore(m, n)' <=> ArrivedBefore(m, n)
  BY ArrivalStays DEF serverVars
<1>2. \A m : HasRow(m)' <=> HasRow(m)
  BY DEF HasRow, serverVars
<1>3. BatchInHand' /\ NoneLeftBehind' /\ ListsAreTyped'
  BY <1>2 DEF OrderIInv, WorkOrder, BatchInHand, NoneLeftBehind, ListsAreTyped, AtFiles, serverVars
<1>4. FilesInOrder'
  BY <1>1 DEF OrderIInv, WorkOrder, FilesInOrder, AtFiles, serverVars
<1>5. PhotoOrder'
  BY <1>1 DEF OrderIInv, PhotoOrder, IdsAreDrawn, StagedInOrder, NobodyOvertaken, serverVars
<1>. QED
  BY <1>3, <1>4, <1>5 DEF WorkOrder

LEMMA QueuesOrderStays ==
  ASSUME OrderIInv, UNCHANGED <<settings, bridgeVars, inbox>>
  PROVE  QueueOrder'
<1>1. \A m, n : ArrivedBefore(m, n)' <=> ArrivedBefore(m, n)
  BY ArrivalStays
<1>2. QueuedOnce' /\ OutboxIsTheRest' /\ LateWereHeads'
  BY DEF OrderIInv, QueueOrder, QueuedOnce, OutboxIsTheRest, LateWereHeads, Gone, settings, bridgeVars
<1>3. RowsFollowTheQueue'
  BY <1>1 DEF OrderIInv, QueueOrder, RowsFollowTheQueue, Behind, Gone, settings, bridgeVars
<1>. QED
  BY <1>2, <1>3 DEF QueueOrder

-----------------------------------------------------------------------------
(* The bridge keeps the order.                                                *)

LEMMA HandleKeepsOrder ==
  ASSUME IntakeIInv, OrderIInv, NEW m \in Message, Handle(m)
  PROVE  OrderIInv'
<1>1. /\ UNCHANGED <<settings, outbox, late, queued, swept, intakeCrashes>>
      /\ UNCHANGED serverVars /\ m \notin seen /\ seen' = seen \cup {m}
  BY DEF Handle
<1>2. handling' # NoEvent => handling'.msg = m
  BY EventsAreEvents DEF Handle, Dropped, Stages
<1>3. QueuedOnce'
  BY <1>1, <1>2 DEF OrderIInv, QueueOrder, QueuedOnce
<1>4. OutboxIsTheRest' /\ LateWereHeads'
  BY <1>1 DEF OrderIInv, QueueOrder, OutboxIsTheRest, LateWereHeads, Gone, settings
<1>5. \A k, n : ArrivedBefore(k, n)' <=> ArrivedBefore(k, n)
  BY <1>1, ArrivalStays DEF serverVars
<1>6. RowsFollowTheQueue'
  BY <1>1, <1>5 DEF OrderIInv, QueueOrder, RowsFollowTheQueue, Behind, Gone, settings, serverVars
<1>7. LedgersAreTyped'
  BY <1>1 DEF OrderIInv, LedgersAreTyped, settings, serverVars
<1>. QED
  BY <1>1, <1>3, <1>4, <1>6, <1>7, ServersOrderStays DEF OrderIInv, QueueOrder

\* A step of the bridge that leaves the queue, and its table, as they are.
LEMMA DispatcherKeepsOrder ==
  ASSUME IntakeIInv, OrderIInv,
         UNCHANGED <<settings, seen, outbox, queued, staged, serverVars, swept>>,
         handling' \in {handling, NoEvent},
         \A e \in late' : e \in late \/ (outbox # <<>> /\ e = Head(outbox)),
         intakeCrashes' \in 0 .. MaxIntakeCrashes
  PROVE  OrderIInv'
<1>1. QueuedOnce' /\ OutboxIsTheRest'
  BY DEF OrderIInv, QueueOrder, QueuedOnce, OutboxIsTheRest, Gone
<1>2. LateWereHeads'
  <2>. SUFFICES ASSUME transport = "bridge", NEW e \in late'
                PROVE  \E i \in DOMAIN queued : i <= Gone + 1 /\ queued[i] = e
    BY DEF LateWereHeads, Gone, settings
  <2>1. CASE e \in late
    BY <2>1 DEF OrderIInv, QueueOrder, LateWereHeads
  <2>2. CASE e \notin late
    <3>1. e = Head(outbox) /\ outbox # <<>>
      BY <2>2
    <3>2. Gone + 1 \in DOMAIN queued /\ queued[Gone + 1] = e
      BY <3>1, HeadIsNext DEF IntakeIInv, OrderIInv, QueueOrder
    <3>3. Gone \in Int
      BY QueueIsTyped DEF Gone, IntakeIInv
    <3>. QED
      BY <3>2, <3>3
  <2>. QED
    BY <2>1, <2>2
<1>3. \A m, n : ArrivedBefore(m, n)' <=> ArrivedBefore(m, n)
  BY ArrivalStays DEF serverVars
<1>4. RowsFollowTheQueue'
  BY <1>3 DEF OrderIInv, QueueOrder, RowsFollowTheQueue, Behind, Gone, settings, serverVars
<1>5. LedgersAreTyped'
  BY DEF OrderIInv, LedgersAreTyped, settings, serverVars
<1>. QED
  BY <1>1, <1>2, <1>4, <1>5, ServersOrderStays DEF OrderIInv, QueueOrder

LEMMA PostKeepsOrder == ASSUME IntakeIInv, OrderIInv, Post PROVE OrderIInv'
<1>1. /\ UNCHANGED <<settings, seen, outbox, queued, staged, serverVars, swept>>
      /\ handling' \in {handling, NoEvent} /\ (\A e \in late' : e \in late)
  BY DEF Post
<1>2. intakeCrashes' \in 0 .. MaxIntakeCrashes
  BY DEF Post, OrderIInv, LedgersAreTyped
<1>. QED
  BY <1>1, <1>2, DispatcherKeepsOrder

LEMMA GiveUpKeepsOrder == ASSUME IntakeIInv, OrderIInv, GiveUp PROVE OrderIInv'
<1>1. /\ UNCHANGED <<settings, seen, handling, outbox, queued, staged, swept, intakeCrashes>>
      /\ UNCHANGED serverVars /\ late' \in {late, late \cup {Head(outbox)}} /\ posted # "no"
  BY DEF GiveUp
<1>2. outbox # <<>>
  BY <1>1 DEF IntakeIInv, HeadIsAnswered
<1>3. intakeCrashes \in 0 .. MaxIntakeCrashes
  BY DEF OrderIInv, LedgersAreTyped
<1>4. (\A e \in late' : e \in late \/ (outbox # <<>> /\ e = Head(outbox)))
  BY <1>1, <1>2
<1>. QED
  BY <1>1, <1>3, <1>4, DispatcherKeepsOrder

\* A crash of either process is counted, up to the bound.
LEMMA CrashesAreCounted ==
  ASSUME OrderIInv, intakeCrashes < MaxIntakeCrashes, intakeCrashes' = intakeCrashes + 1
  PROVE  intakeCrashes' \in 0 .. MaxIntakeCrashes
  BY IntakeAssumption DEF OrderIInv, LedgersAreTyped, IntakeAssumption

LEMMA BridgeCrashKeepsOrder == ASSUME IntakeIInv, OrderIInv, BridgeCrash PROVE OrderIInv'
<1>1. /\ UNCHANGED <<settings, seen, outbox, queued, staged, serverVars, swept>>
      /\ handling' \in {handling, NoEvent} /\ (\A e \in late' : e \in late)
  BY DEF BridgeCrash
<1>2. intakeCrashes' \in 0 .. MaxIntakeCrashes
  BY CrashesAreCounted DEF BridgeCrash
<1>. QED
  BY <1>1, <1>2, DispatcherKeepsOrder

\* A longer queue has all it had, where it was.
LEMMA EnqueueKeepsOrder == ASSUME IntakeIInv, OrderIInv, Enqueue PROVE OrderIInv'
<1>1. /\ handling # NoEvent /\ handling' = NoEvent /\ handling \in Event
      /\ UNCHANGED <<settings, seen, late, staged, swept, intakeCrashes>> /\ UNCHANGED serverVars
  BY DEF Enqueue, IntakeIInv, IntakeTypes
<1>2. CASE UNCHANGED <<outbox, queued>>
  <2>1. /\ UNCHANGED <<settings, seen, outbox, queued, staged, serverVars, swept>>
        /\ handling' \in {handling, NoEvent} /\ (\A e \in late' : e \in late)
    BY <1>1, <1>2
  <2>2. intakeCrashes' \in 0 .. MaxIntakeCrashes
    BY <1>1 DEF OrderIInv, LedgersAreTyped
  <2>. QED
    BY <2>1, <2>2, DispatcherKeepsOrder
<1>3. CASE outbox' = Append(outbox, handling) /\ queued' = Append(queued, handling)
  <2>1. /\ Len(queued') = Len(queued) + 1 /\ DOMAIN queued' = 1 .. Len(queued) + 1
        /\ \A i \in DOMAIN queued : queued'[i] = queued[i]
        /\ queued'[Len(queued) + 1] = handling
    BY <1>1, <1>3, QueueIsTyped DEF IntakeIInv
  <2>2. /\ Len(outbox') = Len(outbox) + 1 /\ DOMAIN outbox' = 1 .. Len(outbox) + 1
        /\ \A i \in DOMAIN outbox : outbox'[i] = outbox[i]
        /\ outbox'[Len(outbox) + 1] = handling
    BY <1>1, <1>3, QueueIsTyped DEF IntakeIInv
  <2>3. /\ Len(queued) \in Nat /\ DOMAIN queued = 1 .. Len(queued)
        /\ Len(outbox) \in Nat /\ DOMAIN outbox = 1 .. Len(outbox)
    BY QueueIsTyped DEF IntakeIInv
  <2>4. /\ DOMAIN queued \subseteq DOMAIN queued' /\ Gone' = Gone /\ Gone \in Int
        /\ \A i \in DOMAIN queued' : i \in DOMAIN queued \/ i = Len(queued) + 1
        /\ \A i \in DOMAIN outbox' : i \in DOMAIN outbox \/ i = Len(outbox) + 1
        /\ Gone + (Len(outbox) + 1) = Len(queued) + 1
    BY <2>1, <2>2, <2>3 DEF Gone
  <2>5. QueuedOnce'
    <3>1. \A i \in DOMAIN queued' : queued'[i].msg \in seen
      BY <1>1, <2>1, <2>4 DEF OrderIInv, QueueOrder, QueuedOnce
    <3>2. ASSUME NEW i \in DOMAIN queued', NEW j \in DOMAIN queued', queued'[i].msg = queued'[j].msg
          PROVE  i = j
      <4>1. CASE i \in DOMAIN queued /\ j \in DOMAIN queued
        BY <2>1, <3>2, <4>1 DEF OrderIInv, QueueOrder, QueuedOnce
      <4>2. CASE i \notin DOMAIN queued \/ j \notin DOMAIN queued
        BY <1>1, <2>1, <2>4, <3>2, <4>2 DEF OrderIInv, QueueOrder, QueuedOnce
      <4>. QED
        BY <4>1, <4>2
    <3>. QED
      BY <1>1, <3>1, <3>2 DEF QueuedOnce
  <2>6. OutboxIsTheRest'
    <3>1. Len(outbox') <= Len(queued')
      BY <2>1, <2>2, <2>3 DEF OrderIInv, QueueOrder, OutboxIsTheRest
    <3>2. ASSUME NEW i \in DOMAIN outbox' PROVE outbox'[i] = queued'[Gone + i]
      <4>1. CASE i \in DOMAIN outbox
        <5>1. outbox'[i] = queued[Gone + i]
          BY <2>2, <4>1 DEF OrderIInv, QueueOrder, OutboxIsTheRest
        <5>2. Gone + i \in DOMAIN queued
          BY <2>3, <4>1 DEF OrderIInv, QueueOrder, OutboxIsTheRest, Gone
        <5>. QED
          BY <2>1, <5>1, <5>2
      <4>2. CASE i = Len(outbox) + 1
        BY <2>1, <2>2, <2>4, <4>2
      <4>. QED
        BY <2>4, <4>1, <4>2
    <3>. QED
      BY <2>4, <3>1, <3>2 DEF OutboxIsTheRest
  <2>7. LateWereHeads'
    BY <1>1, <2>1, <2>4 DEF OrderIInv, QueueOrder, LateWereHeads, settings
  <2>8. \A m, n : ArrivedBefore(m, n)' <=> ArrivedBefore(m, n)
    BY <1>1, ArrivalStays DEF serverVars
  <2>9. \A m, n : Behind(m, n) => Behind(m, n)'
    BY <2>1, <2>4 DEF Behind
  <2>10. RowsFollowTheQueue'
    <3>1. inbox' = inbox /\ transport' = transport
      BY <1>1 DEF serverVars, settings
    <3>. QED
      BY <2>1, <2>4, <2>8, <2>9, <3>1 DEF OrderIInv, QueueOrder, RowsFollowTheQueue
  <2>11. LedgersAreTyped'
    BY <1>1 DEF OrderIInv, LedgersAreTyped, settings, serverVars
  <2>. QED
    BY <1>1, <2>5, <2>6, <2>7, <2>10, <2>11, ServersOrderStays DEF OrderIInv, QueueOrder
<1>. QED
  BY <1>2, <1>3 DEF Enqueue

\* The head leaves the outbox, and one more of the queue is gone.
LEMMA SettleKeepsOrder == ASSUME IntakeIInv, OrderIInv, Settle PROVE OrderIInv'
<1>1. /\ UNCHANGED <<settings, seen, handling, late, queued, staged, swept, intakeCrashes>>
      /\ UNCHANGED serverVars /\ posted # "no"
  BY DEF Settle
<1>2. CASE outbox' = outbox
  <2>1. /\ UNCHANGED <<settings, seen, outbox, queued, staged, serverVars, swept>>
        /\ handling' \in {handling, NoEvent} /\ (\A e \in late' : e \in late)
    BY <1>1, <1>2
  <2>2. intakeCrashes' \in 0 .. MaxIntakeCrashes
    BY <1>1 DEF OrderIInv, LedgersAreTyped
  <2>. QED
    BY <2>1, <2>2, DispatcherKeepsOrder
<1>3. CASE outbox' = Tail(outbox)
  <2>1. outbox # <<>>
    BY <1>1 DEF IntakeIInv, HeadIsAnswered
  <2>2. /\ Len(queued) \in Nat /\ Len(outbox) \in Nat /\ DOMAIN outbox = 1 .. Len(outbox)
        /\ Len(outbox) # 0
    BY <2>1, QueueIsTyped, EmptySeq DEF IntakeIInv
  <2>3. /\ Len(outbox') = Len(outbox) - 1 /\ DOMAIN outbox' = 1 .. Len(outbox')
        /\ \A i \in 1 .. Len(outbox') : outbox'[i] = outbox[i + 1]
    <3>1. outbox \in Seq(Event)
      BY QueueIsTyped DEF IntakeIInv
    <3>. QED
      BY <1>3, <2>1, <3>1, HeadTailProperties, LenProperties
  <2>4. Gone' = Gone + 1 /\ Gone \in Int
    BY <1>1, <2>2, <2>3 DEF Gone
  <2>5. QueuedOnce'
    BY <1>1 DEF OrderIInv, QueueOrder, QueuedOnce
  <2>6. OutboxIsTheRest'
    <3>1. Len(outbox') <= Len(queued)
      BY <2>2, <2>3 DEF OrderIInv, QueueOrder, OutboxIsTheRest
    <3>2. ASSUME NEW i \in DOMAIN outbox' PROVE outbox'[i] = queued[(Gone + 1) + i]
      <4>1. i \in Int /\ i + 1 \in DOMAIN outbox /\ outbox'[i] = outbox[i + 1]
        BY <2>2, <2>3
      <4>2. outbox[i + 1] = queued[Gone + (i + 1)]
        BY <4>1 DEF OrderIInv, QueueOrder, OutboxIsTheRest
      <4>3. Gone + (i + 1) = (Gone + 1) + i
        BY <2>4, <4>1
      <4>. QED
        BY <4>1, <4>2, <4>3
    <3>. QED
      BY <1>1, <2>4, <3>1, <3>2 DEF OutboxIsTheRest
  <2>7. \A i \in DOMAIN queued : i <= Gone + 1 => i <= Gone' + 1
    BY <2>4, QueueIsTyped DEF IntakeIInv
  <2>8. LateWereHeads'
    BY <1>1, <2>7 DEF OrderIInv, QueueOrder, LateWereHeads, settings
  <2>9. \A m, n : ArrivedBefore(m, n)' <=> ArrivedBefore(m, n)
    BY <1>1, ArrivalStays DEF serverVars
  <2>10. RowsFollowTheQueue'
    BY <1>1, <2>7, <2>9 DEF OrderIInv, QueueOrder, RowsFollowTheQueue, Behind, settings, serverVars
  <2>11. LedgersAreTyped'
    BY <1>1 DEF OrderIInv, LedgersAreTyped, settings, serverVars
  <2>. QED
    BY <1>1, <2>5, <2>6, <2>8, <2>10, <2>11, ServersOrderStays DEF OrderIInv, QueueOrder
<1>. QED
  BY <1>2, <1>3 DEF Settle

-----------------------------------------------------------------------------
(* The webhook keeps the order.                                               *)

\* A new row arrives after all the others.
LEMMA ArrivalGrows ==
  ASSUME inbox \in Seq(Message), NEW x \in Message, inbox' = Append(inbox, x), ~HasRow(x),
         RowsFollowTheQueue
  PROVE  /\ \A m, n : ArrivedBefore(m, n)' <=> ArrivedBefore(m, n) \/ (HasRow(m) /\ n = x)
         /\ \A i, j \in DOMAIN inbox' : inbox'[i] = inbox'[j] => i = j
         /\ ToSet(inbox') = ToSet(inbox) \cup {x}
<1>1. Len(inbox) \in Nat /\ DOMAIN inbox = 1 .. Len(inbox)
  BY LenProperties
<1>2. /\ inbox' \in Seq(Message) /\ Len(inbox') = Len(inbox) + 1
      /\ \A i \in 1 .. Len(inbox) : inbox'[i] = inbox[i]
      /\ inbox'[Len(inbox) + 1] = x
  BY <1>1
<1>3. DOMAIN inbox' = 1 .. Len(inbox) + 1
  BY <1>2, LenProperties
<1>4. /\ \A i \in DOMAIN inbox' : i \in DOMAIN inbox \/ i = Len(inbox) + 1
      /\ DOMAIN inbox \subseteq DOMAIN inbox' /\ Len(inbox) + 1 \in DOMAIN inbox'
      /\ \A i \in DOMAIN inbox : i < Len(inbox) + 1
  BY <1>1, <1>3
<1>5. \A i \in DOMAIN inbox : inbox'[i] = inbox[i] /\ inbox[i] # x
  BY <1>1, <1>2 DEF HasRow, ToSet
<1>6. ASSUME NEW m, NEW n, ArrivedBefore(m, n)'
      PROVE  ArrivedBefore(m, n) \/ (HasRow(m) /\ n = x)
  <2>1. PICK i, j \in DOMAIN inbox' : i < j /\ inbox'[i] = m /\ inbox'[j] = n
    BY <1>6 DEF ArrivedBefore
  <2>2. i \in DOMAIN inbox
    BY <1>1, <1>3, <2>1
  <2>3. HasRow(m)
    BY <1>5, <2>1, <2>2 DEF HasRow, ToSet
  <2>4. CASE j \in DOMAIN inbox
    BY <1>5, <2>1, <2>2, <2>4 DEF ArrivedBefore
  <2>5. CASE j = Len(inbox) + 1
    BY <1>2, <2>1, <2>3, <2>5
  <2>. QED
    BY <1>4, <2>4, <2>5
<1>7. ASSUME NEW m, NEW n, ArrivedBefore(m, n) PROVE ArrivedBefore(m, n)'
  BY <1>4, <1>5, <1>7 DEF ArrivedBefore
<1>8. ASSUME NEW m, HasRow(m) PROVE ArrivedBefore(m, x)'
  <2>1. PICK i \in DOMAIN inbox : inbox[i] = m
    BY <1>8 DEF HasRow, ToSet
  <2>. QED
    BY <1>2, <1>4, <1>5, <2>1 DEF ArrivedBefore
<1>9. ASSUME NEW i \in DOMAIN inbox', NEW j \in DOMAIN inbox', inbox'[i] = inbox'[j] PROVE i = j
  BY <1>2, <1>4, <1>5, <1>9 DEF RowsFollowTheQueue
<1>10. ToSet(inbox') = ToSet(inbox) \cup {x}
  BY WithOneMore
<1>. QED
  BY <1>6, <1>7, <1>8, <1>9, <1>10

\* The event of a new row was the head when it was posted, and is so still.
LEMMA NewRowIsTheHead ==
  ASSUME IntakeIInv, QueuedOnce, OutboxIsTheRest,
         NEW i \in DOMAIN queued, i <= Gone + 1,
         ~HasRow(queued[i].msg), WorthARow(queued[i]), ~Refused(queued[i])
  PROVE  i = Gone + 1
<1>1. queued[i] \in ToSet(outbox)
  BY DEF IntakeIInv, QueuedIsNeverLost
<1>2. PICK k \in DOMAIN outbox : outbox[k] = queued[i]
  BY <1>1 DEF ToSet
<1>3. /\ Len(queued) \in Nat /\ DOMAIN queued = 1 .. Len(queued)
      /\ Len(outbox) \in Nat /\ DOMAIN outbox = 1 .. Len(outbox) /\ Len(outbox) <= Len(queued)
  BY QueueIsTyped DEF IntakeIInv, OutboxIsTheRest
<1>4. Gone + k \in DOMAIN queued /\ queued[Gone + k] = queued[i]
  BY <1>2, <1>3 DEF Gone, OutboxIsTheRest
<1>5. Gone + k = i
  BY <1>4 DEF QueuedOnce
<1>. QED
  BY <1>3, <1>5 DEF Gone

\* What Accept does to the order, of an event the queue has or Meta sent.
LEMMA AcceptKeepsOrder ==
  ASSUME IntakeIInv, OrderIInv, NEW e \in Event, Accept(e),
         transport = "bridge" =>
           ~Refused(e) /\ \E i \in DOMAIN queued : i <= Gone + 1 /\ queued[i] = e,
         late' \subseteq late, Unmoved
  PROVE  OrderIInv'
<1>1. /\ UNCHANGED <<settings, seen, handling, outbox, queued, worker, audioFiles,
                     pendingMedia, mediaIds, landed, fetched, swept, intakeCrashes>>
  BY DEF Unmoved
<1>2. e.msg \in Message /\ inbox \in Seq(Message)
  BY DEF Event, IntakeIInv, IntakeTypes
<1>3. ListsAreTyped' /\ LedgersAreTyped'
  BY <1>1 DEF OrderIInv, ListsAreTyped, LedgersAreTyped, settings
<1>4. QueuedOnce' /\ OutboxIsTheRest' /\ LateWereHeads'
  BY <1>1 DEF OrderIInv, QueueOrder, QueuedOnce, OutboxIsTheRest, LateWereHeads, Gone, settings
<1>5. IdsAreDrawn'
  BY <1>1 DEF OrderIInv, PhotoOrder, IdsAreDrawn
<1>6. CASE ~WorthARow(e) \/ HasRow(e.msg)
  <2>1. UNCHANGED <<inbox, row, staged>>
    BY <1>6 DEF Accept
  <2>2. UNCHANGED serverVars
    BY <1>1, <2>1 DEF serverVars
  <2>3. \A m, n : ArrivedBefore(m, n)' <=> ArrivedBefore(m, n)
    BY <2>1, ArrivalStays
  <2>4. RowsFollowTheQueue'
    BY <1>1, <2>1, <2>3 DEF OrderIInv, QueueOrder, RowsFollowTheQueue, Behind, Gone, settings
  <2>. QED
    BY <1>3, <1>4, <2>2, <2>4, ServersOrderStays DEF OrderIInv, QueueOrder
<1>7. CASE WorthARow(e) /\ ~HasRow(e.msg)
  <2>1. inbox' = Append(inbox, e.msg)
    BY <1>7 DEF Accept
  <2>2. /\ \A m, n : ArrivedBefore(m, n)' <=> ArrivedBefore(m, n) \/ (HasRow(m) /\ n = e.msg)
        /\ \A i, j \in DOMAIN inbox' : inbox'[i] = inbox'[j] => i = j
        /\ ToSet(inbox') = ToSet(inbox) \cup {e.msg}
    BY <1>2, <1>7, <2>1, ArrivalGrows DEF OrderIInv, QueueOrder
  <2>3. /\ \A m \in Message : HasRow(m) => row'[m] = row[m]
        /\ \A m \in Message : m # e.msg => row'[m] = row[m]
    BY AcceptsARow DEF IntakeIInv
  <2>4. row'[e.msg].settled = row[e.msg].settled
    <3>1. PICK wanted \in BOOLEAN, words \in Words :
            row' = [row EXCEPT ![e.msg].ref = wanted, ![e.msg].words = words]
      BY <1>7 DEF Accept, Words
    <3>2. row \in [Message -> RowType]
      BY DEF IntakeIInv, IntakeTypes
    <3>. QED
      BY <1>2, <3>1, <3>2 DEF RowType
  <2>5. \A m, n : ArrivedBefore(m, n) => HasRow(m) /\ HasRow(n)
    BY <1>2, ArrivalIsAnOrder DEF OrderIInv, QueueOrder
  <2>6. RowsFollowTheQueue'
    <3>. SUFFICES ASSUME transport = "bridge"
                  PROVE  /\ \A m \in ToSet(inbox') : \E i \in DOMAIN queued :
                                                       i <= Gone + 1 /\ queued[i].msg = m
                         /\ \A m, n \in Message : ArrivedBefore(m, n)' => Behind(m, n)
      BY <1>1, <2>2 DEF RowsFollowTheQueue, Behind, Gone, settings
    <3>1. PICK h \in DOMAIN queued : h <= Gone + 1 /\ queued[h] = e
      OBVIOUS
    <3>2. h = Gone + 1
      BY <1>7, <3>1, NewRowIsTheHead DEF OrderIInv, QueueOrder
    <3>3. \A m \in ToSet(inbox) : \E i \in DOMAIN queued : i <= Gone + 1 /\ queued[i].msg = m
      BY DEF OrderIInv, QueueOrder, RowsFollowTheQueue
    <3>4. ASSUME NEW m \in Message, HasRow(m) PROVE Behind(m, e.msg)
      <4>1. PICK i \in DOMAIN queued : i <= Gone + 1 /\ queued[i].msg = m
        BY <3>3, <3>4 DEF HasRow
      <4>2. i # h
        BY <1>7, <3>1, <3>4, <4>1
      <4>3. i < h
        BY <3>2, <4>1, <4>2, QueueIsTyped DEF IntakeIInv
      <4>. QED
        BY <3>1, <4>1, <4>3 DEF Behind
    <3>5. \A m, n \in Message : ArrivedBefore(m, n) => Behind(m, n)
      BY DEF OrderIInv, QueueOrder, RowsFollowTheQueue
    <3>. QED
      BY <2>2, <3>1, <3>3, <3>4, <3>5
  <2>7. BatchInHand'
    BY <1>1, <2>2 DEF OrderIInv, WorkOrder, BatchInHand
  <2>8. \A n \in ToSet(worker.todo) \cup ToSet(worker.batch) : HasRow(n) /\ n # e.msg
    BY <1>7 DEF OrderIInv, WorkOrder, BatchInHand, HasRow
  <2>9. FilesInOrder'
    <3>. SUFFICES ASSUME AtFiles
                  PROVE  /\ \A i, j \in DOMAIN worker.todo :
                              i < j => ArrivedBefore(worker.todo[i], worker.todo[j])'
                         /\ \A n \in ToSet(worker.todo), m \in Message :
                              ArrivedBefore(m, n)' /\ row'[m].ref => m \in ToSet(worker.todo)
      BY <1>1 DEF FilesInOrder, AtFiles
    <3>1. \A i, j \in DOMAIN worker.todo : i < j => ArrivedBefore(worker.todo[i], worker.todo[j])'
      BY <1>1, <2>2 DEF OrderIInv, WorkOrder, FilesInOrder
    <3>2. ASSUME NEW n \in ToSet(worker.todo), NEW m \in Message,
                 ArrivedBefore(m, n)', row'[m].ref
          PROVE  m \in ToSet(worker.todo)
      <4>1. ArrivedBefore(m, n)
        BY <2>2, <2>8, <3>2
      <4>2. row[m].ref
        BY <2>3, <2>5, <3>2, <4>1
      <4>. QED
        BY <4>1, <4>2 DEF OrderIInv, WorkOrder, FilesInOrder
    <3>. QED
      BY <3>1, <3>2
  <2>10. NoneLeftBehind'
    <3>. SUFFICES ASSUME NEW m \in Message
                  PROVE  /\ m \in ToSet(worker.batch) /\ row'[m].ref
                              => AtFiles /\ m \in ToSet(worker.todo)
                         /\ row'[m].settled => HasRow(m)' /\ ~row'[m].ref
      BY <1>1 DEF NoneLeftBehind, AtFiles
    <3>1. CASE m # e.msg
      BY <2>2, <2>3, <3>1 DEF OrderIInv, WorkOrder, NoneLeftBehind, HasRow
    <3>2. CASE m = e.msg
      BY <1>7, <2>4, <2>8, <3>2 DEF OrderIInv, WorkOrder, NoneLeftBehind
    <3>. QED
      BY <3>1, <3>2
  <2>11. StagedInOrder'
    BY <1>1, <2>2 DEF OrderIInv, PhotoOrder, StagedInOrder
  <2>12. NobodyOvertaken'
    <3>. SUFFICES ASSUME NEW p \in pendingMedia, NEW m \in Message, ArrivedBefore(m, p.photo)'
                  PROVE  ~row'[m].ref
      BY <1>1 DEF NobodyOvertaken
    <3>1. HasRow(p.photo)
      <4>1. p \in Copies(p.photo) /\ p.photo \in Message
        BY DEF Copies, OrderIInv, LedgersAreTyped
      <4>. QED
        BY <4>1 DEF IntakeIInv, CopiesAreCounted
    <3>2. ArrivedBefore(m, p.photo)
      BY <1>7, <2>2, <3>1
    <3>3. row'[m] = row[m]
      BY <2>3, <2>5, <3>2
    <3>. QED
      BY <3>2, <3>3 DEF OrderIInv, PhotoOrder, NobodyOvertaken
  <2>. QED
    BY <1>3, <1>4, <1>5, <2>6, <2>7, <2>9, <2>10, <2>11, <2>12
    DEF OrderIInv, QueueOrder, WorkOrder, PhotoOrder
<1>. QED
  BY <1>6, <1>7

\* An event that is refused changes nothing.
LEMMA QueueAndServerStay ==
  ASSUME IntakeIInv, OrderIInv, UNCHANGED <<inbox, row, staged>>, late' \subseteq late, Unmoved
  PROVE  OrderIInv'
<1>1. /\ UNCHANGED <<settings, seen, handling, outbox, queued, worker, audioFiles,
                     pendingMedia, mediaIds, landed, fetched, swept, intakeCrashes>>
  BY DEF Unmoved
<1>2. /\ UNCHANGED <<settings, seen, outbox, queued, staged, serverVars, swept>>
      /\ handling' \in {handling, NoEvent}
  BY <1>1 DEF serverVars
<1>3. intakeCrashes' \in 0 .. MaxIntakeCrashes
  BY <1>1 DEF OrderIInv, LedgersAreTyped
<1>. QED
  BY <1>2, <1>3, DispatcherKeepsOrder

LEMMA WebhookKeepsOrder == ASSUME IntakeIInv, OrderIInv, Webhook PROVE OrderIInv'
<1>. DEFINE e == Head(outbox)
<1>1. posted = "sent" /\ late' = late /\ Unmoved
  BY DEF Webhook
<1>2. outbox # <<>>
  BY <1>1 DEF IntakeIInv, HeadIsAnswered
<1>3. Gone + 1 \in DOMAIN queued /\ queued[Gone + 1] = e /\ e \in Event
  BY <1>2, HeadIsNext DEF IntakeIInv, OrderIInv, QueueOrder
<1>4. Gone + 1 <= Gone + 1
  BY QueueIsTyped DEF Gone, IntakeIInv
<1>. HIDE DEF e
<1>5. CASE Refused(e)
  <2>1. UNCHANGED <<inbox, row, staged>>
    BY <1>5 DEF Webhook, e
  <2>. QED
    BY <1>1, <2>1, QueueAndServerStay
<1>6. CASE ~Refused(e)
  <2>1. Accept(e)
    BY <1>6 DEF Webhook, e
  <2>. QED
    BY <1>1, <1>3, <1>4, <1>6, <2>1, AcceptKeepsOrder
<1>. QED
  BY <1>5, <1>6

LEMMA WebhookLateKeepsOrder == ASSUME IntakeIInv, OrderIInv, WebhookLate PROVE OrderIInv'
<1>1. PICK e \in late :
        /\ late' = late \ {e}
        /\ IF Refused(e) THEN UNCHANGED <<inbox, row, staged>> ELSE Accept(e)
        /\ UNCHANGED posted /\ Unmoved
  BY DEF WebhookLate
<1>2. e \in Event
  BY DEF IntakeIInv, IntakeTypes
<1>3. late' \subseteq late
  BY <1>1
<1>4. CASE Refused(e)
  BY <1>1, <1>3, <1>4, QueueAndServerStay
<1>5. CASE ~Refused(e)
  <2>1. transport = "bridge" => \E i \in DOMAIN queued : i <= Gone + 1 /\ queued[i] = e
    BY DEF OrderIInv, QueueOrder, LateWereHeads
  <2>. QED
    BY <1>1, <1>2, <1>3, <1>5, <2>1, AcceptKeepsOrder
<1>. QED
  BY <1>4, <1>5

LEMMA MetaPostsKeepsOrder ==
  ASSUME IntakeIInv, OrderIInv, NEW m \in Message, MetaPosts(m)
  PROVE  OrderIInv'
<1>1. /\ transport = "cloud" /\ Accept(EventOf(m, TRUE)) /\ late' = late /\ Unmoved
  BY DEF MetaPosts
<1>2. EventOf(m, TRUE) \in Event
  BY EventsAreEvents
<1>. QED
  BY <1>1, <1>2, AcceptKeepsOrder

-----------------------------------------------------------------------------
(* The worker keeps the order.                                                *)

\* No reference is new, and no row is settled, by a step.
OnlySpends ==
  \A m \in Message : (row'[m].ref => row[m].ref) /\ row'[m].settled = row[m].settled

\* A step of the worker that stages nothing.
LEMMA PhotosStay ==
  ASSUME OrderIInv, inbox' = inbox, pendingMedia' \subseteq pendingMedia,
         \A m \in Message : row'[m].ref => row[m].ref
  PROVE  PhotoOrder'
<1>1. \A m, n : ArrivedBefore(m, n)' <=> ArrivedBefore(m, n)
  BY ArrivalStays
<1>2. IdsAreDrawn' /\ StagedInOrder'
  BY <1>1 DEF OrderIInv, PhotoOrder, IdsAreDrawn, StagedInOrder
<1>3. NobodyOvertaken'
  BY <1>1 DEF OrderIInv, PhotoOrder, NobodyOvertaken
<1>. QED
  BY <1>2, <1>3 DEF PhotoOrder

LEMMA WorkerKeepsOrder ==
  ASSUME OrderIInv, AtWork, UNCHANGED <<inbox, mediaIds>>,
         \A m \in Message : row'[m].ref => row[m].ref,
         pendingMedia' \subseteq pendingMedia,
         audioFiles' \subseteq Message, landed' \subseteq Message, fetched' \subseteq Message,
         ListsAreTyped', WorkOrder'
  PROVE  OrderIInv'
<1>1. QueueOrder'
  BY QueuesOrderStays DEF AtWork
<1>2. PhotoOrder'
  BY PhotosStay
<1>3. LedgersAreTyped'
  BY DEF OrderIInv, LedgersAreTyped, AtWork, settings
<1>. QED
  BY <1>1, <1>2, <1>3 DEF OrderIInv

\* The worker goes on with the file it is at.
LEMMA WorkStays ==
  ASSUME OrderIInv, inbox' = inbox, OnlySpends,
         worker'.batch = worker.batch, worker'.todo = worker.todo,
         worker'.phase \in Phase, worker'.landing \in Seq(Nat), AtFiles' <=> AtFiles,
         worker'.phase \in {"held", "stored", "recorded", "heard"} => worker.todo # <<>>
  PROVE  ListsAreTyped' /\ WorkOrder'
<1>1. \A m, n : ArrivedBefore(m, n)' <=> ArrivedBefore(m, n)
  BY ArrivalStays
<1>2. \A m : HasRow(m)' <=> HasRow(m)
  BY DEF HasRow
<1>3. ListsAreTyped' /\ BatchInHand'
  BY DEF OrderIInv, WorkOrder, ListsAreTyped, BatchInHand
<1>4. FilesInOrder'
  <2>1. AtFiles => FilesInOrder'
    <3>. SUFFICES ASSUME AtFiles
                  PROVE  /\ \A i, j \in DOMAIN worker.todo :
                              i < j => ArrivedBefore(worker.todo[i], worker.todo[j])
                         /\ \A n \in ToSet(worker.todo), m \in Message :
                              ArrivedBefore(m, n) /\ row'[m].ref => m \in ToSet(worker.todo)
      BY <1>1 DEF FilesInOrder
    <3>. QED
      BY DEF OrderIInv, WorkOrder, FilesInOrder, OnlySpends
  <2>. QED
    BY <2>1 DEF FilesInOrder
<1>5. NoneLeftBehind'
  BY <1>2 DEF OrderIInv, WorkOrder, NoneLeftBehind, OnlySpends
<1>. QED
  BY <1>3, <1>4, <1>5 DEF WorkOrder

\* The worker goes on with the next file, when that one is done with.
LEMMA WorkMovesOn ==
  ASSUME IntakeIInv, OrderIInv, inbox' = inbox, OnlySpends, worker.todo # <<>>,
         NEW phase \in {"media", "audio"}, Advance(phase),
         AtFiles <=> phase = "media", AtFiles => ~row'[Current].ref
  PROVE  ListsAreTyped' /\ WorkOrder'
<1>1. \A m, n : ArrivedBefore(m, n)' <=> ArrivedBefore(m, n)
  BY ArrivalStays
<1>2. \A m : HasRow(m)' <=> HasRow(m)
  BY DEF HasRow
<1>3. /\ worker'.phase = phase /\ worker'.batch = worker.batch
      /\ worker'.todo = Tail(worker.todo) /\ worker'.landing = worker.landing
  <2>1. worker' = [phase |-> phase, batch |-> worker.batch, todo |-> Tail(worker.todo),
                   landing |-> worker.landing]
    BY WorkerMoves DEF IntakeIInv, IntakeTypes
  <2>. QED
    BY <2>1
<1>4. /\ worker.todo \in Seq(Message) /\ Tail(worker.todo) \in Seq(Message)
      /\ Current \in Message
      /\ ToSet(worker.todo) = {Current} \cup ToSet(Tail(worker.todo))
  BY WithoutHead DEF OrderIInv, ListsAreTyped, Current
<1>5. ListsAreTyped' /\ BatchInHand'
  BY <1>3, <1>4 DEF OrderIInv, WorkOrder, ListsAreTyped, BatchInHand, Phase
<1>6. AtFiles' <=> AtFiles
  BY <1>3 DEF AtFiles
<1>7. FilesInOrder'
  <2>. SUFFICES ASSUME AtFiles
                PROVE  /\ \A i, j \in DOMAIN Tail(worker.todo) :
                            i < j => ArrivedBefore(Tail(worker.todo)[i], Tail(worker.todo)[j])
                       /\ \A n \in ToSet(Tail(worker.todo)), m \in Message :
                            ArrivedBefore(m, n) /\ row'[m].ref => m \in ToSet(Tail(worker.todo))
    BY <1>1, <1>3, <1>6 DEF FilesInOrder
  <2>1. /\ Len(worker.todo) \in Nat /\ DOMAIN worker.todo = 1 .. Len(worker.todo)
        /\ DOMAIN Tail(worker.todo) = 1 .. Len(worker.todo) - 1
        /\ \A i \in 1 .. Len(worker.todo) - 1 : Tail(worker.todo)[i] = worker.todo[i + 1]
    <3>1. /\ Len(Tail(worker.todo)) = Len(worker.todo) - 1
          /\ \A i \in 1 .. Len(Tail(worker.todo)) : Tail(worker.todo)[i] = worker.todo[i + 1]
      BY <1>4, HeadTailProperties
    <3>. QED
      BY <1>4, <3>1, LenProperties
  <2>2. ASSUME NEW i \in DOMAIN Tail(worker.todo), NEW j \in DOMAIN Tail(worker.todo), i < j
        PROVE  ArrivedBefore(Tail(worker.todo)[i], Tail(worker.todo)[j])
    <3>1. i + 1 \in DOMAIN worker.todo /\ j + 1 \in DOMAIN worker.todo /\ i + 1 < j + 1
      BY <2>1, <2>2
    <3>2. ArrivedBefore(worker.todo[i + 1], worker.todo[j + 1])
      BY <3>1 DEF OrderIInv, WorkOrder, FilesInOrder
    <3>3. Tail(worker.todo)[i] = worker.todo[i + 1] /\ Tail(worker.todo)[j] = worker.todo[j + 1]
      BY <2>1
    <3>. QED
      BY <3>2, <3>3
  <2>3. ASSUME NEW n \in ToSet(Tail(worker.todo)), NEW m \in Message,
               ArrivedBefore(m, n), row'[m].ref
        PROVE  m \in ToSet(Tail(worker.todo))
    <3>1. m \in ToSet(worker.todo)
      BY <1>4, <2>3 DEF OrderIInv, WorkOrder, FilesInOrder, OnlySpends
    <3>2. m # Current
      BY <2>3
    <3>. QED
      BY <1>4, <3>1, <3>2
  <2>. QED
    BY <2>2, <2>3
<1>8. NoneLeftBehind'
  <2>1. ASSUME NEW m \in Message, m \in ToSet(worker.batch), row'[m].ref
        PROVE  AtFiles /\ m \in ToSet(Tail(worker.todo))
    <3>1. AtFiles /\ m \in ToSet(worker.todo)
      BY <2>1 DEF OrderIInv, WorkOrder, NoneLeftBehind, OnlySpends
    <3>2. m # Current
      BY <2>1, <3>1
    <3>. QED
      BY <1>4, <3>1, <3>2
  <2>2. \A m \in Message : row'[m].settled => HasRow(m) /\ ~row'[m].ref
    BY DEF OrderIInv, WorkOrder, NoneLeftBehind, OnlySpends
  <2>. QED
    BY <1>2, <1>3, <1>6, <2>1, <2>2 DEF NoneLeftBehind
<1>. QED
  BY <1>5, <1>7, <1>8 DEF WorkOrder

LEMMA ClaimKeepsOrder == ASSUME IntakeIInv, OrderIInv, Claim PROVE OrderIInv'
<1>1. /\ AtWork /\ UNCHANGED <<inbox, row, staged, audioFiles, pendingMedia, mediaIds, landed, fetched>>
      /\ worker' = [phase |-> "media", batch |-> Unsettled, todo |-> Unsettled, landing |-> <<>>]
  BY DEF Claim, Idle
<1>2. /\ Unsettled \in Seq(Message)
      /\ ToSet(Unsettled) = {m \in ToSet(inbox) : ~row[m].settled}
      /\ \A i, j \in DOMAIN Unsettled : i < j => ArrivedBefore(Unsettled[i], Unsettled[j])
  BY UnsettledIsListed DEF IntakeIInv, OrderIInv, QueueOrder
<1>3. /\ worker'.phase = "media" /\ worker'.batch = Unsettled /\ worker'.todo = Unsettled
      /\ worker'.landing = <<>>
  BY <1>1
<1>4. \A m, n : ArrivedBefore(m, n)' <=> ArrivedBefore(m, n)
  BY <1>1, ArrivalStays
<1>5. \A m, n : ArrivedBefore(m, n) => HasRow(m) /\ HasRow(n)
  BY ArrivalIsAnOrder DEF IntakeIInv, IntakeTypes, OrderIInv, QueueOrder
<1>6. \A m \in Message : row[m].settled => HasRow(m) /\ ~row[m].ref
  BY DEF OrderIInv, WorkOrder, NoneLeftBehind
<1>7. ListsAreTyped' /\ AtFiles'
  BY <1>2, <1>3 DEF ListsAreTyped, Phase, AtFiles
<1>8. BatchInHand'
  BY <1>1, <1>2, <1>3 DEF BatchInHand
<1>9. FilesInOrder'
  BY <1>1, <1>2, <1>3, <1>4, <1>5, <1>6 DEF FilesInOrder, HasRow
<1>10. NoneLeftBehind'
  BY <1>1, <1>3, <1>6, <1>7 DEF NoneLeftBehind, HasRow
<1>. QED
  BY <1>1, <1>7, <1>8, <1>9, <1>10, WorkerKeepsOrder DEF WorkOrder, OrderIInv, LedgersAreTyped

LEMMA PassOverKeepsOrder == ASSUME IntakeIInv, OrderIInv, PassOver PROVE OrderIInv'
<1>1. AtWork /\ UNCHANGED <<inbox, row, staged, audioFiles, pendingMedia, mediaIds, landed, fetched>>
  BY DEF PassOver
<1>2. OnlySpends
  BY <1>1 DEF OnlySpends
<1>3. CASE worker.phase = "media" /\ worker.todo # <<>> /\ ~row[Current].ref /\ Advance("media")
  <2>1. ListsAreTyped' /\ WorkOrder'
    BY <1>1, <1>2, <1>3, WorkMovesOn DEF AtFiles
  <2>. QED
    BY <1>1, <2>1, WorkerKeepsOrder DEF OrderIInv, LedgersAreTyped
<1>4. CASE worker.phase = "audio" /\ worker.todo # <<>> /\ ~row[Current].audio /\ Advance("audio")
  <2>1. ListsAreTyped' /\ WorkOrder'
    BY <1>1, <1>2, <1>4, WorkMovesOn DEF AtFiles
  <2>. QED
    BY <1>1, <2>1, WorkerKeepsOrder DEF OrderIInv, LedgersAreTyped
<1>5. CASE worker.phase = "audio" /\ To("turn")
  <2>1. /\ worker'.phase = "turn" /\ worker'.batch = worker.batch
        /\ worker'.todo = worker.todo /\ worker'.landing = worker.landing
    BY <1>5, WorkerMoves DEF IntakeIInv, IntakeTypes
  <2>2. worker.landing \in Seq(Nat)
    BY DEF OrderIInv, ListsAreTyped
  <2>3. ListsAreTyped' /\ WorkOrder'
    BY <1>1, <1>2, <1>5, <2>1, <2>2, WorkStays DEF AtFiles, Phase
  <2>. QED
    BY <1>1, <2>3, WorkerKeepsOrder DEF OrderIInv, LedgersAreTyped
<1>6. CASE worker.phase = "media" /\ worker.todo = <<>>
           /\ worker' = [worker EXCEPT !.phase = "audio", !.todo = worker.batch]
  <2>1. /\ worker'.phase = "audio" /\ worker'.batch = worker.batch
        /\ worker'.todo = worker.batch /\ worker'.landing = worker.landing
    BY <1>6 DEF IntakeIInv, IntakeTypes, WorkerIsARecord
  <2>2. ListsAreTyped' /\ BatchInHand' /\ FilesInOrder'
    BY <1>1, <2>1 DEF OrderIInv, WorkOrder, ListsAreTyped, BatchInHand, FilesInOrder, AtFiles, Phase
  <2>3. \A m \in Message : m \in ToSet(worker.batch) => ~row[m].ref
    BY <1>6 DEF OrderIInv, WorkOrder, NoneLeftBehind, ToSet
  <2>4. NoneLeftBehind'
    BY <1>1, <2>1, <2>3 DEF OrderIInv, WorkOrder, NoneLeftBehind, HasRow
  <2>. QED
    BY <1>1, <2>2, <2>4, WorkerKeepsOrder DEF WorkOrder, OrderIInv, LedgersAreTyped
<1>. QED
  BY <1>3, <1>4, <1>5, <1>6 DEF PassOver

\* Steps that take the file at hand from one phase to the next.
LEMMA DownloadKeepsOrder == ASSUME IntakeIInv, OrderIInv, Download PROVE OrderIInv'
<1>1. /\ AtWork /\ UNCHANGED <<inbox, row, audioFiles, pendingMedia, mediaIds, landed>>
      /\ fetched' = fetched \cup {Current}
      /\ worker.phase = "media" /\ worker.todo # <<>> /\ To("held")
  BY DEF Download, Fetching
<1>2. /\ worker'.phase = "held" /\ worker'.batch = worker.batch
      /\ worker'.todo = worker.todo /\ worker'.landing = worker.landing
  BY <1>1, WorkerMoves DEF IntakeIInv, IntakeTypes
<1>3. OnlySpends
  BY <1>1 DEF OnlySpends
<1>4. worker.landing \in Seq(Nat) /\ Current \in Message
  BY <1>1, WithoutHead DEF OrderIInv, ListsAreTyped, Current
<1>5. ListsAreTyped' /\ WorkOrder'
  BY <1>1, <1>2, <1>3, <1>4, WorkStays DEF AtFiles, Phase
<1>. QED
  BY <1>1, <1>4, <1>5, WorkerKeepsOrder DEF OrderIInv, LedgersAreTyped

LEMMA SaveKeepsOrder == ASSUME IntakeIInv, OrderIInv, Save PROVE OrderIInv'
<1>1. /\ AtWork /\ UNCHANGED <<inbox, row, staged, pendingMedia, mediaIds, landed, fetched>>
      /\ audioFiles' \subseteq audioFiles \cup {Current}
      /\ worker.phase = "held" /\ To("stored")
  BY DEF Save
<1>2. /\ worker'.phase = "stored" /\ worker'.batch = worker.batch
      /\ worker'.todo = worker.todo /\ worker'.landing = worker.landing
  BY <1>1, WorkerMoves DEF IntakeIInv, IntakeTypes
<1>3. OnlySpends
  BY <1>1 DEF OnlySpends
<1>4. worker.todo # <<>>
  BY <1>1 DEF OrderIInv, WorkOrder, BatchInHand
<1>5. worker.landing \in Seq(Nat) /\ Current \in Message
  BY <1>4, WithoutHead DEF OrderIInv, ListsAreTyped, Current
<1>6. ListsAreTyped' /\ WorkOrder'
  BY <1>1, <1>2, <1>3, <1>4, <1>5, WorkStays DEF AtFiles, Phase
<1>. QED
  BY <1>1, <1>5, <1>6, WorkerKeepsOrder DEF OrderIInv, LedgersAreTyped

LEMMA TranscribeKeepsOrder == ASSUME IntakeIInv, OrderIInv, Transcribe PROVE OrderIInv'
<1>1. /\ AtWork /\ UNCHANGED <<inbox, staged, audioFiles, pendingMedia, mediaIds, landed, fetched>>
      /\ worker.phase = "audio" /\ worker.todo # <<>> /\ To("heard")
  BY DEF Transcribe
<1>2. /\ worker'.phase = "heard" /\ worker'.batch = worker.batch
      /\ worker'.todo = worker.todo /\ worker'.landing = worker.landing
  BY <1>1, WorkerMoves DEF IntakeIInv, IntakeTypes
<1>3. OnlySpends
  <2>1. PICK text \in {"heard", "fallback"} :
          row' = [row EXCEPT ![Current].audio = FALSE, ![Current].words = text]
    BY DEF Transcribe
  <2>2. row \in [Message -> RowType]
    BY DEF IntakeIInv, IntakeTypes
  <2>. QED
    BY <2>1, <2>2 DEF OnlySpends, RowType
<1>4. worker.landing \in Seq(Nat)
  BY DEF OrderIInv, ListsAreTyped
<1>5. ListsAreTyped' /\ WorkOrder'
  BY <1>1, <1>2, <1>3, <1>4, WorkStays DEF AtFiles, Phase
<1>. QED
  BY <1>1, <1>3, <1>5, WorkerKeepsOrder DEF OrderIInv, LedgersAreTyped, OnlySpends

\* Steps that are done with the file at hand.
LEMMA SpentAndOn ==
  ASSUME IntakeIInv, OrderIInv, AtWork, AtFiles, worker.todo # <<>>, Advance("media"),
         UNCHANGED <<inbox, staged, audioFiles, pendingMedia, mediaIds, landed, fetched>>,
         NEW new \in RowType, row' = [row EXCEPT ![Current] = new],
         ~new.ref, new.settled = row[Current].settled
  PROVE  OrderIInv'
<1>1. Current \in Message /\ row \in [Message -> RowType]
  BY WithoutHead DEF OrderIInv, ListsAreTyped, Current, IntakeIInv, IntakeTypes
<1>2. row'[Current] = new /\ \A m \in Message : m # Current => row'[m] = row[m]
  BY <1>1
<1>3. OnlySpends /\ ~row'[Current].ref
  BY <1>2 DEF OnlySpends
<1>4. ListsAreTyped' /\ WorkOrder'
  BY <1>3, WorkMovesOn
<1>. QED
  BY <1>3, <1>4, WorkerKeepsOrder DEF OrderIInv, LedgersAreTyped, OnlySpends

LEMMA FileFailsKeepsOrder == ASSUME IntakeIInv, OrderIInv, FileFails PROVE OrderIInv'
<1>. DEFINE c == Current
            words == IF content[c] = "voice" THEN "fallback" ELSE row[c].words
            new == [row[c] EXCEPT !.ref = FALSE, !.words = words]
<1>1. /\ AtWork /\ UNCHANGED <<inbox, staged, audioFiles, pendingMedia, mediaIds, landed, fetched>>
      /\ Advance("media") /\ GiveUpOnFile(c)
  BY DEF FileFails
<1>2. AtFiles /\ worker.todo # <<>>
  BY DEF FileFails, Fetching, AtFiles, OrderIInv, WorkOrder, BatchInHand
<1>3. c \in Message /\ row \in [Message -> RowType]
  BY <1>2, WithoutHead DEF OrderIInv, ListsAreTyped, Current, IntakeIInv, IntakeTypes
<1>4. row' = [row EXCEPT ![c] = new]
  BY <1>1, <1>3 DEF GiveUpOnFile
<1>5. new \in RowType /\ ~new.ref /\ new.settled = row[c].settled
  <2>1. row[c] \in RowType /\ words \in Words
    BY <1>3 DEF RowType, Words
  <2>. HIDE DEF words
  <2>. QED
    BY <2>1 DEF RowType
<1>. HIDE DEF new
<1>. QED
  BY <1>1, <1>2, <1>4, <1>5, SpentAndOn

LEMMA RecordAudioKeepsOrder == ASSUME IntakeIInv, OrderIInv, RecordAudio PROVE OrderIInv'
<1>. DEFINE c == Current
            new == [row[c] EXCEPT !.audio = TRUE, !.ref = FALSE]
<1>1. /\ AtWork /\ UNCHANGED <<inbox, staged, audioFiles, pendingMedia, mediaIds, landed, fetched>>
      /\ Advance("media") /\ worker.phase = "stored"
  BY DEF RecordAudio
<1>2. AtFiles /\ worker.todo # <<>>
  BY <1>1 DEF AtFiles, OrderIInv, WorkOrder, BatchInHand
<1>3. c \in Message /\ row \in [Message -> RowType]
  BY <1>2, WithoutHead DEF OrderIInv, ListsAreTyped, Current, IntakeIInv, IntakeTypes
<1>4. row' = [row EXCEPT ![c] = new]
  BY <1>3 DEF RecordAudio
<1>5. new \in RowType /\ ~new.ref /\ new.settled = row[c].settled
  BY <1>3 DEF RowType
<1>. HIDE DEF new
<1>. QED
  BY <1>1, <1>2, <1>4, <1>5, SpentAndOn

LEMMA ClearMediaKeepsOrder == ASSUME IntakeIInv, OrderIInv, ClearMedia PROVE OrderIInv'
<1>. DEFINE c == Current
            new == [row[c] EXCEPT !.ref = FALSE]
<1>1. /\ AtWork /\ UNCHANGED <<inbox, staged, audioFiles, pendingMedia, mediaIds, landed, fetched>>
      /\ Advance("media") /\ worker.phase = "recorded"
  BY DEF ClearMedia
<1>2. AtFiles /\ worker.todo # <<>>
  BY <1>1 DEF AtFiles, OrderIInv, WorkOrder, BatchInHand
<1>3. c \in Message /\ row \in [Message -> RowType]
  BY <1>2, WithoutHead DEF OrderIInv, ListsAreTyped, Current, IntakeIInv, IntakeTypes
<1>4. row' = [row EXCEPT ![c] = new]
  BY DEF ClearMedia
<1>5. new \in RowType /\ ~new.ref /\ new.settled = row[c].settled
  BY <1>3 DEF RowType
<1>. HIDE DEF new
<1>. QED
  BY <1>1, <1>2, <1>4, <1>5, SpentAndOn

LEMMA UnlinkKeepsOrder == ASSUME IntakeIInv, OrderIInv, Unlink PROVE OrderIInv'
<1>1. /\ AtWork /\ UNCHANGED <<inbox, row, staged, pendingMedia, mediaIds, landed, fetched>>
      /\ audioFiles' \subseteq audioFiles
      /\ worker.phase = "heard" /\ Advance("audio")
  BY DEF Unlink
<1>2. OnlySpends /\ worker.todo # <<>>
  BY <1>1 DEF OnlySpends, OrderIInv, WorkOrder, BatchInHand
<1>3. ListsAreTyped' /\ WorkOrder'
  BY <1>1, <1>2, WorkMovesOn DEF AtFiles
<1>. QED
  BY <1>1, <1>3, WorkerKeepsOrder DEF OrderIInv, LedgersAreTyped

\* A photo is given the next id when all that came before it were done with.
LEMMA RecordPhotoKeepsOrder == ASSUME IntakeIInv, OrderIInv, RecordPhoto PROVE OrderIInv'
<1>. DEFINE c == Current
            new == [id |-> mediaIds + 1, photo |-> c, attached |-> FALSE]
<1>1. /\ AtWork /\ UNCHANGED <<inbox, row, staged, audioFiles, landed, fetched>>
      /\ mediaIds' = mediaIds + 1 /\ pendingMedia' = pendingMedia \cup {new}
      /\ worker.phase = "stored" /\ To("recorded")
  BY DEF RecordPhoto
<1>2. /\ worker'.phase = "recorded" /\ worker'.batch = worker.batch
      /\ worker'.todo = worker.todo /\ worker'.landing = worker.landing
  BY <1>1, WorkerMoves DEF IntakeIInv, IntakeTypes
<1>3. AtFiles /\ worker.todo # <<>> /\ OnlySpends
  BY <1>1 DEF AtFiles, OnlySpends, OrderIInv, WorkOrder, BatchInHand
<1>4. /\ worker.todo \in Seq(Message) /\ worker.landing \in Seq(Nat)
      /\ c \in Message /\ c \in ToSet(worker.todo)
  BY <1>3, WithoutHead DEF OrderIInv, ListsAreTyped, Current
<1>5. ListsAreTyped' /\ WorkOrder'
  BY <1>1, <1>2, <1>3, <1>4, WorkStays DEF AtFiles, Phase
<1>6. row[c].ref /\ HasRow(c)
  BY <1>1, <1>4 DEF IntakeIInv, RefsAreOfRows, HasInHand
<1>7. \A d \in pendingMedia : d.id \in Nat /\ d.id <= mediaIds /\ d.photo \in Message /\ HasRow(d.photo)
  <2>. TAKE d \in pendingMedia
  <2>1. d.id \in Nat /\ d.id <= mediaIds /\ d.photo \in Message
    BY DEF OrderIInv, LedgersAreTyped
  <2>2. d \in Copies(d.photo)
    BY DEF Copies
  <2>. QED
    BY <2>1, <2>2 DEF IntakeIInv, CopiesAreCounted
<1>8. mediaIds \in Nat
  BY DEF OrderIInv, LedgersAreTyped
<1>9. LedgersAreTyped'
  <2>1. new \in [id : 1 .. mediaIds + 1, photo : Message, attached : BOOLEAN]
    BY <1>4, <1>8
  <2>2. [id : 1 .. mediaIds, photo : Message, attached : BOOLEAN]
          \subseteq [id : 1 .. mediaIds + 1, photo : Message, attached : BOOLEAN]
    BY <1>8
  <2>. HIDE DEF new
  <2>3. pendingMedia' \subseteq [id : 1 .. mediaIds', photo : Message, attached : BOOLEAN]
    BY <1>1, <2>1, <2>2 DEF OrderIInv, LedgersAreTyped
  <2>. QED
    BY <1>1, <1>8, <2>3 DEF OrderIInv, LedgersAreTyped, AtWork, settings
<1>10. QueueOrder'
  BY <1>1, QueuesOrderStays DEF AtWork
<1>11. \A m, n : ArrivedBefore(m, n)' <=> ArrivedBefore(m, n)
  BY <1>1, ArrivalStays
<1>12. /\ \A m, n : ArrivedBefore(m, n) => ~ArrivedBefore(n, m) /\ m # n
       /\ \A m, n : HasRow(m) /\ HasRow(n) => m = n \/ ArrivedBefore(m, n) \/ ArrivedBefore(n, m)
  BY ArrivalIsAnOrder DEF IntakeIInv, IntakeTypes, OrderIInv, QueueOrder, HasRow
<1>13. new.id = mediaIds + 1 /\ new.photo = c
  OBVIOUS
<1>. HIDE DEF new, c
<1>14. IdsAreDrawn'
  BY <1>1, <1>7, <1>8, <1>13 DEF OrderIInv, PhotoOrder, IdsAreDrawn
<1>15. StagedInOrder'
  <2>. SUFFICES ASSUME NEW d \in pendingMedia', NEW e \in pendingMedia', d.id < e.id
                PROVE  ArrivedBefore(d.photo, e.photo) \/ d.photo = e.photo
    BY <1>11 DEF StagedInOrder
  <2>1. d \in pendingMedia
    BY <1>1, <1>7, <1>8, <1>13
  <2>2. CASE e \in pendingMedia
    BY <2>1, <2>2 DEF OrderIInv, PhotoOrder, StagedInOrder
  <2>3. CASE e = new
    <3>1. ~ArrivedBefore(c, d.photo)
      BY <1>4, <1>6, <2>1 DEF OrderIInv, PhotoOrder, NobodyOvertaken
    <3>. QED
      BY <1>6, <1>7, <1>12, <1>13, <2>1, <2>3, <3>1
  <2>. QED
    BY <1>1, <2>2, <2>3
<1>16. NobodyOvertaken'
  <2>. SUFFICES ASSUME NEW e \in pendingMedia', NEW m \in Message, ArrivedBefore(m, e.photo),
                       row[m].ref
                PROVE  FALSE
    BY <1>1, <1>11 DEF NobodyOvertaken
  <2>1. CASE e \in pendingMedia
    BY <2>1 DEF OrderIInv, PhotoOrder, NobodyOvertaken
  <2>2. CASE e = new
    <3>1. ArrivedBefore(m, c)
      BY <1>13, <2>2
    <3>2. m \in ToSet(worker.todo)
      BY <1>3, <1>4, <3>1 DEF OrderIInv, WorkOrder, FilesInOrder
    <3>3. PICK k \in DOMAIN worker.todo : worker.todo[k] = m
      BY <3>2 DEF ToSet
    <3>4. /\ Len(worker.todo) \in Nat \ {0} /\ DOMAIN worker.todo = 1 .. Len(worker.todo)
          /\ worker.todo[1] = c
      BY <1>3, <1>4, EmptySeq, LenProperties DEF c, Current
    <3>5. k # 1
      BY <1>12, <3>1, <3>3, <3>4
    <3>6. 1 \in DOMAIN worker.todo /\ 1 < k
      BY <3>3, <3>4, <3>5
    <3>7. ArrivedBefore(c, m)
      BY <1>3, <3>3, <3>4, <3>6 DEF OrderIInv, WorkOrder, FilesInOrder
    <3>. QED
      BY <1>12, <3>1, <3>7
  <2>. QED
    BY <1>1, <2>1, <2>2
<1>. QED
  BY <1>5, <1>9, <1>10, <1>14, <1>15, <1>16 DEF OrderIInv, PhotoOrder

LEMMA UploadPhotosKeepsOrder == ASSUME IntakeIInv, OrderIInv, UploadPhotos PROVE OrderIInv'
<1>. DEFINE ids == [i \in 1 .. Len(PendingPhotos) |-> PendingPhotos[i].id]
<1>1. /\ AtWork /\ UNCHANGED <<inbox, row, staged, audioFiles, pendingMedia, mediaIds, fetched>>
      /\ worker.phase = "turn"
  BY DEF UploadPhotos
<1>2. PICK fails \in SUBSET (1 .. Len(PendingPhotos)) :
        /\ landed' = landed \cup {PendingPhotos[i].photo : i \in 1 .. Len(PendingPhotos) \ fails}
        /\ worker' = [worker EXCEPT !.phase = "uploaded",
                        !.landing = SubSeq(ids, 1, Len(PendingPhotos) - Cardinality(fails))]
  BY DEF UploadPhotos
<1>. DEFINE landing == SubSeq(ids, 1, Len(PendingPhotos) - Cardinality(fails))
<1>3. PendingPhotos \in Seq(pendingMedia)
  <2>1. PendingPhotos \in Seq({e \in pendingMedia : ~e.attached})
    BY PendingIsListed DEF OrderIInv, PhotoOrder
  <2>. QED
    BY <2>1, SeqMonotonic, {e \in pendingMedia : ~e.attached} \subseteq pendingMedia
<1>4. \A e \in pendingMedia : e.id \in Nat /\ e.photo \in Message
  BY DEF OrderIInv, LedgersAreTyped
<1>5. /\ Len(PendingPhotos) \in Nat
      /\ \A i \in 1 .. Len(PendingPhotos) : PendingPhotos[i] \in pendingMedia
  BY <1>3, LenProperties, ElementOfSeq
<1>6. landed' \subseteq Message
  BY <1>2, <1>4, <1>5 DEF OrderIInv, LedgersAreTyped
<1>7. landing \in Seq(Nat)
  <2>1. ids \in Seq(Nat) /\ Len(ids) = Len(PendingPhotos)
    <3>1. ids \in [1 .. Len(PendingPhotos) -> Nat]
      BY <1>4, <1>5
    <3>2. DOMAIN ids = 1 .. Len(PendingPhotos)
      OBVIOUS
    <3>. HIDE DEF ids
    <3>3. ids \in Seq(Nat)
      BY <1>5, <3>1, SeqDef
    <3>. QED
      BY <1>5, <3>2, <3>3, LenProperties
  <2>2. Cardinality(fails) \in Nat /\ IsFiniteSet(fails)
    <3>1. IsFiniteSet(1 .. Len(PendingPhotos))
      BY <1>5, FS_Interval
    <3>2. IsFiniteSet(fails)
      BY <3>1, FS_Subset
    <3>. QED
      BY <3>2, FS_CardinalityType
  <2>. DEFINE last == Len(PendingPhotos) - Cardinality(fails)
  <2>3. last \in Int /\ last <= Len(PendingPhotos)
    BY <1>5, <2>2
  <2>. HIDE DEF last, ids
  <2>4. SubSeq(ids, 1, last) \in Seq(Nat)
    BY <1>5, <2>1, <2>3, SubSeqProperties
  <2>. QED
    BY <2>4 DEF last
<1>. HIDE DEF ids
<1>8. /\ worker'.phase = "uploaded" /\ worker'.batch = worker.batch
      /\ worker'.todo = worker.todo /\ worker'.landing = landing
  <2>. HIDE DEF landing
  <2>1. worker' = [worker EXCEPT !.phase = "uploaded", !.landing = landing]
    BY <1>2 DEF landing
  <2>. QED
    BY <2>1 DEF IntakeIInv, IntakeTypes, WorkerIsARecord
<1>. HIDE DEF landing
<1>9. OnlySpends
  BY <1>1 DEF OnlySpends
<1>10. ListsAreTyped' /\ WorkOrder'
  BY <1>1, <1>7, <1>8, <1>9, WorkStays DEF AtFiles, Phase
<1>. QED
  BY <1>1, <1>6, <1>10, WorkerKeepsOrder DEF OrderIInv, LedgersAreTyped

\* A photo that is marked keeps its id.
LEMMA MarkAttachedKeepsOrder == ASSUME IntakeIInv, OrderIInv, MarkAttached PROVE OrderIInv'
<1>1. /\ AtWork /\ UNCHANGED <<inbox, row, staged, audioFiles, mediaIds, landed, fetched>>
      /\ worker.phase = "uploaded"
      /\ worker' = [worker EXCEPT !.phase = "turn", !.landing = <<>>]
  BY DEF MarkAttached
<1>2. /\ worker'.phase = "turn" /\ worker'.batch = worker.batch
      /\ worker'.todo = worker.todo /\ worker'.landing = <<>>
  BY <1>1 DEF IntakeIInv, IntakeTypes, WorkerIsARecord
<1>3. OnlySpends
  BY <1>1 DEF OnlySpends
<1>4. ListsAreTyped' /\ WorkOrder'
  BY <1>1, <1>2, <1>3, WorkStays, EmptySeq DEF AtFiles, Phase
<1>5. QueueOrder'
  BY <1>1, QueuesOrderStays DEF AtWork
<1>6. \A m, n : ArrivedBefore(m, n)' <=> ArrivedBefore(m, n)
  BY <1>1, ArrivalStays
<1>. DEFINE marked(e) == IF e.id \in ToSet(worker.landing) THEN [e EXCEPT !.attached = TRUE] ELSE e
            Row == [id : 1 .. mediaIds, photo : Message, attached : BOOLEAN]
<1>7. pendingMedia' = {marked(e) : e \in pendingMedia}
  BY DEF MarkAttached
<1>8. \A e \in pendingMedia : e \in Row
  BY DEF OrderIInv, LedgersAreTyped
<1>9. \A e \in Row : marked(e) \in Row /\ marked(e).id = e.id /\ marked(e).photo = e.photo
  OBVIOUS
<1>. HIDE DEF marked, Row
<1>10. \A d \in pendingMedia' : /\ d \in Row
                                /\ \E e \in pendingMedia : d = marked(e) /\ d.id = e.id /\ d.photo = e.photo
  BY <1>7, <1>8, <1>9
<1>11. IdsAreDrawn' /\ StagedInOrder' /\ NobodyOvertaken'
  <2>1. IdsAreDrawn'
    BY <1>10 DEF OrderIInv, PhotoOrder, IdsAreDrawn
  <2>2. StagedInOrder'
    BY <1>6, <1>10 DEF OrderIInv, PhotoOrder, StagedInOrder
  <2>3. NobodyOvertaken'
    BY <1>1, <1>6, <1>10 DEF OrderIInv, PhotoOrder, NobodyOvertaken
  <2>. QED
    BY <2>1, <2>2, <2>3
<1>12. LedgersAreTyped'
  BY <1>1, <1>10 DEF OrderIInv, LedgersAreTyped, AtWork, settings, Row
<1>. QED
  BY <1>4, <1>5, <1>11, <1>12 DEF OrderIInv, PhotoOrder

\* An idle worker has nothing to keep in order.
LEMMA IdleIsInOrder ==
  ASSUME worker' = Idle,
         \A m \in Message : row'[m].settled => HasRow(m)' /\ ~row'[m].ref
  PROVE  ListsAreTyped' /\ WorkOrder'
<1>1. /\ worker'.phase = "idle" /\ worker'.batch = <<>>
      /\ worker'.todo = <<>> /\ worker'.landing = <<>>
  BY DEF Idle
<1>2. ToSet(<<>>) = {} /\ <<>> \in Seq(Message) /\ <<>> \in Seq(Nat)
  BY EmptySeq DEF ToSet
<1>. QED
  BY <1>1, <1>2 DEF ListsAreTyped, WorkOrder, BatchInHand, FilesInOrder, NoneLeftBehind, AtFiles, Phase

LEMMA BatchEndsKeepsOrder == ASSUME IntakeIInv, OrderIInv, BatchEnds PROVE OrderIInv'
<1>1. /\ AtWork /\ UNCHANGED <<inbox, staged, audioFiles, pendingMedia, mediaIds, landed, fetched>>
      /\ worker.phase = "turn" /\ worker' = Idle
  BY DEF BatchEnds
<1>2. PICK done \in BOOLEAN :
        row' = [m \in Message |->
                  IF done /\ m \in ToSet(worker.batch)
                  THEN [row[m] EXCEPT !.settled = TRUE] ELSE row[m]]
  BY DEF BatchEnds
<1>3. \A m \in Message : /\ row'[m].ref = row[m].ref
                         /\ row'[m].settled => row[m].settled \/ m \in ToSet(worker.batch)
  BY <1>2 DEF IntakeIInv, IntakeTypes, RowType
<1>4. \A m \in ToSet(worker.batch) : HasRow(m)' /\ (m \in Message => ~row[m].ref)
  BY <1>1 DEF OrderIInv, WorkOrder, BatchInHand, NoneLeftBehind, AtFiles, HasRow
<1>5. \A m \in Message : row[m].settled => HasRow(m)' /\ ~row[m].ref
  BY <1>1 DEF OrderIInv, WorkOrder, NoneLeftBehind, HasRow
<1>6. ListsAreTyped' /\ WorkOrder'
  BY <1>1, <1>3, <1>4, <1>5, IdleIsInOrder
<1>. QED
  BY <1>1, <1>3, <1>6, WorkerKeepsOrder DEF OrderIInv, LedgersAreTyped

-----------------------------------------------------------------------------
(* Housekeeping and crashes keep the order.                                   *)

LEMMA SweepStagedKeepsOrder == ASSUME IntakeIInv, OrderIInv, SweepStaged PROVE OrderIInv'
<1>1. PICK m \in staged : swept' = swept \cup {m}
  BY DEF SweepStaged
<1>2. UNCHANGED <<settings, bridgeVars, serverVars, intakeCrashes>>
  BY DEF SweepStaged
<1>3. m \in Message
  BY DEF IntakeIInv, IntakeTypes
<1>4. QueueOrder'
  BY <1>2, QueuesOrderStays DEF serverVars
<1>5. WorkOrder' /\ PhotoOrder' /\ ListsAreTyped'
  BY <1>2, ServersOrderStays
<1>6. LedgersAreTyped'
  BY <1>1, <1>2, <1>3 DEF OrderIInv, LedgersAreTyped, settings, serverVars
<1>. QED
  BY <1>4, <1>5, <1>6 DEF OrderIInv

LEMMA SweepPendingKeepsOrder == ASSUME IntakeIInv, OrderIInv, SweepPending PROVE OrderIInv'
<1>1. /\ pendingMedia' \subseteq pendingMedia
      /\ UNCHANGED <<settings, bridgeVars, staged, inbox, row, worker, audioFiles, mediaIds, landed,
                     fetched, swept, intakeCrashes>>
  BY DEF SweepPending
<1>2. OnlySpends /\ AtWork
  BY <1>1 DEF OnlySpends, AtWork
<1>3. ListsAreTyped' /\ WorkOrder'
  BY <1>1, <1>2, WorkStays DEF AtFiles, OrderIInv, ListsAreTyped, WorkOrder, BatchInHand
<1>. QED
  BY <1>1, <1>2, <1>3, WorkerKeepsOrder DEF OrderIInv, LedgersAreTyped, OnlySpends

LEMMA ServerCrashKeepsOrder == ASSUME IntakeIInv, OrderIInv, ServerCrash PROVE OrderIInv'
<1>1. /\ UNCHANGED <<settings, seen, handling, outbox, posted, queued, staged, inbox, row, audioFiles,
                     pendingMedia, mediaIds, landed, fetched, swept>>
      /\ worker' = Idle /\ late' = {}
  BY DEF ServerCrash
<1>2. intakeCrashes' \in 0 .. MaxIntakeCrashes
  BY CrashesAreCounted DEF ServerCrash
<1>3. \A m, n : ArrivedBefore(m, n)' <=> ArrivedBefore(m, n)
  BY <1>1, ArrivalStays
<1>4. QueueOrder'
  <2>1. QueuedOnce' /\ OutboxIsTheRest' /\ LateWereHeads'
    BY <1>1 DEF OrderIInv, QueueOrder, QueuedOnce, OutboxIsTheRest, LateWereHeads, Gone
  <2>2. RowsFollowTheQueue'
    BY <1>1, <1>3 DEF OrderIInv, QueueOrder, RowsFollowTheQueue, Behind, Gone, settings
  <2>. QED
    BY <2>1, <2>2 DEF QueueOrder
<1>5. ListsAreTyped' /\ WorkOrder'
  <2>1. \A m \in Message : row'[m].settled => HasRow(m)' /\ ~row'[m].ref
    BY <1>1 DEF OrderIInv, WorkOrder, NoneLeftBehind, HasRow
  <2>. QED
    BY <1>1, <2>1, IdleIsInOrder
<1>6. PhotoOrder'
  BY <1>1, PhotosStay
<1>7. LedgersAreTyped'
  BY <1>1, <1>2 DEF OrderIInv, LedgersAreTyped, settings
<1>. QED
  BY <1>4, <1>5, <1>6, <1>7 DEF OrderIInv

LEMMA StutterKeepsOrder == ASSUME IntakeIInv, OrderIInv, UNCHANGED intakeVars PROVE OrderIInv'
<1>1. /\ UNCHANGED <<settings, seen, outbox, queued, staged, serverVars, swept>>
      /\ handling' \in {handling, NoEvent} /\ (\A e \in late' : e \in late)
  BY DEF intakeVars, bridgeVars
<1>2. intakeCrashes' \in 0 .. MaxIntakeCrashes
  BY DEF intakeVars, OrderIInv, LedgersAreTyped
<1>. QED
  BY <1>1, <1>2, DispatcherKeepsOrder

-----------------------------------------------------------------------------
(* Theorems about the order.                                                  *)

LEMMA InitIsInOrder == IntakeInit => OrderIInv
<1>. SUFFICES ASSUME IntakeInit PROVE OrderIInv
  OBVIOUS
<1>1. /\ <<>> \in Seq(Message) /\ <<>> \in Seq(Nat) /\ ToSet(<<>>) = {} /\ DOMAIN <<>> = {}
      /\ Len(<<>>) = 0
  BY EmptySeq DEF ToSet
<1>2. /\ worker.phase = "idle" /\ worker.batch = <<>>
      /\ worker.todo = <<>> /\ worker.landing = <<>>
  BY DEF IntakeInit, Idle
<1>3. ListsAreTyped /\ LedgersAreTyped
  BY <1>1, <1>2, IntakeAssumption
  DEF IntakeInit, ListsAreTyped, LedgersAreTyped, Phase, IntakeAssumption
<1>4. \A m, n : ~ArrivedBefore(m, n)
  BY <1>1 DEF IntakeInit, ArrivedBefore
<1>5. QueueOrder
  BY <1>1, <1>4
  DEF IntakeInit, QueueOrder, QueuedOnce, OutboxIsTheRest, LateWereHeads, RowsFollowTheQueue
<1>6. \A m \in Message : ~row[m].settled
  BY DEF IntakeInit, NoRow
<1>7. WorkOrder
  BY <1>1, <1>2, <1>6 DEF WorkOrder, BatchInHand, FilesInOrder, NoneLeftBehind, AtFiles, IntakeInit
<1>8. PhotoOrder
  BY DEF IntakeInit, PhotoOrder, IdsAreDrawn, StagedInOrder, NobodyOvertaken
<1>. QED
  BY <1>3, <1>5, <1>7, <1>8 DEF OrderIInv

LEMMA NextKeepsOrder == IntakeIInv /\ OrderIInv /\ [IntakeNext]_intakeVars => OrderIInv'
<1>. SUFFICES ASSUME IntakeIInv, OrderIInv, [IntakeNext]_intakeVars PROVE OrderIInv'
  OBVIOUS
<1>1. ASSUME NEW m \in Message, Handle(m) PROVE OrderIInv'
  BY <1>1, HandleKeepsOrder
<1>2. ASSUME NEW m \in Message, MetaPosts(m) PROVE OrderIInv'
  BY <1>2, MetaPostsKeepsOrder
<1>3. CASE Enqueue
  BY <1>3, EnqueueKeepsOrder
<1>4. CASE Post
  BY <1>4, PostKeepsOrder
<1>5. CASE Settle
  BY <1>5, SettleKeepsOrder
<1>6. CASE GiveUp
  BY <1>6, GiveUpKeepsOrder
<1>7. CASE Webhook
  BY <1>7, WebhookKeepsOrder
<1>8. CASE WebhookLate
  BY <1>8, WebhookLateKeepsOrder
<1>9. CASE Claim
  BY <1>9, ClaimKeepsOrder
<1>10. CASE PassOver
  BY <1>10, PassOverKeepsOrder
<1>11. CASE Download
  BY <1>11, DownloadKeepsOrder
<1>12. CASE FileFails
  BY <1>12, FileFailsKeepsOrder
<1>13. CASE Save
  BY <1>13, SaveKeepsOrder
<1>14. CASE RecordAudio
  BY <1>14, RecordAudioKeepsOrder
<1>15. CASE RecordPhoto
  BY <1>15, RecordPhotoKeepsOrder
<1>16. CASE ClearMedia
  BY <1>16, ClearMediaKeepsOrder
<1>17. CASE Transcribe
  BY <1>17, TranscribeKeepsOrder
<1>18. CASE Unlink
  BY <1>18, UnlinkKeepsOrder
<1>19. CASE UploadPhotos
  BY <1>19, UploadPhotosKeepsOrder
<1>20. CASE MarkAttached
  BY <1>20, MarkAttachedKeepsOrder
<1>21. CASE BatchEnds
  BY <1>21, BatchEndsKeepsOrder
<1>22. CASE SweepStaged
  BY <1>22, SweepStagedKeepsOrder
<1>23. CASE SweepPending
  BY <1>23, SweepPendingKeepsOrder
<1>24. CASE BridgeCrash
  BY <1>24, BridgeCrashKeepsOrder
<1>25. CASE ServerCrash
  BY <1>25, ServerCrashKeepsOrder
<1>26. CASE UNCHANGED intakeVars
  BY <1>26, StutterKeepsOrder
<1>. QED
  BY <1>1, <1>2, <1>3, <1>4, <1>5, <1>6, <1>7, <1>8, <1>9, <1>10, <1>11, <1>12, <1>13, <1>14,
     <1>15, <1>16, <1>17, <1>18, <1>19, <1>20, <1>21, <1>22, <1>23, <1>24, <1>25, <1>26
  DEF IntakeNext

\* OrderIInv holds in every reachable state: rows come in the order of the
\* bridge's outbox, the worker takes their files in that order, and a photo that
\* is listed was passed by none that could still be fetched.
THEOREM OrderInvariant == IntakeSpec => []OrderIInv
<1>1. IntakeInit => OrderIInv
  BY InitIsInOrder
<1>2. IntakeIInv /\ OrderIInv /\ [IntakeNext]_intakeVars => OrderIInv'
  BY NextKeepsOrder
<1>. QED
  BY <1>1, <1>2, IntakeInvariant, PTL DEF IntakeSpec

\* Everything keeps its type, what the worker's lists hold included.
THEOREM IntakeTypeCorrect == IntakeSpec => []IntakeTypeOK
<1>1. IntakeIInv /\ OrderIInv => IntakeTypeOK
  <2>. SUFFICES ASSUME IntakeIInv, OrderIInv PROVE IntakeTypeOK
    OBVIOUS
  <2>1. worker \in [phase : Phase, batch : Seq(Message), todo : Seq(Message), landing : Seq(Nat)]
    BY DEF IntakeIInv, IntakeTypes, WorkerIsARecord, OrderIInv, ListsAreTyped
  <2>. QED
    BY <2>1 DEF IntakeIInv, IntakeTypes, OrderIInv, LedgersAreTyped, IntakeTypeOK, RowType
<1>. QED
  BY <1>1, IntakeInvariant, OrderInvariant, PTL

\* Whatever is retried, sent twice, lost or replayed, photos are listed for
\* upload in the order the owner sent them (listPendingMedia).
THEOREM ListedAsSent == IntakeSpec => []PhotosListedAsSent
  BY OrderIsSendOrder, IntakeInvariant, OrderInvariant, PTL
=============================================================================
