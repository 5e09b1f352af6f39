---------------------------- MODULE PhotoServer ----------------------------
(* The HTTP handlers that move photos, with the Postgres rows, the S3       *)
(* bucket and the clock they share: starting an event, uploading a capture, *)
(* listing the album, fetching one original and downloading the whole album *)
(* as a zip.                                                                *)
(*                                                                          *)
(* A handler is a goroutine; between two of its calls to the database, the  *)
(* bucket or the clock, any other handler may run.  So one action here is   *)
(* one such call with the local work up to the next, and "pc" names the     *)
(* call a handler makes next.  gin.Context is not cancelled when a phone    *)
(* hangs up, so a handler always runs to its answer unless the server dies. *)
(*                                                                          *)
(* A definition named Slip... is the mistake that a property must notice in *)
(* the definition below it; the specification does not use it.              *)
EXTENDS Naturals, Sequences

CONSTANTS
    Handlers,     \* requests served at the same time
    Starters,     \* those that may serve POST /events
    Captures,     \* the client_ids phones generate, one per capture
    NoCapture,    \* "no client_id", in requests that carry none
    TakenAt,      \* when each capture was taken, as its phone reports it
    PhotoIds,     \* the ids uuid.New can return (a bound)
    MaxTime,      \* the last instant of the clock (a bound)
    MaxEvents     \* how many events are ever started (a bound)

ASSUME HandlersAssumption == Starters \subseteq Handlers
ASSUME CapturesAssumption ==
    /\ NoCapture \notin Captures
    /\ TakenAt \in [Captures -> Nat]
ASSUME PhotoIdsAssumption == PhotoIds \subseteq Nat \ {0}
ASSUME TimeAssumption == MaxTime \in Nat /\ MaxEvents \in Nat

VARIABLES
    now,           \* the server's clock
    events,        \* ends_at of every events row, in created_at order
    activeEvent,   \* users.active_event_id of the shared user, 0 when null
    photos,        \* the photos rows
    bucket,        \* the object keys in the bucket
    req,           \* what each handler is doing
    revealed       \* photos whose bytes or signed URL left the server (history)

vars == <<now, events, activeEvent, photos, bucket, req, revealed>>

-----------------------------------------------------------------------------
(* The data *)

NoPhoto == 0

PhotoKey(id) == <<"photos", id>>
SlipThumbKey(id) == <<"thumb", id>>
ThumbKey(id) == <<"thumbs", id>>

Photo == [id : PhotoIds, event : 1..MaxEvents, client : Captures]

(* "current" is the newest events row, 0 when there is none. *)
CurrentEvent == Len(events)

SlipIsOver(e) == events[e] <= now + 1

(* The boundary is inclusive: at exactly ends_at the event is over. *)
IsOver(e) == events[e] <= now

SlipFindPhotoByClientId(e, c) == {p \in photos : p.client = c}
FindPhotoByClientId(e, c) == {p \in photos : p.event = e /\ p.client = c}
ListPhotosByEvent(e) == {p \in photos : p.event = e}
FindPhotoById(id) == {p \in photos : p.id = id}

(* The album reads chronologically: taken_at first, then id. *)
Before(p, q) ==
    \/ TakenAt[p.client] < TakenAt[q.client]
    \/ TakenAt[p.client] = TakenAt[q.client] /\ p.id < q.id

Ops == {"none", "create", "upload", "list", "original", "zip"}
Calls == {"idle", "load", "check", "find", "putPhoto", "putThumb", "insert",
          "resolve", "setActive", "query", "open", "done"}
(* The answers, 0 before there is one.  A 413 counts as a 400 and a 502 as  *)
(* a 500: a phone gives up after the one pair and tries again after the     *)
(* other.                                                                   *)
Statuses == {0, 200, 201, 400, 404, 409, 423, 500}

Request == [op : Ops, pc : Calls, event : 0..MaxEvents,
            client : Captures \cup {NoCapture}, id : PhotoIds \cup {NoPhoto},
            rows : SUBSET Photo, status : Statuses]

Idle == [op |-> "none", pc |-> "idle", event |-> 0, client |-> NoCapture,
         id |-> NoPhoto, rows |-> {}, status |-> 0]

(* uuid.New: an id nothing refers to. *)
FreshIds == PhotoIds \ ( {p.id : p \in photos} \cup {key[2] : key \in bucket}
                            \cup {req[h].id : h \in Handlers} )

At(h, op, pc) == req[h].op = op /\ req[h].pc = pc

Goto(h, pc) == req' = [req EXCEPT ![h].pc = pc]

(* An answer with an error, or with a body no property is about. *)
Answer(h, status) ==
    req' = [req EXCEPT ![h] = [Idle EXCEPT !.op = req[h].op, !.pc = "done",
                                           !.status = status]]

(* eventResponse names the event. *)
AnswerEvent(h, status) ==
    req' = [req EXCEPT ![h] = [Idle EXCEPT !.op = req[h].op, !.pc = "done",
                                           !.status = status,
                                           !.event = req[h].event]]

(* uploadResponse names the photo and the capture. *)
AnswerPhoto(h, status, id) ==
    req' = [req EXCEPT ![h] = [@ EXCEPT !.pc = "done", !.status = status,
                                        !.id = id]]

Init ==
    /\ now = 0
    /\ events = << >>
    /\ activeEvent = 0
    /\ photos = {}
    /\ bucket = {}
    /\ req = [h \in Handlers |-> Idle]
    /\ revealed = {}

-----------------------------------------------------------------------------
(* What every request has in common *)

stored == <<events, activeEvent, photos, bucket>>

(* A request arrives.  An original is asked for by the id of some photo (an *)
(* upload's answer carries it) or by an id nobody stored.                   *)
Receive(h, op, c, id) ==
    /\ req[h] = Idle
    /\ op = "create" => h \in Starters
    /\ req' = [req EXCEPT ![h] = [Idle EXCEPT !.op = op, !.pc = "load",
                                              !.client = c, !.id = id]]
    /\ UNCHANGED <<now, stored, revealed>>

Arrive(h) ==
    \/ \E op \in {"create", "list", "zip"} : Receive(h, op, NoCapture, NoPhoto)
    \/ \E c \in Captures : Receive(h, "upload", c, NoPhoto)
    \/ \E id \in {p.id : p \in photos} \cup {NoPhoto} :
          Receive(h, "original", NoCapture, id)

(* GetCurrentEvent.  Only Create goes on without a current event.  Create   *)
(* reads its body first, and answers 400 to an ends_at not after starts_at. *)
LoadEvent(h) ==
    /\ req[h].pc = "load"
    /\ \/ req[h].op = "create" /\ Answer(h, 400)
       \/ Answer(h, 500)
       \/ /\ CurrentEvent = 0
          /\ IF req[h].op = "create" THEN Goto(h, "check") ELSE Answer(h, 404)
       \/ /\ CurrentEvent # 0
          /\ req' = [req EXCEPT ![h] = [@ EXCEPT !.pc = "check",
                                                 !.event = CurrentEvent]]
    /\ UNCHANGED <<now, stored, revealed>>

(* The answer is on its way and the goroutine ends. *)
Finish(h) ==
    /\ req[h].pc = "done"
    /\ req' = [req EXCEPT ![h] = Idle]
    /\ UNCHANGED <<now, stored, revealed>>

-----------------------------------------------------------------------------
(* POST /events *)

SlipCheckNoneRunning(h) ==
    /\ At(h, "create", "check")
    /\ IF req[h].event \in {0} \cup (DOMAIN events \ {activeEvent})
            \/ IsOver(req[h].event)
         THEN Goto(h, "insert")
         ELSE Answer(h, 409)
    /\ UNCHANGED <<now, stored, revealed>>

(* The row that was loaded, if any, must be over by the clock of now. *)
CheckNoneRunning(h) ==
    /\ At(h, "create", "check")
    /\ IF req[h].event = 0 \/ IsOver(req[h].event)
         THEN Goto(h, "insert")
         ELSE Answer(h, 409)
    /\ UNCHANGED <<now, stored, revealed>>

(* CreateEvent.  Any ends_at goes, also one that has passed.  The insert    *)
(* may fail, and it may fail after Postgres committed it.                   *)
CreateEvent(h) ==
    /\ At(h, "create", "insert")
    /\ \/ /\ Len(events) < MaxEvents
          /\ \E t \in 0..MaxTime : events' = Append(events, t)
          /\ \/ req' = [req EXCEPT ![h] = [@ EXCEPT !.pc = "setActive",
                                                    !.event = Len(events) + 1]]
             \/ Answer(h, 500)
       \/ events' = events /\ Answer(h, 500)
    /\ UNCHANGED <<now, activeEvent, photos, bucket, revealed>>

SlipSetActiveEvent(h) ==
    /\ At(h, "create", "setActive")
    /\ activeEvent' \in {activeEvent, req[h].event} /\ AnswerEvent(h, 201)
    /\ UNCHANGED <<now, events, photos, bucket, revealed>>

(* SetActiveEvent, a statement of its own: the event stands if it fails. *)
SetActiveEvent(h) ==
    /\ At(h, "create", "setActive")
    /\ \/ activeEvent' = req[h].event /\ AnswerEvent(h, 201)
       \/ activeEvent' \in {activeEvent, req[h].event} /\ Answer(h, 500)
    /\ UNCHANGED <<now, events, photos, bucket, revealed>>

-----------------------------------------------------------------------------
(* POST /events/current/photos *)

(* requireRunning, then the form: too large, unreadable, or without ids. *)
CheckRunning(h) ==
    /\ At(h, "upload", "check")
    /\ IF IsOver(req[h].event)
         THEN Answer(h, 423)
         ELSE Goto(h, "find") \/ Answer(h, 400)
    /\ UNCHANGED <<now, stored, revealed>>

(* FindPhotoByClientId, then the file: too large, or not a JPEG. *)
FindDuplicate(h) ==
    /\ At(h, "upload", "find")
    /\ LET found == FindPhotoByClientId(req[h].event, req[h].client) IN
         \/ \E p \in found : AnswerPhoto(h, 200, p.id)
         \/ Answer(h, 500)
         \/ /\ found = {}
            /\ Goto(h, "putPhoto") \/ Answer(h, 400)
    /\ UNCHANGED <<now, stored, revealed>>

(* A fresh id names the objects and later the row.  Put may fail, and may   *)
(* fail after the bucket took the object.                                   *)
PutPhoto(h) ==
    /\ At(h, "upload", "putPhoto")
    /\ \E id \in FreshIds :
          \/ /\ bucket' = bucket \cup {PhotoKey(id)}
             /\ req' = [req EXCEPT ![h] = [@ EXCEPT !.pc = "putThumb",
                                                    !.id = id]]
          \/ /\ bucket' \in {bucket, bucket \cup {PhotoKey(id)}}
             /\ Answer(h, 500)
    /\ UNCHANGED <<now, events, activeEvent, photos, revealed>>

SlipPutThumb(h) ==
    /\ At(h, "upload", "putThumb")
    /\ bucket' \in {bucket, bucket \cup {ThumbKey(req[h].id)}}
    /\ Goto(h, "insert")
    /\ UNCHANGED <<now, events, activeEvent, photos, revealed>>

PutThumb(h) ==
    /\ At(h, "upload", "putThumb")
    /\ LET put == bucket \cup {ThumbKey(req[h].id)} IN
         \/ bucket' = put /\ Goto(h, "insert")
         \/ bucket' \in {bucket, put} /\ Answer(h, 500)
    /\ UNCHANGED <<now, events, activeEvent, photos, revealed>>

SlipCreatePhoto(h) ==
    /\ At(h, "upload", "insert")
    /\ photos' = photos \cup {[id |-> req[h].id, event |-> req[h].event,
                               client |-> req[h].client]}
    /\ AnswerPhoto(h, 201, req[h].id)
    /\ UNCHANGED <<now, events, activeEvent, bucket, revealed>>

(* CreatePhoto.  A second row for the capture in this event breaks the      *)
(* unique constraint; any other failure is a 500, row or no row.            *)
CreatePhoto(h) ==
    /\ At(h, "upload", "insert")
    /\ LET row == [id |-> req[h].id, event |-> req[h].event,
                   client |-> req[h].client] IN
         IF FindPhotoByClientId(row.event, row.client) # {}
           THEN photos' = photos /\ (Goto(h, "resolve") \/ Answer(h, 500))
           ELSE \/ photos' = photos \cup {row} /\ AnswerPhoto(h, 201, row.id)
                \/ photos' \in {photos, photos \cup {row}} /\ Answer(h, 500)
    /\ UNCHANGED <<now, events, activeEvent, bucket, revealed>>

(* The loser of a race answers with the winner's row. *)
ResolveRace(h) ==
    /\ At(h, "upload", "resolve")
    /\ \/ \E p \in FindPhotoByClientId(req[h].event, req[h].client) :
             AnswerPhoto(h, 200, p.id)
       \/ Answer(h, 500)
    /\ UNCHANGED <<now, stored, revealed>>

-----------------------------------------------------------------------------
(* The album: GET /events/current/photos, GET /photos/:id/original and      *)
(* GET /events/current/photos/download                                      *)

Reading == {"list", "original", "zip"}

SlipCheckUnlocked(h) ==
    /\ req[h].op \in Reading /\ req[h].pc = "check"
    /\ IF req[h].op = "original" \/ IsOver(req[h].event)
         THEN Goto(h, "query")
         ELSE Answer(h, 423)
    /\ UNCHANGED <<now, stored, revealed>>

(* requireUnlocked: the lock is the current event's. *)
CheckUnlocked(h) ==
    /\ req[h].op \in Reading /\ req[h].pc = "check"
    /\ IF IsOver(req[h].event) THEN Goto(h, "query") ELSE Answer(h, 423)
    /\ UNCHANGED <<now, stored, revealed>>

SlipList(h) ==
    /\ At(h, "list", "query")
    /\ revealed' = revealed \cup {p.id : p \in ListPhotosByEvent(CurrentEvent)}
    /\ Answer(h, 200)
    /\ UNCHANGED <<now, stored>>

(* Two signed URLs for every row; signing is local, and one failure leaves  *)
(* the whole list unsent.                                                   *)
List(h) ==
    /\ At(h, "list", "query")
    /\ \/ /\ revealed' = revealed \cup
                {p.id : p \in ListPhotosByEvent(req[h].event)}
          /\ Answer(h, 200)
       \/ revealed' = revealed /\ Answer(h, 500)
    /\ UNCHANGED <<now, stored>>

(* The photo is looked up by id alone, whatever event it belongs to.  A     *)
(* path that is no UUID answers 400.                                        *)
FindOriginal(h) ==
    /\ At(h, "original", "query")
    /\ \/ Answer(h, 400)
       \/ Answer(h, 500)
       \/ IF FindPhotoById(req[h].id) = {} THEN Answer(h, 404)
                                           ELSE Goto(h, "open")
    /\ UNCHANGED <<now, stored, revealed>>

OpenOriginal(h) ==
    /\ At(h, "original", "open")
    /\ \/ /\ PhotoKey(req[h].id) \in bucket
          /\ revealed' = revealed \cup {req[h].id}
          /\ Answer(h, 200)
       \/ revealed' = revealed /\ Answer(h, 500)
    /\ UNCHANGED <<now, stored>>

(* The rows are read once; the 200 is on the wire before the first photo. *)
ListForZip(h) ==
    /\ At(h, "zip", "query")
    /\ \/ req' = [req EXCEPT ![h] = [@ EXCEPT !.pc = "open",
                                 !.rows = ListPhotosByEvent(req[h].event)]]
       \/ Answer(h, 500)
    /\ UNCHANGED <<now, stored, revealed>>

(* One entry, the earliest that is left.  Where one cannot be read, or not  *)
(* written, the archive ends.                                               *)
ZipNext(h) ==
    /\ At(h, "zip", "open")
    /\ \E p \in req[h].rows :
          /\ \A q \in req[h].rows \ {p} : Before(p, q)
          /\ \/ /\ PhotoKey(p.id) \in bucket
                /\ revealed' = revealed \cup {p.id}
                /\ \/ req' = [req EXCEPT ![h].rows = @ \ {p}]
                   \/ Answer(h, 200)
             \/ revealed' = revealed /\ Answer(h, 200)
    /\ UNCHANGED <<now, stored>>

ZipEnd(h) ==
    /\ At(h, "zip", "open")
    /\ req[h].rows = {}
    /\ Answer(h, 200)
    /\ UNCHANGED <<now, stored, revealed>>

-----------------------------------------------------------------------------
(* The world, and the specification *)

Tick ==
    /\ now < MaxTime
    /\ now' = now + 1
    /\ UNCHANGED <<stored, req, revealed>>

(* The server dies and comes back: every handler is gone, with its answer. *)
Crash ==
    /\ req' = [h \in Handlers |-> Idle]
    /\ req' # req
    /\ UNCHANGED <<now, stored, revealed>>

Serve(h) ==
    \/ Arrive(h) \/ LoadEvent(h) \/ Finish(h)
    \/ CheckNoneRunning(h) \/ CreateEvent(h) \/ SetActiveEvent(h)
    \/ CheckRunning(h) \/ FindDuplicate(h)
    \/ PutPhoto(h) \/ PutThumb(h) \/ CreatePhoto(h) \/ ResolveRace(h)
    \/ CheckUnlocked(h) \/ List(h) \/ FindOriginal(h) \/ OpenOriginal(h)
    \/ ListForZip(h) \/ ZipNext(h) \/ ZipEnd(h)

Next == Tick \/ Crash \/ \E h \in Handlers : Serve(h)

Spec == Init /\ [][Next]_vars

-----------------------------------------------------------------------------
(* What the server owes *)

Answered(h, op, status) ==
    req[h].op = op /\ req[h].pc = "done" /\ req[h].status = status

(* Every variable has its type. *)
TypeOK ==
    /\ now \in 0..MaxTime
    /\ events \in Seq(0..MaxTime) /\ Len(events) <= MaxEvents
    /\ activeEvent \in 0..MaxEvents
    /\ photos \subseteq Photo
    /\ bucket \subseteq {"photos", "thumbs"} \X PhotoIds
    /\ req \in [Handlers -> Request]
    /\ revealed \subseteq PhotoIds

HasObjects(p) == PhotoKey(p.id) \in bucket /\ ThumbKey(p.id) \in bucket

(* The album never lists a photo whose picture or thumbnail is missing:     *)
(* whichever of the two Puts, the insert or the server itself fails, the    *)
(* row comes only after both objects (upload.go puts, then inserts).        *)
RowsHaveObjects == \A p \in photos : HasObjects(p)

(* A phone deletes its copy on a 200 or a 201, so either answer means that  *)
(* this capture is stored under the event the upload was admitted to, with  *)
(* its objects, also when the answer came from a duplicate found first, or  *)
(* from the row that won a race.                                            *)
AckedIsStored ==
    \A h \in Handlers :
        Answered(h, "upload", 200) \/ Answered(h, "upload", 201) =>
            \E p \in photos :
                /\ p.id = req[h].id
                /\ p.event = req[h].event /\ p.client = req[h].client
                /\ HasObjects(p)

(* One capture is one photo of an event, however often and however          *)
(* concurrently it is uploaded (README.md: a request that succeeded but     *)
(* whose response was lost does not store a second copy).                   *)
OneCopyPerEvent ==
    \A p, q \in photos : p.event = q.event /\ p.client = q.client => p = q

(* The lock, with starts that do not overlap: no picture has left the       *)
(* server before its own event was over, although a handler checks the      *)
(* event it loaded and other events may start before it reads.              *)
Sealed == \A p \in photos : p.id \in revealed => IsOver(p.event)

(* All events but the current one are over, with starts that do not         *)
(* overlap: POST /events refuses while one runs.                            *)
OlderEventsAreOver == \A e \in 1..(CurrentEvent - 1) : IsOver(e)

(* A 201 for POST /events: the event it made is the current one, and the    *)
(* creator's active one, with starts that do not overlap.                   *)
StartedIsActive ==
    \A h \in Handlers :
        Answered(h, "create", 201) =>
            req[h].event = CurrentEvent /\ activeEvent = CurrentEvent

(* A list or a zip shows photos of events that are over and of no other,    *)
(* however starts overlap: the rows come from the event that was checked.   *)
PagesShowOverEvents ==
    [][ (\E h \in Handlers : req[h].op \in {"list", "zip"} /\ req'[h] # req[h])
          => \A p \in photos :
                p.id \in revealed' \ revealed => IsOver(p.event) ]_vars

(* What requireRunning's comment says: once the event is over, no more      *)
(* pictures.                                                                *)
NoLateRows == [][ \A p \in photos' \ photos : ~IsOver(p.event) ]_vars

(* The handlers keep the promise of SealedAlbum: rows are what is kept, and *)
(* the rows of revealed photos are what is shown.                           *)
Promise == INSTANCE SealedAlbum WITH
    ends <- events,
    kept <- {<<p.event, p.client>> : p \in photos},
    shown <- {<<p.event, p.client>> : p \in {q \in photos : q.id \in revealed}}

KeepsPromise == Promise!Spec
=============================================================================
