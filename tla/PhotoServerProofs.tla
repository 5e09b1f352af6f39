------------------------- MODULE PhotoServerProofs -------------------------
(* Theorems about PhotoServer, for any number of handlers, captures, ids,   *)
(* instants and events.                                                     *)
EXTENDS PhotoServer, TLAPS

-----------------------------------------------------------------------------
(* The inductive invariant of storage.  RowsHaveObjects and AckedIsStored   *)
(* are not inductive: they need to know what a handler between two calls    *)
(* has already done.                                                        *)

UploadInv(h) ==
    req[h].op = "upload" =>
        /\ req[h].pc \notin {"idle", "done"} => req[h].client \in Captures
        /\ req[h].pc \notin {"idle", "load", "done"} =>
               req[h].event \in 1..Len(events)
        /\ req[h].pc \in {"putThumb", "insert"} =>
               req[h].id \in PhotoIds /\ PhotoKey(req[h].id) \in bucket
        /\ req[h].pc = "insert" => ThumbKey(req[h].id) \in bucket

OriginalInv(h) == At(h, "original", "open") => req[h].id \in PhotoIds

Acked(h) ==
    Answered(h, "upload", 200) \/ Answered(h, "upload", 201) =>
        \E p \in photos :
            /\ p.id = req[h].id
            /\ p.event = req[h].event /\ p.client = req[h].client
            /\ HasObjects(p)

HandlerInv(h) == UploadInv(h) /\ OriginalInv(h) /\ Acked(h)

StorageInv ==
    /\ TypeOK
    /\ RowsHaveObjects
    /\ OneCopyPerEvent
    /\ \A h \in Handlers : HandlerInv(h)

-----------------------------------------------------------------------------
(* What the ways of moving handler h on do to req *)

LEMMA IdleIsRequest == Idle \in Request
BY TimeAssumption DEF Idle, Request, Ops, Calls, Statuses, NoPhoto

(* Only handler h moves. *)
Moves(h) ==
    /\ req' \in [Handlers -> Request]
    /\ \A g \in Handlers \ {h} : req'[g] = req[g]

LEMMA GotoMoves ==
    ASSUME TypeOK, NEW h \in Handlers, NEW pc \in Calls, Goto(h, pc)
    PROVE  Moves(h) /\ req'[h] = [req[h] EXCEPT !.pc = pc]
BY DEF TypeOK, Goto, Request, Moves

LEMMA AnswerMoves ==
    ASSUME TypeOK, NEW h \in Handlers, NEW status \in Statuses,
           Answer(h, status)
    PROVE  /\ Moves(h)
           /\ req'[h] = [Idle EXCEPT !.op = req[h].op, !.pc = "done",
                                     !.status = status]
BY IdleIsRequest DEF TypeOK, Answer, Request, Calls, Moves

LEMMA AnswerEnds ==
    ASSUME TypeOK, NEW h \in Handlers, NEW status \in Statuses,
           Answer(h, status)
    PROVE  /\ Moves(h)
           /\ req'[h].pc = "done" /\ req'[h].op = req[h].op
           /\ req'[h].status = status
<1> DEFINE r == [Idle EXCEPT !.op = req[h].op, !.pc = "done",
                             !.status = status]
<1>1. r.pc = "done" /\ r.op = req[h].op /\ r.status = status
    BY DEF Idle
<1>2. Moves(h) /\ req'[h] = r
    BY AnswerMoves, Zenon
<1> QED
    BY <1>1, <1>2

LEMMA AnswerEventMoves ==
    ASSUME TypeOK, NEW h \in Handlers, NEW status \in Statuses,
           AnswerEvent(h, status)
    PROVE  /\ Moves(h)
           /\ req'[h] = [Idle EXCEPT !.op = req[h].op, !.pc = "done",
                                     !.status = status,
                                     !.event = req[h].event]
BY IdleIsRequest DEF TypeOK, AnswerEvent, Request, Calls, Moves

LEMMA AnswerPhotoMoves ==
    ASSUME TypeOK, NEW h \in Handlers, NEW status \in Statuses,
           NEW id \in PhotoIds, AnswerPhoto(h, status, id)
    PROVE  /\ Moves(h)
           /\ req'[h].pc = "done" /\ req'[h].status = status
           /\ req'[h].id = id /\ req'[h].op = req[h].op
           /\ req'[h].event = req[h].event /\ req'[h].client = req[h].client
<1> DEFINE r == [req[h] EXCEPT !.pc = "done", !.status = status, !.id = id]
<1>1. req[h] \in Request
    BY DEF TypeOK
<1>2. r \in Request
    BY <1>1 DEF Request, Calls
<1>3. req' = [req EXCEPT ![h] = r]
    BY DEF AnswerPhoto
<1> HIDE DEF r
<1>4. Moves(h) /\ req'[h] = r
    BY <1>2, <1>3 DEF TypeOK, Moves
<1> QED
    BY <1>1, <1>4 DEF r, Request

(* An answer that is no 200 or 201 for an upload leaves nothing to show. *)
LEMMA AnswerKeepsHandlerInv ==
    ASSUME TypeOK, NEW h \in Handlers, NEW status \in Statuses,
           Answer(h, status), req[h].op = "upload" => status \notin {200, 201}
    PROVE  Moves(h) /\ HandlerInv(h)'
<1>1. Moves(h) /\ req'[h] = [Idle EXCEPT !.op = req[h].op, !.pc = "done",
                                         !.status = status]
    BY AnswerMoves
<1>2. req[h] \in Request
    BY DEF TypeOK
<1> QED
    BY <1>1, <1>2 DEF HandlerInv, UploadInv, OriginalInv, Acked, Answered, At,
                      Idle, Request

(* Rows, objects and events are only ever added, so what holds of the other *)
(* handlers goes on holding.                                                *)
LEMMA OthersKeep ==
    ASSUME StorageInv, NEW h \in Handlers, Moves(h),
           Len(events) <= Len(events'), Len(events) \in Nat,
           Len(events') \in Nat, photos \subseteq photos',
           bucket \subseteq bucket', HandlerInv(h)'
    PROVE  \A g \in Handlers : HandlerInv(g)'
<1> SUFFICES ASSUME NEW g \in Handlers, g # h PROVE HandlerInv(g)'
    OBVIOUS
<1>1. req'[g] = req[g] /\ HandlerInv(g)
    BY DEF Moves, StorageInv
<1>2. UploadInv(g)'
    BY <1>1 DEF HandlerInv, UploadInv, PhotoKey, ThumbKey
<1>3. OriginalInv(g)'
    BY <1>1 DEF HandlerInv, OriginalInv, At
<1>4. Acked(g)'
    <2> SUFFICES ASSUME Answered(g, "upload", 200)' \/ Answered(g, "upload", 201)'
                 PROVE  \E p \in photos' :
                            /\ p.id = req'[g].id
                            /\ p.event = req'[g].event
                            /\ p.client = req'[g].client
                            /\ HasObjects(p)'
        BY DEF Acked
    <2>1. PICK p \in photos : /\ p.id = req[g].id
                              /\ p.event = req[g].event
                              /\ p.client = req[g].client
                              /\ HasObjects(p)
        BY <1>1 DEF HandlerInv, Acked, Answered
    <2>2. HasObjects(p)'
        BY <2>1 DEF HasObjects, PhotoKey, ThumbKey
    <2> QED
        BY <1>1, <2>1, <2>2
<1> QED
    BY <1>2, <1>3, <1>4 DEF HandlerInv
(* A step of h that adds no event, object or row keeps the invariant as     *)
(* soon as h itself does.                                                   *)
LEMMA QuietStep ==
    ASSUME StorageInv, NEW h \in Handlers, Moves(h), HandlerInv(h)',
           UNCHANGED <<now, stored>>, revealed' \in SUBSET PhotoIds
    PROVE  StorageInv'
<1>1. TypeOK'
    BY DEF StorageInv, TypeOK, Moves, stored
<1>2. RowsHaveObjects' /\ OneCopyPerEvent'
    BY DEF StorageInv, RowsHaveObjects, OneCopyPerEvent, HasObjects,
           PhotoKey, ThumbKey, stored
<1>3. Len(events) \in Nat /\ Len(events') = Len(events)
    BY DEF StorageInv, TypeOK, stored
<1>4. \A g \in Handlers : HandlerInv(g)'
    BY <1>3, OthersKeep DEF stored
<1> QED
    BY <1>1, <1>2, <1>4 DEF StorageInv

(* So does one that ends in an answer, unless it is an upload's success. *)
LEMMA QuietAnswer ==
    ASSUME StorageInv, NEW h \in Handlers, NEW status \in Statuses,
           Answer(h, status), req[h].op = "upload" => status \notin {200, 201},
           UNCHANGED <<now, stored>>, revealed' \in SUBSET PhotoIds
    PROVE  StorageInv'
<1>1. Moves(h) /\ HandlerInv(h)'
    BY AnswerKeepsHandlerInv DEF StorageInv
<1> QED
    BY <1>1, QuietStep

(* Going on to the next call of an upload, or of another request. *)
LEMMA QuietGoto ==
    ASSUME StorageInv, NEW h \in Handlers, NEW pc \in Calls, Goto(h, pc),
           pc \notin {"done", "putThumb"},
           req[h].pc \notin {"idle", "load", "done"} \/ req[h].op # "upload",
           pc = "insert" => req[h].op # "upload",
           pc = "open" => req[h].op = "original" /\ req[h].id \in PhotoIds,
           UNCHANGED <<now, stored>>, revealed' \in SUBSET PhotoIds
    PROVE  StorageInv'
<1>1. Moves(h) /\ req'[h] = [req[h] EXCEPT !.pc = pc]
    BY GotoMoves DEF StorageInv
<1>2. req[h] \in Request /\ HandlerInv(h)
    BY DEF StorageInv, TypeOK
<1>3. events' = events /\ bucket' = bucket
    BY DEF stored
<1>4. UploadInv(h)'
    BY <1>1, <1>2, <1>3 DEF HandlerInv, UploadInv, Request, PhotoKey, ThumbKey
<1>5. OriginalInv(h)' /\ Acked(h)'
    BY <1>1, <1>2 DEF OriginalInv, Acked, Answered, At, Request
<1> QED
    BY <1>1, <1>4, <1>5, QuietStep DEF HandlerInv

LEMMA StatusesOf ==
    /\ {200, 201, 400, 404, 409, 423, 500} \subseteq Statuses
    /\ \A status \in {400, 404, 409, 423, 500} :
           status \notin {200, 201}
BY DEF Statuses

(* The common steps of a request *)

LEMMA ArriveKeeps ==
    ASSUME StorageInv, NEW h \in Handlers, Arrive(h)
    PROVE  StorageInv'
<1>1. PICK op \in Ops, c \in Captures \cup {NoCapture},
           id \in PhotoIds \cup {NoPhoto} :
           Receive(h, op, c, id) /\ (op = "upload" => c \in Captures)
    BY DEF Arrive, Ops, StorageInv, TypeOK, Photo
<1> DEFINE r == [Idle EXCEPT !.op = op, !.pc = "load", !.client = c, !.id = id]
<1>2. r \in Request
    BY IdleIsRequest DEF Request, Calls
<1>3. Moves(h) /\ req'[h] = r
    BY <1>1, <1>2 DEF Receive, Moves, StorageInv, TypeOK
<1>4. HandlerInv(h)'
    BY <1>1, <1>3 DEF HandlerInv, UploadInv, OriginalInv, Acked, Answered, At,
                      Idle
<1> QED
    BY <1>1, <1>3, <1>4, QuietStep DEF Receive, StorageInv, TypeOK

LEMMA LoadEventKeeps ==
    ASSUME StorageInv, NEW h \in Handlers, LoadEvent(h)
    PROVE  StorageInv'
<1>1. /\ UNCHANGED <<now, stored>> /\ revealed' \in SUBSET PhotoIds
      /\ req[h] \in Request /\ HandlerInv(h) /\ req[h].pc = "load"
    BY DEF LoadEvent, StorageInv, TypeOK
<1>2. CASE \E status \in {400, 404, 500} : Answer(h, status)
    BY <1>1, <1>2, StatusesOf, QuietAnswer
<1>3. CASE req[h].op = "create" /\ Goto(h, "check")
    BY <1>1, <1>3, QuietGoto DEF Calls
<1>4. CASE /\ CurrentEvent # 0
           /\ req' = [req EXCEPT ![h] = [@ EXCEPT !.pc = "check",
                                                  !.event = CurrentEvent]]
    <2> DEFINE r == [req[h] EXCEPT !.pc = "check", !.event = CurrentEvent]
    <2>1. CurrentEvent \in 1..Len(events) /\ CurrentEvent \in 0..MaxEvents
        BY <1>4, TimeAssumption DEF CurrentEvent, StorageInv, TypeOK
    <2>2. r \in Request
        BY <1>1, <2>1 DEF Request, Calls
    <2>3. Moves(h) /\ req'[h] = r
        BY <1>4, <2>2 DEF Moves, StorageInv, TypeOK
    <2>4. HandlerInv(h)'
        BY <1>1, <2>1, <2>3 DEF HandlerInv, UploadInv, OriginalInv, Acked,
                                Answered, At, Request, stored
    <2> QED
        BY <1>1, <2>3, <2>4, QuietStep
<1> QED
    BY <1>2, <1>3, <1>4 DEF LoadEvent

LEMMA FinishKeeps ==
    ASSUME StorageInv, NEW h \in Handlers, Finish(h)
    PROVE  StorageInv'
<1>1. Moves(h) /\ req'[h] = Idle
    BY IdleIsRequest DEF Finish, Moves, StorageInv, TypeOK
<1>2. HandlerInv(h)'
    BY <1>1 DEF HandlerInv, UploadInv, OriginalInv, Acked, Answered, At, Idle
<1> QED
    BY <1>1, <1>2, QuietStep DEF Finish, StorageInv, TypeOK
(* POST /events *)

LEMMA CheckNoneRunningKeeps ==
    ASSUME StorageInv, NEW h \in Handlers, CheckNoneRunning(h)
    PROVE  StorageInv'
<1>1. /\ UNCHANGED <<now, stored>> /\ revealed' \in SUBSET PhotoIds
      /\ req[h].op = "create"
    BY DEF CheckNoneRunning, At, StorageInv, TypeOK
<1>2. Goto(h, "insert") => StorageInv'
    BY <1>1, QuietGoto DEF Calls
<1>3. Answer(h, 409) => StorageInv'
    BY <1>1, StatusesOf, QuietAnswer
<1> QED
    BY <1>2, <1>3 DEF CheckNoneRunning

LEMMA CreateEventKeeps ==
    ASSUME StorageInv, NEW h \in Handlers, CreateEvent(h)
    PROVE  StorageInv'
<1>1. /\ UNCHANGED <<now, activeEvent, photos, bucket, revealed>>
      /\ req[h] \in Request /\ req[h].op = "create"
    BY DEF CreateEvent, At, StorageInv, TypeOK
<1>2. /\ events' \in Seq(0..MaxTime) /\ Len(events') <= MaxEvents
      /\ Len(events) <= Len(events')
      /\ Len(events) \in Nat /\ Len(events') \in Nat
    <2>1. events \in Seq(0..MaxTime) /\ Len(events) <= MaxEvents
        BY DEF StorageInv, TypeOK
    <2>2. CASE events' = events
        BY <2>1, <2>2
    <2>3. CASE /\ Len(events) < MaxEvents
               /\ \E t \in 0..MaxTime : events' = Append(events, t)
        BY <2>1, <2>3, TimeAssumption
    <2> QED
        BY <2>2, <2>3 DEF CreateEvent
<1>3. Moves(h) /\ HandlerInv(h)'
    <2>1. CASE Answer(h, 500)
        BY <1>1, <2>1, StatusesOf, AnswerKeepsHandlerInv DEF StorageInv
    <2>2. CASE /\ Len(events) < MaxEvents
               /\ req' = [req EXCEPT ![h] = [@ EXCEPT !.pc = "setActive",
                                                  !.event = Len(events) + 1]]
        <3> DEFINE e == Len(events) + 1
                   r == [req[h] EXCEPT !.pc = "setActive", !.event = e]
        <3>1. r \in Request
            <4>1. e \in 0..MaxEvents
                BY <1>2, <2>2, TimeAssumption
            <4> HIDE DEF e
            <4> QED
                BY <1>1, <4>1 DEF Request, Calls
        <3>2. Moves(h) /\ req'[h] = r
            BY <2>2, <3>1 DEF Moves, StorageInv, TypeOK
        <3> QED
            BY <1>1, <3>2 DEF HandlerInv, UploadInv, OriginalInv, Acked,
                              Answered, At, Request
    <2> QED
        BY <2>1, <2>2 DEF CreateEvent
<1>4. TypeOK' /\ RowsHaveObjects' /\ OneCopyPerEvent'
    BY <1>1, <1>2, <1>3 DEF StorageInv, TypeOK, Moves, RowsHaveObjects,
           OneCopyPerEvent, HasObjects, PhotoKey, ThumbKey
<1> QED
    BY <1>1, <1>2, <1>3, <1>4, OthersKeep DEF StorageInv

LEMMA SetActiveEventKeeps ==
    ASSUME StorageInv, NEW h \in Handlers, SetActiveEvent(h)
    PROVE  StorageInv'
<1>1. /\ UNCHANGED <<now, events, photos, bucket, revealed>>
      /\ req[h] \in Request /\ req[h].op = "create"
    BY DEF SetActiveEvent, At, StorageInv, TypeOK
<1>2. Moves(h) /\ HandlerInv(h)'
    <2>1. CASE Answer(h, 500)
        BY <1>1, <2>1, StatusesOf, AnswerKeepsHandlerInv DEF StorageInv
    <2>2. CASE AnswerEvent(h, 201)
        <3>1. TypeOK /\ 201 \in Statuses
            BY StatusesOf DEF StorageInv
        <3>2. Moves(h) /\ req'[h].op = "create"
            <4>1. /\ Moves(h)
                  /\ req'[h] = [Idle EXCEPT !.op = req[h].op, !.pc = "done",
                                            !.status = 201,
                                            !.event = req[h].event]
                BY <2>2, <3>1, AnswerEventMoves, Zenon
            <4> QED
                BY <1>1, <4>1 DEF Idle
        <3> QED
            BY <3>2 DEF HandlerInv, UploadInv, OriginalInv, Acked, Answered, At
    <2> QED
        BY <2>1, <2>2 DEF SetActiveEvent
<1>3. TypeOK' /\ RowsHaveObjects' /\ OneCopyPerEvent'
    <2>1. activeEvent' \in 0..MaxEvents
        BY <1>1 DEF SetActiveEvent, StorageInv, TypeOK, Request
    <2> QED
        BY <1>1, <1>2, <2>1 DEF StorageInv, TypeOK, Moves, RowsHaveObjects,
               OneCopyPerEvent, HasObjects, PhotoKey, ThumbKey
<1>4. Len(events) \in Nat
    BY DEF StorageInv, TypeOK
<1> QED
    BY <1>1, <1>2, <1>3, <1>4, OthersKeep DEF StorageInv

(* POST /events/current/photos *)

LEMMA CheckRunningKeeps ==
    ASSUME StorageInv, NEW h \in Handlers, CheckRunning(h)
    PROVE  StorageInv'
<1>1. /\ UNCHANGED <<now, stored>> /\ revealed' \in SUBSET PhotoIds
      /\ req[h].pc = "check"
    BY DEF CheckRunning, At, StorageInv, TypeOK
<1>2. CASE \E status \in {400, 423} : Answer(h, status)
    BY <1>1, <1>2, StatusesOf, QuietAnswer
<1>3. CASE Goto(h, "find")
    BY <1>1, <1>3, QuietGoto DEF Calls
<1> QED
    BY <1>2, <1>3 DEF CheckRunning

(* An upload answered with the id of a row of its event and capture. *)
LEMMA AnswerFoundKeeps ==
    ASSUME StorageInv, NEW h \in Handlers, UNCHANGED <<now, stored, revealed>>,
           req[h].op = "upload",
           NEW p \in FindPhotoByClientId(req[h].event, req[h].client),
           NEW id, id = p.id, AnswerPhoto(h, 200, id)
    PROVE  StorageInv'
<1>1. /\ p \in photos /\ p \in Photo
      /\ p.event = req[h].event /\ p.client = req[h].client
    BY DEF FindPhotoByClientId, StorageInv, TypeOK
<1>2. /\ Moves(h)
      /\ req'[h].pc = "done" /\ req'[h].id = id /\ req'[h].op = "upload"
      /\ req'[h].event = req[h].event /\ req'[h].client = req[h].client
    <2>1. TypeOK /\ 200 \in Statuses /\ id \in PhotoIds
        BY <1>1, StatusesOf DEF StorageInv, Photo
    <2> QED
        BY <2>1, AnswerPhotoMoves
<1>3. req[h] \in Request /\ photos' = photos /\ bucket' = bucket
    BY DEF StorageInv, TypeOK, stored
<1>4. UploadInv(h)' /\ OriginalInv(h)'
    BY <1>2, <1>3 DEF UploadInv, OriginalInv, At, Request
<1>5. p.id = req'[h].id /\ p.event = req'[h].event /\ p.client = req'[h].client
    BY <1>1, <1>2, <1>3 DEF Request
<1>6. HasObjects(p)'
    BY <1>1, <1>3 DEF StorageInv, RowsHaveObjects, HasObjects, PhotoKey, ThumbKey
<1>7. Acked(h)'
    BY <1>1, <1>3, <1>5, <1>6 DEF Acked
<1>8. revealed' \in SUBSET PhotoIds
    BY DEF StorageInv, TypeOK
<1> QED
    BY <1>2, <1>4, <1>7, <1>8, QuietStep DEF HandlerInv

LEMMA FindDuplicateKeeps ==
    ASSUME StorageInv, NEW h \in Handlers, FindDuplicate(h)
    PROVE  StorageInv'
<1>1. /\ UNCHANGED <<now, stored, revealed>> /\ revealed' \in SUBSET PhotoIds
      /\ req[h].op = "upload" /\ req[h].pc = "find"
    BY DEF FindDuplicate, At, StorageInv, TypeOK
<1>2. CASE \E status \in {400, 500} : Answer(h, status)
    BY <1>1, <1>2, StatusesOf, QuietAnswer
<1>3. CASE \E p \in FindPhotoByClientId(req[h].event, req[h].client) :
              AnswerPhoto(h, 200, p.id)
    BY <1>1, <1>3, AnswerFoundKeeps
<1>4. CASE Goto(h, "putPhoto")
    BY <1>1, <1>4, QuietGoto DEF Calls
<1> QED
    BY <1>2, <1>3, <1>4 DEF FindDuplicate

LEMMA ResolveRaceKeeps ==
    ASSUME StorageInv, NEW h \in Handlers, ResolveRace(h)
    PROVE  StorageInv'
<1>1. /\ UNCHANGED <<now, stored, revealed>> /\ revealed' \in SUBSET PhotoIds
      /\ req[h].op = "upload"
    BY DEF ResolveRace, At, StorageInv, TypeOK
<1>2. CASE Answer(h, 500)
    BY <1>1, <1>2, StatusesOf, QuietAnswer
<1>3. CASE \E p \in FindPhotoByClientId(req[h].event, req[h].client) :
              AnswerPhoto(h, 200, p.id)
    BY <1>1, <1>3, AnswerFoundKeeps
<1> QED
    BY <1>2, <1>3 DEF ResolveRace
LEMMA PutPhotoKeeps ==
    ASSUME StorageInv, NEW h \in Handlers, PutPhoto(h)
    PROVE  StorageInv'
<1>1. /\ UNCHANGED <<now, events, activeEvent, photos, revealed>>
      /\ req[h] \in Request /\ HandlerInv(h)
      /\ req[h].op = "upload" /\ req[h].pc = "putPhoto"
    BY DEF PutPhoto, At, StorageInv, TypeOK
<1>2. PICK id \in PhotoIds :
          \/ /\ bucket' = bucket \cup {PhotoKey(id)}
             /\ req' = [req EXCEPT ![h] = [@ EXCEPT !.pc = "putThumb",
                                                    !.id = id]]
          \/ /\ bucket' \in {bucket, bucket \cup {PhotoKey(id)}}
             /\ Answer(h, 500)
    BY DEF PutPhoto, FreshIds
<1>3. bucket \subseteq bucket' /\ bucket' \subseteq {"photos", "thumbs"} \X PhotoIds
    BY <1>2 DEF PhotoKey, StorageInv, TypeOK
<1>4. Moves(h) /\ HandlerInv(h)'
    <2>1. CASE Answer(h, 500)
        BY <1>1, <2>1, StatusesOf, AnswerKeepsHandlerInv DEF StorageInv
    <2>2. CASE /\ bucket' = bucket \cup {PhotoKey(id)}
               /\ req' = [req EXCEPT ![h] = [@ EXCEPT !.pc = "putThumb",
                                                      !.id = id]]
        <3> DEFINE r == [req[h] EXCEPT !.pc = "putThumb", !.id = id]
        <3>1. r \in Request
            BY <1>1 DEF Request, Calls
        <3>2. Moves(h) /\ req'[h] = r
            BY <2>2, <3>1 DEF Moves, StorageInv, TypeOK
        <3> QED
            BY <1>1, <2>2, <3>2 DEF HandlerInv, UploadInv, OriginalInv, Acked,
                   Answered, At, Request, PhotoKey, ThumbKey
    <2> QED
        BY <1>2, <2>1, <2>2
<1>5. TypeOK' /\ RowsHaveObjects' /\ OneCopyPerEvent'
    BY <1>1, <1>3, <1>4 DEF StorageInv, TypeOK, Moves, RowsHaveObjects,
           OneCopyPerEvent, HasObjects, PhotoKey, ThumbKey
<1>6. Len(events) \in Nat
    BY DEF StorageInv, TypeOK
<1> QED
    BY <1>1, <1>3, <1>4, <1>5, <1>6, OthersKeep DEF StorageInv

LEMMA PutThumbKeeps ==
    ASSUME StorageInv, NEW h \in Handlers, PutThumb(h)
    PROVE  StorageInv'
<1>1. /\ UNCHANGED <<now, events, activeEvent, photos, revealed>>
      /\ req[h] \in Request /\ HandlerInv(h)
      /\ req[h].op = "upload" /\ req[h].pc = "putThumb"
    BY DEF PutThumb, At, StorageInv, TypeOK
<1>2. \/ bucket' = bucket \cup {ThumbKey(req[h].id)} /\ Goto(h, "insert")
      \/ /\ bucket' \in {bucket, bucket \cup {ThumbKey(req[h].id)}}
         /\ Answer(h, 500)
    BY DEF PutThumb
<1>3. req[h].id \in PhotoIds /\ PhotoKey(req[h].id) \in bucket
    BY <1>1 DEF HandlerInv, UploadInv
<1>4. bucket \subseteq bucket' /\ bucket' \subseteq {"photos", "thumbs"} \X PhotoIds
    BY <1>2, <1>3 DEF ThumbKey, StorageInv, TypeOK
<1>5. Moves(h) /\ HandlerInv(h)'
    <2>1. CASE Answer(h, 500)
        BY <1>1, <2>1, StatusesOf, AnswerKeepsHandlerInv DEF StorageInv
    <2>2. CASE bucket' = bucket \cup {ThumbKey(req[h].id)} /\ Goto(h, "insert")
        <3>1. Moves(h) /\ req'[h] = [req[h] EXCEPT !.pc = "insert"]
            BY <2>2, GotoMoves DEF StorageInv, Calls
        <3> QED
            BY <1>1, <1>3, <2>2, <3>1
               DEF HandlerInv, UploadInv, OriginalInv, Acked, Answered, At,
                   Request, PhotoKey, ThumbKey
    <2> QED
        BY <1>2, <2>1, <2>2
<1>6. TypeOK' /\ RowsHaveObjects' /\ OneCopyPerEvent'
    BY <1>1, <1>4, <1>5 DEF StorageInv, TypeOK, Moves, RowsHaveObjects,
           OneCopyPerEvent, HasObjects, PhotoKey, ThumbKey
<1>7. Len(events) \in Nat
    BY DEF StorageInv, TypeOK
<1> QED
    BY <1>1, <1>4, <1>5, <1>6, <1>7, OthersKeep DEF StorageInv

LEMMA CreatePhotoKeeps ==
    ASSUME StorageInv, NEW h \in Handlers, CreatePhoto(h)
    PROVE  StorageInv'
<1> DEFINE row == [id |-> req[h].id, event |-> req[h].event,
                   client |-> req[h].client]
<1>1. /\ UNCHANGED <<now, events, activeEvent, bucket, revealed>>
      /\ req[h] \in Request /\ HandlerInv(h)
      /\ req[h].op = "upload" /\ req[h].pc = "insert"
    BY DEF CreatePhoto, At, StorageInv, TypeOK
<1>2. /\ req[h].client \in Captures /\ req[h].event \in 1..Len(events)
      /\ req[h].id \in PhotoIds
      /\ PhotoKey(req[h].id) \in bucket /\ ThumbKey(req[h].id) \in bucket
    BY <1>1 DEF HandlerInv, UploadInv
<1>3. CASE photos' = photos /\ (Goto(h, "resolve") \/ Answer(h, 500))
    <2>1. UNCHANGED <<now, stored>> /\ revealed' \in SUBSET PhotoIds
        BY <1>1, <1>3 DEF stored, StorageInv, TypeOK
    <2>2. Goto(h, "resolve") => StorageInv'
        BY <1>1, <2>1, QuietGoto DEF Calls
    <2>3. Answer(h, 500) => StorageInv'
        BY <1>1, <2>1, StatusesOf, QuietAnswer
    <2> QED
        BY <1>3, <2>2, <2>3
<1>4. CASE /\ FindPhotoByClientId(row.event, row.client) = {}
           /\ \/ photos' = photos \cup {row} /\ AnswerPhoto(h, 201, row.id)
              \/ photos' \in {photos, photos \cup {row}} /\ Answer(h, 500)
    <2>1. row \in Photo /\ HasObjects(row)
        <3>1. req[h].event \in 1..MaxEvents
            BY <1>2, TimeAssumption DEF StorageInv, TypeOK
        <3> QED
            BY <1>2, <3>1 DEF Photo, HasObjects
    <2>2. photos \subseteq photos' /\ photos' \subseteq photos \cup {row}
        BY <1>4
    <2>3. Moves(h) /\ HandlerInv(h)'
        <3>1. CASE Answer(h, 500)
            BY <1>1, <3>1, StatusesOf, AnswerKeepsHandlerInv DEF StorageInv
        <3>2. CASE photos' = photos \cup {row} /\ AnswerPhoto(h, 201, row.id)
            <4>1. TypeOK /\ 201 \in Statuses
                BY StatusesOf DEF StorageInv
            <4>2. /\ Moves(h)
                  /\ req'[h].pc = "done" /\ req'[h].op = "upload"
                  /\ req'[h].id = row.id /\ req'[h].event = row.event
                  /\ req'[h].client = row.client
                BY <1>1, <1>2, <3>2, <4>1, AnswerPhotoMoves
            <4>3. PICK p : p = row
                OBVIOUS
            <4>4. p \in photos' /\ HasObjects(p)'
                BY <1>1, <2>1, <3>2, <4>3 DEF HasObjects, PhotoKey, ThumbKey
            <4>5. Acked(h)'
                BY <4>2, <4>3, <4>4 DEF Acked
            <4>6. UploadInv(h)' /\ OriginalInv(h)'
                BY <4>2 DEF UploadInv, OriginalInv, At
            <4> QED
                BY <4>2, <4>5, <4>6 DEF HandlerInv
        <3> QED
            BY <1>4, <3>1, <3>2
    <2>4. TypeOK'
        BY <1>1, <2>1, <2>2, <2>3 DEF StorageInv, TypeOK, Moves
    <2>5. RowsHaveObjects'
        BY <1>1, <2>1, <2>2
           DEF StorageInv, RowsHaveObjects, HasObjects, PhotoKey, ThumbKey
    <2>6. OneCopyPerEvent'
        <3>1. \A p \in photos : ~(p.event = row.event /\ p.client = row.client)
            BY <1>4 DEF FindPhotoByClientId
        <3> HIDE DEF row
        <3> QED
            BY <2>2, <3>1 DEF StorageInv, OneCopyPerEvent
    <2>7. Len(events) \in Nat
        BY DEF StorageInv, TypeOK
    <2> QED
        BY <1>1, <2>2, <2>3, <2>4, <2>5, <2>6, <2>7, OthersKeep DEF StorageInv
<1> QED
    BY <1>3, <1>4 DEF CreatePhoto
(* The album *)

LEMMA CheckUnlockedKeeps ==
    ASSUME StorageInv, NEW h \in Handlers, CheckUnlocked(h)
    PROVE  StorageInv'
<1>1. /\ UNCHANGED <<now, stored>> /\ revealed' \in SUBSET PhotoIds
      /\ req[h].op # "upload"
    BY DEF CheckUnlocked, Reading, StorageInv, TypeOK
<1>2. Goto(h, "query") => StorageInv'
    BY <1>1, QuietGoto DEF Calls
<1>3. Answer(h, 423) => StorageInv'
    BY <1>1, StatusesOf, QuietAnswer
<1> QED
    BY <1>2, <1>3 DEF CheckUnlocked

LEMMA ListKeeps ==
    ASSUME StorageInv, NEW h \in Handlers, List(h)
    PROVE  StorageInv'
<1>1. UNCHANGED <<now, stored>> /\ req[h].op # "upload"
    BY DEF List, At
<1>2. revealed' \in SUBSET PhotoIds
    BY DEF List, ListPhotosByEvent, StorageInv, TypeOK, Photo
<1>3. \E status \in {200, 500} : Answer(h, status)
    BY DEF List
<1> QED
    BY <1>1, <1>2, <1>3, StatusesOf, QuietAnswer

LEMMA FindOriginalKeeps ==
    ASSUME StorageInv, NEW h \in Handlers, FindOriginal(h)
    PROVE  StorageInv'
<1>1. /\ UNCHANGED <<now, stored>> /\ revealed' \in SUBSET PhotoIds
      /\ req[h].op = "original"
    BY DEF FindOriginal, At, StorageInv, TypeOK
<1>2. CASE \E status \in {400, 404, 500} : Answer(h, status)
    BY <1>1, <1>2, StatusesOf, QuietAnswer
<1>3. CASE FindPhotoById(req[h].id) # {} /\ Goto(h, "open")
    <2>1. req[h].id \in PhotoIds
        BY <1>3 DEF FindPhotoById, StorageInv, TypeOK, Photo
    <2> QED
        BY <1>1, <1>3, <2>1, QuietGoto DEF Calls
<1> QED
    BY <1>2, <1>3 DEF FindOriginal

LEMMA OpenOriginalKeeps ==
    ASSUME StorageInv, NEW h \in Handlers, OpenOriginal(h)
    PROVE  StorageInv'
<1>1. /\ UNCHANGED <<now, stored>> /\ At(h, "original", "open")
      /\ HandlerInv(h)
    BY DEF OpenOriginal, StorageInv
<1>2. req[h].op # "upload" /\ req[h].id \in PhotoIds
    BY <1>1 DEF HandlerInv, OriginalInv, At
<1>3. revealed' \in SUBSET PhotoIds
    BY <1>2 DEF OpenOriginal, StorageInv, TypeOK
<1>4. \E status \in {200, 500} : Answer(h, status)
    BY DEF OpenOriginal
<1> QED
    BY <1>1, <1>2, <1>3, <1>4, StatusesOf, QuietAnswer

(* A zip changes only what it has left to send. *)
LEMMA ZipMovesKeep ==
    ASSUME StorageInv, NEW h \in Handlers, req[h].op = "zip",
           UNCHANGED <<now, stored>>, revealed' \in SUBSET PhotoIds,
           NEW rows \in SUBSET Photo,
           req' = [req EXCEPT ![h] = [@ EXCEPT !.pc = "open", !.rows = rows]]
    PROVE  StorageInv'
<1> DEFINE r == [req[h] EXCEPT !.pc = "open", !.rows = rows]
<1>1. req[h] \in Request
    BY DEF StorageInv, TypeOK
<1>2. r \in Request
    BY <1>1 DEF Request, Calls
<1>3. Moves(h) /\ req'[h] = r
    BY <1>2 DEF Moves, StorageInv, TypeOK
<1>4. HandlerInv(h)'
    BY <1>1, <1>3 DEF HandlerInv, UploadInv, OriginalInv, Acked, Answered, At,
                      Request
<1> QED
    BY <1>3, <1>4, QuietStep

LEMMA ListForZipKeeps ==
    ASSUME StorageInv, NEW h \in Handlers, ListForZip(h)
    PROVE  StorageInv'
<1>1. /\ UNCHANGED <<now, stored>> /\ revealed' \in SUBSET PhotoIds
      /\ req[h].op = "zip"
    BY DEF ListForZip, At, StorageInv, TypeOK
<1>2. CASE Answer(h, 500)
    BY <1>1, <1>2, StatusesOf, QuietAnswer
<1>3. CASE req' = [req EXCEPT ![h] = [@ EXCEPT !.pc = "open",
                      !.rows = ListPhotosByEvent(req[h].event)]]
    <2>1. ListPhotosByEvent(req[h].event) \in SUBSET Photo
        BY DEF ListPhotosByEvent, StorageInv, TypeOK
    <2> QED
        BY <1>1, <1>3, <2>1, ZipMovesKeep
<1> QED
    BY <1>2, <1>3 DEF ListForZip

LEMMA ZipNextKeeps ==
    ASSUME StorageInv, NEW h \in Handlers, ZipNext(h)
    PROVE  StorageInv'
<1>1. /\ UNCHANGED <<now, stored>> /\ req[h].op = "zip" /\ req[h].pc = "open"
      /\ req[h] \in Request
    BY DEF ZipNext, At, StorageInv, TypeOK
<1>2. PICK p \in req[h].rows :
          \/ /\ revealed' = revealed \cup {p.id}
             /\ \/ req' = [req EXCEPT ![h].rows = @ \ {p}]
                \/ Answer(h, 200)
          \/ revealed' = revealed /\ Answer(h, 200)
    BY DEF ZipNext
<1>3. p \in Photo /\ revealed' \in SUBSET PhotoIds
    BY <1>1, <1>2 DEF Request, Photo, StorageInv, TypeOK
<1>4. CASE Answer(h, 200)
    BY <1>1, <1>3, <1>4, StatusesOf, QuietAnswer
<1>5. CASE req' = [req EXCEPT ![h].rows = @ \ {p}]
    <2> DEFINE rows == req[h].rows \ {p}
    <2>1. rows \in SUBSET Photo
        BY <1>1 DEF Request
    <2>2. [req[h] EXCEPT !.rows = rows]
             = [req[h] EXCEPT !.pc = "open", !.rows = rows]
        BY <1>1 DEF Request
    <2>3. req' = [req EXCEPT ![h] = [@ EXCEPT !.pc = "open", !.rows = rows]]
        BY <1>5, <2>2
    <2> HIDE DEF rows
    <2> QED
        BY <1>1, <1>3, <2>1, <2>3, ZipMovesKeep
<1> QED
    BY <1>2, <1>4, <1>5

LEMMA ZipEndKeeps ==
    ASSUME StorageInv, NEW h \in Handlers, ZipEnd(h)
    PROVE  StorageInv'
<1>1. /\ UNCHANGED <<now, stored>> /\ revealed' \in SUBSET PhotoIds
      /\ req[h].op = "zip" /\ Answer(h, 200)
    BY DEF ZipEnd, At, StorageInv, TypeOK
<1> QED
    BY <1>1, StatusesOf, QuietAnswer

-----------------------------------------------------------------------------
(* The theorems of storage *)

LEMMA InitStorageInv == Init => StorageInv
<1> SUFFICES ASSUME Init PROVE StorageInv
    OBVIOUS
<1>1. TypeOK
    BY IdleIsRequest, TimeAssumption DEF Init, TypeOK
<1>2. RowsHaveObjects /\ OneCopyPerEvent
    BY DEF Init, RowsHaveObjects, OneCopyPerEvent
<1>3. \A h \in Handlers : HandlerInv(h)
    BY DEF Init, Idle, HandlerInv, UploadInv, OriginalInv, Acked, Answered, At
<1> QED
    BY <1>1, <1>2, <1>3 DEF StorageInv

LEMMA TickKeeps == StorageInv /\ Tick => StorageInv'
<1> SUFFICES ASSUME StorageInv, Tick PROVE StorageInv'
    OBVIOUS
<1>1. TypeOK'
    BY TimeAssumption DEF StorageInv, TypeOK, Tick, stored
<1>2. UNCHANGED <<photos, bucket, req, events>>
    BY DEF Tick, stored
<1> QED
    BY <1>1, <1>2 DEF StorageInv, RowsHaveObjects, OneCopyPerEvent, HasObjects,
           PhotoKey, ThumbKey, HandlerInv, UploadInv, OriginalInv, Acked,
           Answered, At

LEMMA CrashKeeps == StorageInv /\ Crash => StorageInv'
<1> SUFFICES ASSUME StorageInv, Crash PROVE StorageInv'
    OBVIOUS
<1>1. /\ req' = [h \in Handlers |-> Idle]
      /\ UNCHANGED <<now, stored, revealed>>
    BY DEF Crash
<1>2. TypeOK'
    BY <1>1, IdleIsRequest DEF StorageInv, TypeOK, stored
<1>3. RowsHaveObjects' /\ OneCopyPerEvent'
    BY <1>1 DEF StorageInv, RowsHaveObjects, OneCopyPerEvent, HasObjects,
                PhotoKey, ThumbKey, stored
<1>4. \A h \in Handlers : HandlerInv(h)'
    BY <1>1 DEF Idle, HandlerInv, UploadInv, OriginalInv, Acked, Answered, At
<1> QED
    BY <1>2, <1>3, <1>4 DEF StorageInv

LEMMA NextStorageInv == StorageInv /\ [Next]_vars => StorageInv'
<1> SUFFICES ASSUME StorageInv, [Next]_vars PROVE StorageInv'
    OBVIOUS
<1>1. ASSUME NEW h \in Handlers, Serve(h) PROVE StorageInv'
    BY <1>1, ArriveKeeps, LoadEventKeeps, FinishKeeps, CheckNoneRunningKeeps,
       CreateEventKeeps, SetActiveEventKeeps, CheckRunningKeeps,
       FindDuplicateKeeps, PutPhotoKeeps, PutThumbKeeps, CreatePhotoKeeps,
       ResolveRaceKeeps, CheckUnlockedKeeps, ListKeeps, FindOriginalKeeps,
       OpenOriginalKeeps, ListForZipKeeps, ZipNextKeeps, ZipEndKeeps DEF Serve
<1>2. CASE UNCHANGED vars
    BY <1>2 DEF vars, StorageInv, TypeOK, RowsHaveObjects, OneCopyPerEvent,
           HasObjects, PhotoKey, ThumbKey, HandlerInv, UploadInv, OriginalInv,
           Acked, Answered, At
<1> QED
    BY <1>1, <1>2, TickKeeps, CrashKeeps DEF Next

LEMMA StorageIsInvariant == Spec => []StorageInv
BY InitStorageInv, NextStorageInv, PTL DEF Spec

(* Every variable keeps its type; in particular each row names an event     *)
(* that was started, a real capture and an id of the bucket.                *)
THEOREM TypeCorrect == Spec => []TypeOK
<1>1. StorageInv => TypeOK
    BY DEF StorageInv
<1> QED
    BY <1>1, StorageIsInvariant, PTL

(* The album never lists a photo whose picture or thumbnail is missing.     *)
THEOREM AlbumIsWhole == Spec => []RowsHaveObjects
<1>1. StorageInv => RowsHaveObjects
    BY DEF StorageInv
<1> QED
    BY <1>1, StorageIsInvariant, PTL

(* A 200 or a 201 to an upload means that the capture is stored under the   *)
(* event the upload was admitted to, for any number of concurrent uploads   *)
(* of it and any failures.                                                  *)
THEOREM UploadsAreDurable == Spec => []AckedIsStored
<1>1. StorageInv => AckedIsStored
    BY DEF StorageInv, HandlerInv, Acked, AckedIsStored
<1> QED
    BY <1>1, StorageIsInvariant, PTL

(* However uploads race, a capture is one photo of an event.                *)
THEOREM CapturesAreUnique == Spec => []OneCopyPerEvent
<1>1. StorageInv => OneCopyPerEvent
    BY DEF StorageInv
<1> QED
    BY <1>1, StorageIsInvariant, PTL
=============================================================================
