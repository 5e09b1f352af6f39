----------------------- MODULE PhotoServerLockProofs -----------------------
(* The lock of the album, and the promise of SealedAlbum, proved of         *)
(* PhotoServer.  What needs starts that do not overlap says so: OneStarter. *)
EXTENDS PhotoServerProofs

(* POST /events is served by one handler at a time. *)
OneStarter == \A g, h \in Starters : g = h

-----------------------------------------------------------------------------
(* The inductive invariant of reading: ids tell photos apart, so what a     *)
(* handler found under an id, or under an event, stays what it was.         *)

RowsNameEvents == \A p \in photos : p.event \in 1..Len(events)

UniqueIds == \A p, q \in photos : p.id = q.id => p = q

RevealedAreRows == \A id \in revealed : \E p \in photos : p.id = id

(* An upload that has its id and not yet its row. *)
InFlight(h) == req[h].op = "upload" /\ req[h].pc \in {"putThumb", "insert"}

InFlightIsFresh ==
    /\ \A h \in Handlers, p \in photos : InFlight(h) => p.id # req[h].id
    /\ \A g, h \in Handlers :
           InFlight(g) /\ InFlight(h) /\ g # h => req[g].id # req[h].id

(* What a handler that reads has loaded is over from its check on.  The     *)
(* photo an original asks for was there before the event was loaded.        *)
ReaderInv(h) ==
    /\ req[h].op \in Reading /\ req[h].pc \in {"check", "query", "open"} =>
           req[h].event \in 1..Len(events)
    /\ req[h].op \in Reading /\ req[h].pc \in {"query", "open"} =>
           IsOver(req[h].event)
    /\ At(h, "zip", "open") =>
           req[h].rows \subseteq ListPhotosByEvent(req[h].event)
    /\ req[h].op = "original"
           /\ req[h].pc \in {"load", "check", "query", "open"} =>
               req[h].id = NoPhoto \/ \E p \in photos : p.id = req[h].id
    /\ req[h].op = "original" /\ req[h].pc \in {"check", "query", "open"} =>
           \A p \in photos : p.id = req[h].id => p.event <= req[h].event

AlbumInv ==
    /\ RowsNameEvents
    /\ UniqueIds
    /\ RevealedAreRows
    /\ InFlightIsFresh
    /\ \A h \in Handlers : ReaderInv(h)

(* What may happen to the rows around a handler that stands still: events   *)
(* and rows are added, and no row takes the id of another.                  *)
Grows ==
    /\ Len(events) \in Nat /\ Len(events') \in Nat
    /\ Len(events) <= Len(events')
    /\ \A e \in 1..Len(events) : events[e] \in Nat /\ events'[e] = events[e]
    /\ now \in Nat /\ now' \in Nat /\ now <= now'
    /\ photos \subseteq photos'
    /\ \A p \in photos' \ photos :
           p.id # NoPhoto /\ \A q \in photos : q.id # p.id

LEMMA OverStaysOver ==
    ASSUME Grows, NEW e \in 1..Len(events), IsOver(e)
    PROVE  IsOver(e)'
BY DEF Grows, IsOver

LEMMA ReaderStandsStill ==
    ASSUME Grows, NEW g \in Handlers, req'[g] = req[g], ReaderInv(g)
    PROVE  ReaderInv(g)'
<1>1. /\ req'[g].op \in Reading /\ req'[g].pc \in {"check", "query", "open"} =>
             req'[g].event \in 1..Len(events')
      /\ req'[g].op \in Reading /\ req'[g].pc \in {"query", "open"} =>
             IsOver(req[g].event)'
    BY OverStaysOver DEF ReaderInv, Grows
<1>2. At(g, "zip", "open")' =>
          req'[g].rows \subseteq ListPhotosByEvent(req[g].event)'
    BY DEF ReaderInv, Grows, At, ListPhotosByEvent
<1>3. req'[g].op = "original"
         /\ req'[g].pc \in {"load", "check", "query", "open"} =>
             req'[g].id = NoPhoto \/ \E p \in photos' : p.id = req'[g].id
    BY DEF ReaderInv, Grows
<1>4. req'[g].op = "original" /\ req'[g].pc \in {"check", "query", "open"} =>
          \A p \in photos' : p.id = req'[g].id => p.event <= req'[g].event
    BY DEF ReaderInv, Grows
<1> QED
    BY <1>1, <1>2, <1>3, <1>4 DEF ReaderInv, IsOver, ListPhotosByEvent, NoPhoto

(* A step of h that adds no row keeps AlbumInv as soon as h itself does,    *)
(* what it reveals are rows, and it mints no id.                            *)
LEMMA AlbumStep ==
    ASSUME StorageInv, AlbumInv, Grows, NEW h \in Handlers, Moves(h),
           photos' = photos, ReaderInv(h)',
           \A id \in revealed' : \E p \in photos : p.id = id,
           InFlight(h)' => InFlight(h) /\ req'[h].id = req[h].id
    PROVE  AlbumInv'
<1>1. RowsNameEvents' /\ UniqueIds' /\ RevealedAreRows'
    BY DEF AlbumInv, RowsNameEvents, UniqueIds, RevealedAreRows, Grows
<1>2. \A g \in Handlers : InFlight(g)' => InFlight(g) /\ req'[g].id = req[g].id
    BY DEF Moves, InFlight
<1>3. InFlightIsFresh'
    BY <1>2 DEF AlbumInv, InFlightIsFresh
<1>4. \A g \in Handlers : ReaderInv(g)'
    BY ReaderStandsStill DEF AlbumInv, Moves
<1> QED
    BY <1>1, <1>3, <1>4 DEF AlbumInv

LEMMA QuietGrows ==
    ASSUME StorageInv, UNCHANGED <<now, events, photos>>
    PROVE  Grows
<1>1. now \in Nat /\ Len(events) \in Nat
    BY TimeAssumption DEF StorageInv, TypeOK
<1>2. \A e \in 1..Len(events) : events[e] \in Nat
    BY TimeAssumption DEF StorageInv, TypeOK
<1> QED
    BY <1>1, <1>2 DEF Grows

LEMMA AlbumAnswer ==
    ASSUME StorageInv, AlbumInv, Grows, NEW h \in Handlers,
           NEW status \in Statuses, Answer(h, status), photos' = photos,
           \A id \in revealed' : \E p \in photos : p.id = id
    PROVE  AlbumInv'
<1>1. Moves(h) /\ req'[h] = [Idle EXCEPT !.op = req[h].op, !.pc = "done",
                                         !.status = status]
    BY AnswerMoves DEF StorageInv
<1>2. req'[h].pc = "done"
    BY <1>1 DEF Idle
<1>3. ReaderInv(h)' /\ ~InFlight(h)'
    BY <1>2 DEF ReaderInv, InFlight, At
<1> QED
    BY <1>1, <1>3, AlbumStep

LEMMA AlbumGoto ==
    ASSUME StorageInv, AlbumInv, NEW h \in Handlers, NEW pc \in Calls,
           Goto(h, pc), UNCHANGED <<now, events, photos, revealed>>,
           pc \in {"putThumb", "insert"} => req[h].op # "upload" \/ InFlight(h),
           req[h].op \in Reading =>
               \/ pc = "query" /\ req[h].pc = "check" /\ IsOver(req[h].event)
               \/ /\ pc = "open" /\ req[h].op = "original"
                  /\ req[h].pc = "query"
    PROVE  AlbumInv'
<1>1. Moves(h) /\ req'[h] = [req[h] EXCEPT !.pc = pc]
    BY GotoMoves DEF StorageInv
<1>2. req[h] \in Request /\ ReaderInv(h)
    BY DEF StorageInv, TypeOK, AlbumInv
<1>3. /\ req'[h].pc = pc /\ req'[h].op = req[h].op
      /\ req'[h].event = req[h].event /\ req'[h].id = req[h].id
    BY <1>1, <1>2 DEF Request
<1>4. ReaderInv(h)'
    BY <1>2, <1>3 DEF ReaderInv, At, IsOver, Reading, ListPhotosByEvent
<1>5. InFlight(h)' => InFlight(h) /\ req'[h].id = req[h].id
    BY <1>3 DEF InFlight
<1> QED
    BY <1>1, <1>4, <1>5, QuietGrows, AlbumStep DEF AlbumInv, RevealedAreRows

LEMMA ArriveKeepsAlbum ==
    ASSUME StorageInv, AlbumInv, NEW h \in Handlers, Arrive(h)
    PROVE  AlbumInv'
<1>1. PICK op \in Ops, c \in Captures \cup {NoCapture},
           id \in {p.id : p \in photos} \cup {NoPhoto} : Receive(h, op, c, id)
    BY DEF Arrive, Ops
<1>2. id \in PhotoIds \cup {NoPhoto}
    BY DEF StorageInv, TypeOK, Photo
<1> DEFINE r == [Idle EXCEPT !.op = op, !.pc = "load", !.client = c, !.id = id]
<1>3. r \in Request
    BY <1>2, IdleIsRequest DEF Request, Calls
<1>4. Moves(h) /\ req'[h] = r
    BY <1>1, <1>3 DEF Receive, Moves, StorageInv, TypeOK
<1>5. UNCHANGED <<now, events, photos, revealed>>
    BY <1>1 DEF Receive, stored
<1>6. req'[h].pc = "load" /\ req'[h].id = id
    BY <1>4 DEF Idle
<1>7. ReaderInv(h)' /\ ~InFlight(h)'
    BY <1>5, <1>6 DEF ReaderInv, InFlight, At
<1> QED
    BY <1>4, <1>5, <1>7, QuietGrows, AlbumStep DEF AlbumInv, RevealedAreRows

LEMMA LoadEventKeepsAlbum ==
    ASSUME StorageInv, AlbumInv, NEW h \in Handlers, LoadEvent(h)
    PROVE  AlbumInv'
<1>1. /\ UNCHANGED <<now, events, photos, revealed>> /\ Grows
      /\ req[h] \in Request /\ ReaderInv(h) /\ req[h].pc = "load"
      /\ \A id \in revealed' : \E p \in photos : p.id = id
    BY QuietGrows
       DEF LoadEvent, stored, StorageInv, TypeOK, AlbumInv, RevealedAreRows
<1>2. CASE \E status \in {400, 404, 500} : Answer(h, status)
    BY <1>1, <1>2, StatusesOf, AlbumAnswer
<1>3. CASE req[h].op = "create" /\ Goto(h, "check")
    BY <1>1, <1>3, AlbumGoto DEF Calls, Reading
<1>4. CASE /\ CurrentEvent # 0
           /\ req' = [req EXCEPT ![h] = [@ EXCEPT !.pc = "check",
                                                  !.event = CurrentEvent]]
    <2> DEFINE r == [req[h] EXCEPT !.pc = "check", !.event = CurrentEvent]
    <2>1. CurrentEvent \in 1..Len(events) /\ CurrentEvent \in 0..MaxEvents
        BY <1>4, TimeAssumption DEF CurrentEvent, StorageInv, TypeOK
    <2>2. r \in Request
        BY <1>1, <2>1 DEF Request, Calls
    <2>3. Moves(h) /\ req'[h] = r
        BY <1>4, <2>2 DEF Moves, StorageInv, TypeOK
    <2>4. /\ req'[h].pc = "check" /\ req'[h].op = req[h].op
          /\ req'[h].event = CurrentEvent /\ req'[h].id = req[h].id
        BY <1>1, <2>3 DEF Request
    <2>5. \A p \in photos : p.event <= CurrentEvent
        BY <2>1 DEF AlbumInv, RowsNameEvents, CurrentEvent
    <2>6. ReaderInv(h)'
        BY <1>1, <2>1, <2>4, <2>5 DEF ReaderInv, At
    <2>7. ~InFlight(h)'
        BY <2>4 DEF InFlight
    <2> QED
        BY <1>1, <2>3, <2>6, <2>7, AlbumStep
<1> QED
    BY <1>2, <1>3, <1>4 DEF LoadEvent

LEMMA FinishKeepsAlbum ==
    ASSUME StorageInv, AlbumInv, NEW h \in Handlers, Finish(h)
    PROVE  AlbumInv'
<1>1. Moves(h) /\ req'[h] = Idle
    BY IdleIsRequest DEF Finish, Moves, StorageInv, TypeOK
<1>2. ReaderInv(h)' /\ ~InFlight(h)'
    BY <1>1 DEF ReaderInv, InFlight, At, Idle
<1>3. UNCHANGED <<now, events, photos, revealed>>
    BY DEF Finish, stored
<1> QED
    BY <1>1, <1>2, <1>3, QuietGrows, AlbumStep DEF AlbumInv, RevealedAreRows

LEMMA CheckNoneRunningKeepsAlbum ==
    ASSUME StorageInv, AlbumInv, NEW h \in Handlers, CheckNoneRunning(h)
    PROVE  AlbumInv'
<1>1. /\ UNCHANGED <<now, events, photos, revealed>> /\ Grows
      /\ req[h].op = "create"
      /\ \A id \in revealed' : \E p \in photos : p.id = id
    BY QuietGrows DEF CheckNoneRunning, At, stored, AlbumInv, RevealedAreRows
<1>2. Goto(h, "insert") => AlbumInv'
    BY <1>1, AlbumGoto DEF Calls, Reading
<1>3. Answer(h, 409) => AlbumInv'
    BY <1>1, StatusesOf, AlbumAnswer
<1> QED
    BY <1>2, <1>3 DEF CheckNoneRunning

LEMMA CreateEventGrows ==
    ASSUME StorageInv, NEW h \in Handlers, CreateEvent(h)
    PROVE  Grows
<1>1. UNCHANGED <<now, photos>> /\ now \in Nat
    BY TimeAssumption DEF CreateEvent, StorageInv, TypeOK
<1>2. events \in Seq(0..MaxTime) /\ Len(events) \in Nat
    BY DEF StorageInv, TypeOK
<1>3. \A e \in 1..Len(events) : events[e] \in Nat
    BY <1>2, TimeAssumption
<1>4. CASE events' = events
    BY <1>1, <1>2, <1>3, <1>4 DEF Grows
<1>5. CASE \E t \in 0..MaxTime : events' = Append(events, t)
    <2>1. /\ Len(events') = Len(events) + 1
          /\ \A e \in 1..Len(events) : events'[e] = events[e]
        BY <1>2, <1>5
    <2> QED
        BY <1>1, <1>2, <1>3, <2>1 DEF Grows
<1> QED
    BY <1>4, <1>5 DEF CreateEvent

LEMMA CreateEventKeepsAlbum ==
    ASSUME StorageInv, AlbumInv, NEW h \in Handlers, CreateEvent(h)
    PROVE  AlbumInv'
<1>1. /\ photos' = photos /\ req[h].op = "create" /\ req[h] \in Request
      /\ \A id \in revealed' : \E p \in photos : p.id = id
    BY DEF CreateEvent, At, AlbumInv, RevealedAreRows, StorageInv, TypeOK
<1>2. CASE Answer(h, 500)
    BY <1>1, <1>2, CreateEventGrows, StatusesOf, AlbumAnswer
<1>3. CASE /\ Len(events) < MaxEvents
           /\ req' = [req EXCEPT ![h] = [@ EXCEPT !.pc = "setActive",
                                                  !.event = Len(events) + 1]]
    <2> DEFINE e == Len(events) + 1
               r == [req[h] EXCEPT !.pc = "setActive", !.event = e]
    <2>1. e \in 0..MaxEvents
        BY <1>3, TimeAssumption DEF StorageInv, TypeOK
    <2>2. r \in Request
        <3> HIDE DEF e
        <3> QED
            BY <1>1, <2>1 DEF Request, Calls
    <2>3. Moves(h) /\ req'[h] = r
        BY <1>3, <2>2 DEF Moves, StorageInv, TypeOK
    <2>4. req'[h].op = "create"
        BY <1>1, <2>3 DEF Request
    <2>5. ReaderInv(h)' /\ ~InFlight(h)'
        BY <2>4 DEF ReaderInv, InFlight, At, Reading
    <2> QED
        BY <1>1, <2>3, <2>5, CreateEventGrows, AlbumStep
<1> QED
    BY <1>2, <1>3 DEF CreateEvent

LEMMA SetActiveEventKeepsAlbum ==
    ASSUME StorageInv, AlbumInv, NEW h \in Handlers, SetActiveEvent(h)
    PROVE  AlbumInv'
<1>1. /\ UNCHANGED <<now, events, photos, revealed>> /\ Grows
      /\ req[h].op = "create"
      /\ \A id \in revealed' : \E p \in photos : p.id = id
    BY QuietGrows DEF SetActiveEvent, At, AlbumInv, RevealedAreRows
<1>2. CASE Answer(h, 500)
    BY <1>1, <1>2, StatusesOf, AlbumAnswer
<1>3. CASE AnswerEvent(h, 201)
    <2>1. TypeOK /\ 201 \in Statuses
        BY StatusesOf DEF StorageInv
    <2>2. /\ Moves(h)
          /\ req'[h] = [Idle EXCEPT !.op = req[h].op, !.pc = "done",
                                    !.status = 201, !.event = req[h].event]
        BY <1>3, <2>1, AnswerEventMoves, Zenon
    <2>3. req'[h].pc = "done"
        BY <2>2 DEF Idle
    <2>4. ReaderInv(h)' /\ ~InFlight(h)'
        BY <2>3 DEF ReaderInv, InFlight, At
    <2> QED
        BY <1>1, <2>2, <2>4, AlbumStep
<1> QED
    BY <1>2, <1>3 DEF SetActiveEvent

LEMMA CheckRunningKeepsAlbum ==
    ASSUME StorageInv, AlbumInv, NEW h \in Handlers, CheckRunning(h)
    PROVE  AlbumInv'
<1>1. /\ UNCHANGED <<now, events, photos, revealed>> /\ Grows
      /\ req[h].op = "upload"
      /\ \A id \in revealed' : \E p \in photos : p.id = id
    BY QuietGrows DEF CheckRunning, At, stored, AlbumInv, RevealedAreRows
<1>2. CASE \E status \in {400, 423} : Answer(h, status)
    BY <1>1, <1>2, StatusesOf, AlbumAnswer
<1>3. CASE Goto(h, "find")
    BY <1>1, <1>3, AlbumGoto DEF Calls, Reading
<1> QED
    BY <1>2, <1>3 DEF CheckRunning

LEMMA AlbumAnswerFound ==
    ASSUME StorageInv, AlbumInv, NEW h \in Handlers,
           UNCHANGED <<now, stored, revealed>>,
           NEW p \in FindPhotoByClientId(req[h].event, req[h].client),
           NEW id, id = p.id, AnswerPhoto(h, 200, id)
    PROVE  AlbumInv'
<1>1. TypeOK /\ 200 \in Statuses /\ id \in PhotoIds
    BY StatusesOf DEF StorageInv, TypeOK, FindPhotoByClientId, Photo
<1>2. Moves(h) /\ req'[h].pc = "done"
    BY <1>1, AnswerPhotoMoves
<1>3. ReaderInv(h)' /\ ~InFlight(h)'
    BY <1>2 DEF ReaderInv, InFlight, At
<1>4. UNCHANGED <<now, events, photos, revealed>>
    BY DEF stored
<1> QED
    BY <1>2, <1>3, <1>4, QuietGrows, AlbumStep DEF AlbumInv, RevealedAreRows

LEMMA FindDuplicateKeepsAlbum ==
    ASSUME StorageInv, AlbumInv, NEW h \in Handlers, FindDuplicate(h)
    PROVE  AlbumInv'
<1>1. /\ UNCHANGED <<now, events, photos, revealed>> /\ Grows
      /\ UNCHANGED <<now, stored, revealed>>
      /\ req[h].op = "upload"
      /\ \A id \in revealed' : \E p \in photos : p.id = id
    BY QuietGrows DEF FindDuplicate, At, stored, AlbumInv, RevealedAreRows
<1>2. CASE \E status \in {400, 500} : Answer(h, status)
    BY <1>1, <1>2, StatusesOf, AlbumAnswer
<1>3. CASE \E p \in FindPhotoByClientId(req[h].event, req[h].client) :
              AnswerPhoto(h, 200, p.id)
    BY <1>1, <1>3, AlbumAnswerFound
<1>4. CASE Goto(h, "putPhoto")
    BY <1>1, <1>4, AlbumGoto DEF Calls, Reading
<1> QED
    BY <1>2, <1>3, <1>4 DEF FindDuplicate

LEMMA ResolveRaceKeepsAlbum ==
    ASSUME StorageInv, AlbumInv, NEW h \in Handlers, ResolveRace(h)
    PROVE  AlbumInv'
<1>1. /\ UNCHANGED <<now, events, photos, revealed>> /\ Grows
      /\ UNCHANGED <<now, stored, revealed>>
      /\ \A id \in revealed' : \E p \in photos : p.id = id
    BY QuietGrows DEF ResolveRace, stored, AlbumInv, RevealedAreRows
<1>2. CASE Answer(h, 500)
    BY <1>1, <1>2, StatusesOf, AlbumAnswer
<1>3. CASE \E p \in FindPhotoByClientId(req[h].event, req[h].client) :
              AnswerPhoto(h, 200, p.id)
    BY <1>1, <1>3, AlbumAnswerFound
<1> QED
    BY <1>2, <1>3 DEF ResolveRace

(* A fresh id is no row's and no other upload's. *)
LEMMA PutPhotoKeepsAlbum ==
    ASSUME StorageInv, AlbumInv, NEW h \in Handlers, PutPhoto(h)
    PROVE  AlbumInv'
<1>1. /\ UNCHANGED <<now, events, photos, revealed>> /\ Grows
      /\ req[h] \in Request /\ req[h].op = "upload"
      /\ \A id \in revealed' : \E p \in photos : p.id = id
    BY QuietGrows DEF PutPhoto, At, AlbumInv, RevealedAreRows, StorageInv, TypeOK
<1>2. CASE Answer(h, 500)
    BY <1>1, <1>2, StatusesOf, AlbumAnswer
<1>3. ASSUME NEW id \in FreshIds,
             req' = [req EXCEPT ![h] = [@ EXCEPT !.pc = "putThumb", !.id = id]]
      PROVE  AlbumInv'
    <2> DEFINE r == [req[h] EXCEPT !.pc = "putThumb", !.id = id]
    <2>1. r \in Request
        BY <1>1 DEF Request, Calls, FreshIds
    <2>2. Moves(h) /\ req'[h] = r
        BY <1>3, <2>1 DEF Moves, StorageInv, TypeOK
    <2>3. req'[h].op = "upload" /\ req'[h].id = id
        BY <1>1, <2>2 DEF Request
    <2>4. /\ \A p \in photos : p.id # id
          /\ \A g \in Handlers : req[g].id # id
        BY DEF FreshIds
    <2>5. \A g \in Handlers \ {h} :
              req'[g] = req[g] /\ (InFlight(g)' => InFlight(g))
        BY <2>2 DEF Moves, InFlight
    <2>6. InFlightIsFresh'
        <3>1. \A g \in Handlers, p \in photos' : InFlight(g)' => p.id # req'[g].id
            BY <1>1, <2>3, <2>4, <2>5 DEF AlbumInv, InFlightIsFresh
        <3>2. \A f, g \in Handlers : InFlight(f)' /\ InFlight(g)' /\ f # g
                  => req'[f].id # req'[g].id
            BY <2>3, <2>4, <2>5 DEF AlbumInv, InFlightIsFresh
        <3> QED
            BY <3>1, <3>2 DEF InFlightIsFresh
    <2>7. ReaderInv(h)'
        BY <2>3 DEF ReaderInv, At, Reading
    <2>8. \A g \in Handlers : ReaderInv(g)'
        BY <1>1, <2>5, <2>7, ReaderStandsStill DEF AlbumInv
    <2> QED
        BY <1>1, <2>6, <2>8 DEF AlbumInv, RowsNameEvents, UniqueIds,
                                RevealedAreRows
<1> QED
    BY <1>2, <1>3 DEF PutPhoto

LEMMA PutThumbKeepsAlbum ==
    ASSUME StorageInv, AlbumInv, NEW h \in Handlers, PutThumb(h)
    PROVE  AlbumInv'
<1>1. /\ UNCHANGED <<now, events, photos, revealed>> /\ Grows
      /\ req[h].op = "upload" /\ InFlight(h)
      /\ \A id \in revealed' : \E p \in photos : p.id = id
    BY QuietGrows DEF PutThumb, At, InFlight, AlbumInv, RevealedAreRows
<1>2. CASE Answer(h, 500)
    BY <1>1, <1>2, StatusesOf, AlbumAnswer
<1>3. CASE Goto(h, "insert")
    BY <1>1, <1>3, AlbumGoto DEF Calls, Reading
<1> QED
    BY <1>2, <1>3 DEF PutThumb

LEMMA CreatePhotoGrows ==
    ASSUME StorageInv, AlbumInv, NEW h \in Handlers, CreatePhoto(h)
    PROVE  Grows
<1> DEFINE row == [id |-> req[h].id, event |-> req[h].event,
                   client |-> req[h].client]
<1>1. /\ UNCHANGED <<now, events>> /\ InFlight(h) /\ req[h].id \in PhotoIds
      /\ photos' \in {photos, photos \cup {row}}
    BY DEF CreatePhoto, At, InFlight, StorageInv, HandlerInv, UploadInv
<1>2. /\ now \in Nat /\ Len(events) \in Nat
      /\ \A e \in 1..Len(events) : events[e] \in Nat
    BY TimeAssumption DEF StorageInv, TypeOK
<1>3. row.id # NoPhoto /\ \A q \in photos : q.id # row.id
    BY <1>1, PhotoIdsAssumption DEF NoPhoto, AlbumInv, InFlightIsFresh
<1> HIDE DEF row
<1> QED
    BY <1>1, <1>2, <1>3 DEF Grows

(* The new row has the id its upload alone held. *)
LEMMA CreatePhotoKeepsAlbum ==
    ASSUME StorageInv, AlbumInv, NEW h \in Handlers, CreatePhoto(h)
    PROVE  AlbumInv'
<1> DEFINE row == [id |-> req[h].id, event |-> req[h].event,
                   client |-> req[h].client]
<1>1. /\ UNCHANGED <<now, events, revealed>> /\ InFlight(h)
      /\ req[h].op = "upload" /\ req[h].event \in 1..Len(events)
      /\ req[h].id \in PhotoIds
    BY DEF CreatePhoto, At, InFlight, StorageInv, HandlerInv, UploadInv
<1>2. \A id \in revealed' : \E p \in photos : p.id = id
    BY <1>1 DEF AlbumInv, RevealedAreRows
<1>3. CASE photos' = photos /\ (Goto(h, "resolve") \/ Answer(h, 500))
    <2>1. Grows
        BY <1>1, <1>3, QuietGrows
    <2>2. Goto(h, "resolve") => AlbumInv'
        BY <1>1, <1>3, AlbumGoto DEF Calls, Reading
    <2>3. Answer(h, 500) => AlbumInv'
        BY <1>2, <1>3, <2>1, StatusesOf, AlbumAnswer
    <2> QED
        BY <1>3, <2>2, <2>3
<1>4. CASE /\ photos' \in {photos, photos \cup {row}}
           /\ AnswerPhoto(h, 201, row.id) \/ Answer(h, 500)
    <2>1. PICK p : p = row
        OBVIOUS
    <2>2. /\ photos \subseteq photos' /\ photos' \subseteq photos \cup {p}
          /\ p.id = req[h].id /\ p.event = req[h].event
        BY <1>4, <2>1
    <2>3. \A q \in photos : q.id # p.id
        BY <1>1, <2>2 DEF AlbumInv, InFlightIsFresh
    <2>4. Grows
        BY CreatePhotoGrows
    <2>5. Moves(h) /\ req'[h].pc = "done"
        <3>1. TypeOK /\ 201 \in Statuses /\ 500 \in Statuses
            BY StatusesOf DEF StorageInv
        <3>2. CASE Answer(h, 500)
            BY <3>1, <3>2, AnswerEnds
        <3>3. CASE AnswerPhoto(h, 201, row.id)
            BY <1>1, <3>1, <3>3, AnswerPhotoMoves
        <3> QED
            BY <1>4, <3>2, <3>3
    <2>6. \A g \in Handlers : ReaderInv(g)'
        <3>1. ReaderInv(h)'
            BY <2>5 DEF ReaderInv, At
        <3> QED
            BY <2>4, <2>5, <3>1, ReaderStandsStill DEF AlbumInv, Moves
    <2>7. InFlightIsFresh'
        <3>1. \A g \in Handlers : InFlight(g)' =>
                  g # h /\ InFlight(g) /\ req'[g].id = req[g].id
            BY <2>5 DEF Moves, InFlight
        <3>2. \A g \in Handlers : InFlight(g)' => p.id # req'[g].id
            BY <1>1, <2>2, <3>1 DEF AlbumInv, InFlightIsFresh
        <3> QED
            BY <2>2, <3>1, <3>2 DEF AlbumInv, InFlightIsFresh
    <2>8. RowsNameEvents'
        BY <1>1, <2>2 DEF AlbumInv, RowsNameEvents
    <2>9. UniqueIds'
        BY <2>2, <2>3 DEF AlbumInv, UniqueIds
    <2>10. RevealedAreRows'
        BY <1>2, <2>2 DEF RevealedAreRows
    <2> QED
        BY <2>6, <2>7, <2>8, <2>9, <2>10 DEF AlbumInv
<1> QED
    BY <1>3, <1>4 DEF CreatePhoto

LEMMA CheckUnlockedKeepsAlbum ==
    ASSUME StorageInv, AlbumInv, NEW h \in Handlers, CheckUnlocked(h)
    PROVE  AlbumInv'
<1>1. /\ UNCHANGED <<now, events, photos, revealed>> /\ Grows
      /\ req[h].op # "upload" /\ req[h].pc = "check"
      /\ \A id \in revealed' : \E p \in photos : p.id = id
    BY QuietGrows
       DEF CheckUnlocked, Reading, stored, AlbumInv, RevealedAreRows
<1>2. CASE Answer(h, 423)
    BY <1>1, <1>2, StatusesOf, AlbumAnswer
<1>3. CASE IsOver(req[h].event) /\ Goto(h, "query")
    BY <1>1, <1>3, AlbumGoto DEF Calls
<1> QED
    BY <1>2, <1>3 DEF CheckUnlocked

LEMMA ListKeepsAlbum ==
    ASSUME StorageInv, AlbumInv, NEW h \in Handlers, List(h)
    PROVE  AlbumInv'
<1>1. UNCHANGED <<now, events, photos>> /\ Grows
    BY QuietGrows DEF List, stored
<1>2. \A id \in revealed' : \E p \in photos : p.id = id
    BY DEF List, ListPhotosByEvent, AlbumInv, RevealedAreRows
<1>3. \E status \in {200, 500} : Answer(h, status)
    BY DEF List
<1> QED
    BY <1>1, <1>2, <1>3, StatusesOf, AlbumAnswer

LEMMA FindOriginalKeepsAlbum ==
    ASSUME StorageInv, AlbumInv, NEW h \in Handlers, FindOriginal(h)
    PROVE  AlbumInv'
<1>1. /\ UNCHANGED <<now, events, photos, revealed>> /\ Grows
      /\ req[h].op = "original" /\ req[h].pc = "query"
      /\ \A id \in revealed' : \E p \in photos : p.id = id
    BY QuietGrows DEF FindOriginal, At, stored, AlbumInv, RevealedAreRows
<1>2. CASE \E status \in {400, 404, 500} : Answer(h, status)
    BY <1>1, <1>2, StatusesOf, AlbumAnswer
<1>3. CASE Goto(h, "open")
    BY <1>1, <1>3, AlbumGoto DEF Calls
<1> QED
    BY <1>2, <1>3 DEF FindOriginal

LEMMA OpenOriginalKeepsAlbum ==
    ASSUME StorageInv, AlbumInv, NEW h \in Handlers, OpenOriginal(h)
    PROVE  AlbumInv'
<1>1. UNCHANGED <<now, events, photos>> /\ Grows
    BY QuietGrows DEF OpenOriginal, stored
<1>2. \E p \in photos : p.id = req[h].id
    <2>1. At(h, "original", "open") /\ HandlerInv(h) /\ ReaderInv(h)
        BY DEF OpenOriginal, StorageInv, AlbumInv
    <2>2. req[h].id # NoPhoto
        BY <2>1, PhotoIdsAssumption DEF HandlerInv, OriginalInv, NoPhoto
    <2> QED
        BY <2>1, <2>2 DEF ReaderInv, At
<1>3. \A id \in revealed' : \E p \in photos : p.id = id
    BY <1>2 DEF OpenOriginal, AlbumInv, RevealedAreRows
<1>4. \E status \in {200, 500} : Answer(h, status)
    BY DEF OpenOriginal
<1> QED
    BY <1>1, <1>3, <1>4, StatusesOf, AlbumAnswer

(* A zip has left only rows of the event that was checked. *)
LEMMA AlbumZipMoves ==
    ASSUME StorageInv, AlbumInv, NEW h \in Handlers, req[h].op = "zip",
           req[h].pc \in {"query", "open"},
           UNCHANGED <<now, events, photos>>,
           \A id \in revealed' : \E p \in photos : p.id = id,
           NEW rows \in SUBSET ListPhotosByEvent(req[h].event),
           req' = [req EXCEPT ![h] = [@ EXCEPT !.pc = "open", !.rows = rows]]
    PROVE  AlbumInv'
<1> DEFINE r == [req[h] EXCEPT !.pc = "open", !.rows = rows]
<1>1. req[h] \in Request /\ rows \in SUBSET Photo /\ ReaderInv(h)
    BY DEF StorageInv, TypeOK, AlbumInv, ListPhotosByEvent
<1>2. r \in Request
    BY <1>1 DEF Request, Calls
<1>3. Moves(h) /\ req'[h] = r
    BY <1>2 DEF Moves, StorageInv, TypeOK
<1>4. /\ req'[h].op = "zip" /\ req'[h].pc = "open" /\ req'[h].rows = rows
      /\ req'[h].event = req[h].event
    <2>1. /\ r.op = req[h].op /\ r.pc = "open" /\ r.rows = rows
          /\ r.event = req[h].event
        BY <1>1 DEF Request
    <2> QED
        BY <1>3, <2>1
<1>5. ReaderInv(h)' /\ ~InFlight(h)'
    BY <1>1, <1>4 DEF ReaderInv, InFlight, At, Reading, IsOver,
                      ListPhotosByEvent
<1> QED
    BY <1>3, <1>5, QuietGrows, AlbumStep

LEMMA ListForZipKeepsAlbum ==
    ASSUME StorageInv, AlbumInv, NEW h \in Handlers, ListForZip(h)
    PROVE  AlbumInv'
<1>1. /\ UNCHANGED <<now, events, photos, revealed>> /\ Grows
      /\ req[h].op = "zip" /\ req[h].pc = "query"
      /\ \A id \in revealed' : \E p \in photos : p.id = id
    BY QuietGrows DEF ListForZip, At, stored, AlbumInv, RevealedAreRows
<1>2. CASE Answer(h, 500)
    BY <1>1, <1>2, StatusesOf, AlbumAnswer
<1>3. CASE req' = [req EXCEPT ![h] = [@ EXCEPT !.pc = "open",
                      !.rows = ListPhotosByEvent(req[h].event)]]
    BY <1>1, <1>3, AlbumZipMoves
<1> QED
    BY <1>2, <1>3 DEF ListForZip

LEMMA ZipNextKeepsAlbum ==
    ASSUME StorageInv, AlbumInv, NEW h \in Handlers, ZipNext(h)
    PROVE  AlbumInv'
<1>1. /\ UNCHANGED <<now, events, photos>> /\ Grows
      /\ req[h].op = "zip" /\ req[h].pc = "open" /\ req[h] \in Request
      /\ req[h].rows \subseteq ListPhotosByEvent(req[h].event)
    BY QuietGrows DEF ZipNext, At, stored, AlbumInv, ReaderInv, StorageInv, TypeOK
<1>2. PICK p \in req[h].rows :
          \/ /\ revealed' = revealed \cup {p.id}
             /\ \/ req' = [req EXCEPT ![h].rows = @ \ {p}]
                \/ Answer(h, 200)
          \/ revealed' = revealed /\ Answer(h, 200)
    BY DEF ZipNext
<1>3. \A id \in revealed' : \E q \in photos : q.id = id
    BY <1>1, <1>2 DEF ListPhotosByEvent, AlbumInv, RevealedAreRows
<1>4. CASE Answer(h, 200)
    BY <1>1, <1>3, <1>4, StatusesOf, AlbumAnswer
<1>5. CASE req' = [req EXCEPT ![h].rows = @ \ {p}]
    <2> DEFINE rows == req[h].rows \ {p}
    <2>1. rows \in SUBSET ListPhotosByEvent(req[h].event)
        BY <1>1
    <2>2. [req[h] EXCEPT !.rows = rows]
             = [req[h] EXCEPT !.pc = "open", !.rows = rows]
        BY <1>1 DEF Request
    <2>3. req' = [req EXCEPT ![h] = [@ EXCEPT !.pc = "open", !.rows = rows]]
        BY <1>5, <2>2
    <2> HIDE DEF rows
    <2> QED
        BY <1>1, <1>3, <2>1, <2>3, AlbumZipMoves
<1> QED
    BY <1>2, <1>4, <1>5

LEMMA ZipEndKeepsAlbum ==
    ASSUME StorageInv, AlbumInv, NEW h \in Handlers, ZipEnd(h)
    PROVE  AlbumInv'
<1>1. /\ UNCHANGED <<now, events, photos, revealed>> /\ Grows
      /\ Answer(h, 200)
      /\ \A id \in revealed' : \E p \in photos : p.id = id
    BY QuietGrows DEF ZipEnd, stored, AlbumInv, RevealedAreRows
<1> QED
    BY <1>1, StatusesOf, AlbumAnswer

LEMMA TickGrows == StorageInv /\ Tick => Grows
<1> SUFFICES ASSUME StorageInv, Tick PROVE Grows
    OBVIOUS
<1>1. /\ now \in Nat /\ Len(events) \in Nat
      /\ \A e \in 1..Len(events) : events[e] \in Nat
    BY TimeAssumption DEF StorageInv, TypeOK
<1>2. UNCHANGED <<events, photos>> /\ now' \in Nat /\ now <= now'
    BY <1>1 DEF Tick, stored
<1> QED
    BY <1>1, <1>2 DEF Grows

LEMMA TickKeepsAlbum == StorageInv /\ AlbumInv /\ Tick => AlbumInv'
<1> SUFFICES ASSUME StorageInv, AlbumInv, Tick PROVE AlbumInv'
    OBVIOUS
<1>1. UNCHANGED <<events, photos, req, revealed>>
    BY DEF Tick, stored
<1>2. Grows
    BY TickGrows
<1>3. \A h \in Handlers : ReaderInv(h)'
    BY <1>1, <1>2, ReaderStandsStill DEF AlbumInv
<1>4. InFlightIsFresh'
    BY <1>1 DEF AlbumInv, InFlightIsFresh, InFlight
<1> QED
    BY <1>1, <1>3, <1>4 DEF AlbumInv, RowsNameEvents, UniqueIds, RevealedAreRows

LEMMA CrashKeepsAlbum == AlbumInv /\ Crash => AlbumInv'
<1> SUFFICES ASSUME AlbumInv, Crash PROVE AlbumInv'
    OBVIOUS
<1>1. /\ UNCHANGED <<events, photos, revealed>>
      /\ \A h \in Handlers : req'[h].pc = "idle"
    BY DEF Crash, stored, Idle
<1> QED
    BY <1>1 DEF AlbumInv, RowsNameEvents, UniqueIds, RevealedAreRows,
           InFlightIsFresh, InFlight, ReaderInv, At

LEMMA InitAlbumInv == Init => AlbumInv
<1> SUFFICES ASSUME Init PROVE AlbumInv
    OBVIOUS
<1>1. \A h \in Handlers : req[h].pc = "idle"
    BY DEF Init, Idle
<1> QED
    BY <1>1 DEF Init, AlbumInv, RowsNameEvents, UniqueIds, RevealedAreRows,
           InFlightIsFresh, InFlight, ReaderInv, At

LEMMA NextAlbumInv == StorageInv /\ AlbumInv /\ [Next]_vars => AlbumInv'
<1> SUFFICES ASSUME StorageInv, AlbumInv, [Next]_vars PROVE AlbumInv'
    OBVIOUS
<1>1. ASSUME NEW h \in Handlers, Serve(h) PROVE AlbumInv'
    BY <1>1, ArriveKeepsAlbum, LoadEventKeepsAlbum, FinishKeepsAlbum,
       CheckNoneRunningKeepsAlbum, CreateEventKeepsAlbum,
       SetActiveEventKeepsAlbum, CheckRunningKeepsAlbum,
       FindDuplicateKeepsAlbum, PutPhotoKeepsAlbum, PutThumbKeepsAlbum,
       CreatePhotoKeepsAlbum, ResolveRaceKeepsAlbum, CheckUnlockedKeepsAlbum,
       ListKeepsAlbum, FindOriginalKeepsAlbum, OpenOriginalKeepsAlbum,
       ListForZipKeepsAlbum, ZipNextKeepsAlbum, ZipEndKeepsAlbum DEF Serve
<1>2. CASE UNCHANGED vars
    BY <1>2 DEF vars, AlbumInv, RowsNameEvents, UniqueIds, RevealedAreRows,
           InFlightIsFresh, InFlight, ReaderInv, At, IsOver, ListPhotosByEvent
<1> QED
    BY <1>1, <1>2, TickKeepsAlbum, CrashKeepsAlbum DEF Next

LEMMA AlbumIsInvariant == Spec => [](StorageInv /\ AlbumInv)
<1>1. StorageInv /\ AlbumInv /\ [Next]_vars => (StorageInv /\ AlbumInv)'
    BY NextStorageInv, NextAlbumInv
<1> QED
    BY <1>1, InitStorageInv, InitAlbumInv, PTL DEF Spec

-----------------------------------------------------------------------------
(* What a step reveals *)

(* A list or a zip reveals photos of the event it checked. *)
LEMMA PageReveals ==
    ASSUME StorageInv, AlbumInv, NEW h \in Handlers, List(h) \/ ZipNext(h),
           NEW p \in photos, p.id \in revealed' \ revealed
    PROVE  IsOver(p.event) /\ req[h].op # "original"
<1>1. /\ ReaderInv(h) /\ req[h].op \in {"list", "zip"}
      /\ req[h].pc \in {"query", "open"}
    BY DEF List, ZipNext, At, AlbumInv
<1>2. PICK q \in ListPhotosByEvent(req[h].event) : q.id = p.id
    <2>1. CASE List(h)
        BY <2>1 DEF List
    <2>2. CASE ZipNext(h)
        BY <1>1, <2>2 DEF ZipNext, At, ReaderInv
    <2> QED
        BY <2>1, <2>2
<1>3. q = p /\ p.event = req[h].event
    BY <1>2 DEF ListPhotosByEvent, AlbumInv, UniqueIds
<1> QED
    BY <1>1, <1>3 DEF ReaderInv, Reading

LEMMA RevealingStep ==
    ASSUME StorageInv, [Next]_vars
    PROVE  \/ revealed' = revealed
           \/ \E h \in Handlers : List(h) \/ ZipNext(h) \/ OpenOriginal(h)
<1>1. CASE Tick \/ Crash \/ UNCHANGED vars
    BY <1>1 DEF Tick, Crash, vars
<1>2. ASSUME NEW h \in Handlers, Serve(h)
      PROVE  revealed' = revealed \/ List(h) \/ ZipNext(h) \/ OpenOriginal(h)
    <2>1. Arrive(h) \/ LoadEvent(h) \/ Finish(h) => revealed' = revealed
        BY DEF Arrive, Receive, LoadEvent, Finish
    <2>2. CheckNoneRunning(h) \/ CreateEvent(h) \/ SetActiveEvent(h)
             => revealed' = revealed
        BY DEF CheckNoneRunning, CreateEvent, SetActiveEvent
    <2>3. CheckRunning(h) \/ FindDuplicate(h) \/ PutPhoto(h) \/ PutThumb(h)
             \/ CreatePhoto(h) \/ ResolveRace(h) => revealed' = revealed
        BY DEF CheckRunning, FindDuplicate, PutPhoto, PutThumb, CreatePhoto,
               ResolveRace
    <2>4. CheckUnlocked(h) \/ FindOriginal(h) \/ ListForZip(h) \/ ZipEnd(h)
             => revealed' = revealed
        BY DEF CheckUnlocked, FindOriginal, ListForZip, ZipEnd
    <2> QED
        BY <1>2, <2>1, <2>2, <2>3, <2>4 DEF Serve
<1> QED
    BY <1>1, <1>2 DEF Next

LEMMA OpenOriginalMoves ==
    ASSUME StorageInv, NEW h \in Handlers, OpenOriginal(h)
    PROVE  Moves(h) /\ At(h, "original", "open")
<1>1. TypeOK /\ At(h, "original", "open")
    BY DEF StorageInv, OpenOriginal
<1>2. PICK status \in Statuses : Answer(h, status)
    BY StatusesOf DEF OpenOriginal
<1> QED
    BY <1>1, <1>2, AnswerEnds

(* However many events are started at the same time, a list or a zip shows  *)
(* only photos of events that are over.                                     *)
THEOREM PagesAreSealed == Spec => PagesShowOverEvents
<1>1. ASSUME StorageInv, AlbumInv, [Next]_vars,
             NEW h \in Handlers, req[h].op \in {"list", "zip"},
             req'[h] # req[h],
             NEW p \in photos, p.id \in revealed' \ revealed
      PROVE  IsOver(p.event)
    <2>1. PICK g \in Handlers : List(g) \/ ZipNext(g) \/ OpenOriginal(g)
        BY <1>1, RevealingStep
    <2>2. ~OpenOriginal(g)
        BY <1>1, OpenOriginalMoves DEF Moves, At
    <2> QED
        BY <1>1, <2>1, <2>2, PageReveals
<1>2. StorageInv /\ AlbumInv /\ [Next]_vars =>
          [ (\E h \in Handlers : req[h].op \in {"list", "zip"}
                                 /\ req'[h] # req[h])
              => \A p \in photos :
                    p.id \in revealed' \ revealed => IsOver(p.event) ]_vars
    BY <1>1
<1> QED
    BY <1>2, AlbumIsInvariant, PTL DEF Spec, PagesShowOverEvents

-----------------------------------------------------------------------------
(* The lock, with one starter.  An event is inserted only by a handler that *)
(* found the current event over, and no other start came in between.        *)

StartInv(h) ==
    req[h].op = "create" =>
        /\ h \in Starters
        /\ req[h].pc = "load" => req[h].event = 0
        /\ req[h].pc \in {"check", "insert", "setActive"} =>
               req[h].event = CurrentEvent
        /\ req[h].pc = "insert" => req[h].event = 0 \/ IsOver(req[h].event)
        /\ req[h].pc = "done" /\ req[h].status = 201 =>
               req[h].event = CurrentEvent /\ activeEvent = CurrentEvent

LockInv ==
    /\ OlderEventsAreOver
    /\ Sealed
    /\ \A h \in Handlers : StartInv(h)

LEMMA NowIsNat == StorageInv => now \in Nat /\ Len(events) \in Nat
BY TimeAssumption DEF StorageInv, TypeOK

(* A step of h that starts no event keeps the starts in order. *)
LEMMA QuietStarts ==
    ASSUME LockInv, NEW h \in Handlers, Moves(h),
           UNCHANGED <<now, events, activeEvent>>, StartInv(h)'
    PROVE  \A g \in Handlers : StartInv(g)'
BY DEF LockInv, Moves, StartInv, CurrentEvent, IsOver

LEMMA StartsAfterAnswer ==
    ASSUME StorageInv, LockInv, NEW h \in Handlers, NEW status \in Statuses,
           Answer(h, status), status # 201 \/ req[h].op # "create",
           UNCHANGED <<now, events, activeEvent>>
    PROVE  \A g \in Handlers : StartInv(g)'
<1>1. Moves(h) /\ req'[h] = [Idle EXCEPT !.op = req[h].op, !.pc = "done",
                                         !.status = status]
    BY AnswerMoves DEF StorageInv
<1>2. req'[h].pc = "done" /\ req'[h].op = req[h].op /\ req'[h].status = status
    BY <1>1 DEF Idle
<1>3. StartInv(h)
    BY DEF LockInv
<1>4. StartInv(h)'
    BY <1>2, <1>3 DEF StartInv
<1> QED
    BY <1>1, <1>4, QuietStarts

(* Steps of requests that start nothing do not touch StartInv. *)
LEMMA OthersStarts ==
    ASSUME LockInv, NEW h \in Handlers, Moves(h), req'[h].op # "create",
           UNCHANGED <<now, events, activeEvent>>
    PROVE  \A g \in Handlers : StartInv(g)'
BY QuietStarts DEF StartInv

LEMMA StepGrows ==
    ASSUME StorageInv, AlbumInv, [Next]_vars
    PROVE  Grows
<1>1. CASE Crash \/ UNCHANGED vars
    BY <1>1, QuietGrows DEF Crash, stored, vars
<1>2. ASSUME NEW h \in Handlers, Serve(h) PROVE Grows
    <2>1. Arrive(h) \/ LoadEvent(h) \/ Finish(h) => Grows
        BY QuietGrows DEF Arrive, Receive, LoadEvent, Finish, stored
    <2>2. CheckNoneRunning(h) \/ SetActiveEvent(h) => Grows
        BY QuietGrows DEF CheckNoneRunning, SetActiveEvent, stored
    <2>3. CheckRunning(h) \/ FindDuplicate(h) \/ PutPhoto(h) \/ PutThumb(h)
             \/ ResolveRace(h) => Grows
        BY QuietGrows DEF CheckRunning, FindDuplicate, PutPhoto, PutThumb,
                          ResolveRace, stored
    <2>4. CheckUnlocked(h) \/ List(h) \/ FindOriginal(h) \/ OpenOriginal(h)
             => Grows
        BY QuietGrows DEF CheckUnlocked, List, FindOriginal, OpenOriginal,
                          stored
    <2>5. ListForZip(h) \/ ZipNext(h) \/ ZipEnd(h) => Grows
        BY QuietGrows DEF ListForZip, ZipNext, ZipEnd, stored
    <2> QED
        BY <1>2, <2>1, <2>2, <2>3, <2>4, <2>5, CreateEventGrows,
           CreatePhotoGrows DEF Serve
<1> QED
    BY <1>1, <1>2, TickGrows DEF Next

LEMMA OverNeverStops ==
    ASSUME StorageInv, AlbumInv, LockInv, Grows
    PROVE  /\ \A e \in 1..Len(events) : IsOver(e) => IsOver(e)'
           /\ \A e \in 1..(Len(events) - 1) : IsOver(e)
BY DEF Grows, IsOver, LockInv, OlderEventsAreOver, CurrentEvent

LEMMA SealedStep ==
    ASSUME StorageInv, AlbumInv, LockInv, [Next]_vars
    PROVE  Sealed'
<1>1. Grows
    BY StepGrows
<1>2. \A p \in photos : p.event \in 1..Len(events)
    BY DEF AlbumInv, RowsNameEvents
<1>3. CASE revealed' = revealed
    <2>1. \A p \in photos' : p.id \in revealed => p \in photos
        BY <1>1 DEF Grows, AlbumInv, RevealedAreRows
    <2> QED
        BY <1>1, <1>2, <1>3, <2>1, OverNeverStops DEF LockInv, Sealed
<1>4. ASSUME NEW h \in Handlers, List(h) \/ ZipNext(h) \/ OpenOriginal(h)
      PROVE  Sealed'
    <2>1. photos' = photos
        BY <1>4 DEF List, ZipNext, OpenOriginal, stored
    <2>2. ASSUME NEW p \in photos, p.id \in revealed' \ revealed
          PROVE  IsOver(p.event)
        <3>1. CASE List(h) \/ ZipNext(h)
            BY <2>2, <3>1, PageReveals
        <3>2. CASE OpenOriginal(h)
            <4>1. /\ p.id = req[h].id /\ ReaderInv(h)
                  /\ At(h, "original", "open")
                BY <2>2, <3>2 DEF OpenOriginal, AlbumInv
            <4>2. /\ req[h].event \in 1..Len(events) /\ IsOver(req[h].event)
                  /\ p.event <= req[h].event
                BY <4>1 DEF ReaderInv, At, Reading
            <4>3. p.event \in 1..Len(events) /\ Len(events) \in Nat
                BY <1>2, NowIsNat
            <4>4. p.event = req[h].event \/ p.event \in 1..(Len(events) - 1)
                BY <4>2, <4>3
            <4> QED
                BY <1>1, <4>2, <4>4, OverNeverStops
        <3> QED
            BY <1>4, <3>1, <3>2
    <2>3. \A p \in photos : p.id \in revealed' => IsOver(p.event)
        BY <2>2 DEF LockInv, Sealed
    <2> QED
        BY <1>1, <1>2, <2>1, <2>3, OverNeverStops DEF Sealed
<1> QED
    BY <1>3, <1>4, RevealingStep

LEMMA OlderStep ==
    ASSUME StorageInv, AlbumInv, LockInv, [Next]_vars
    PROVE  OlderEventsAreOver'
<1>1. Grows
    BY StepGrows
<1>2. CASE Len(events') = Len(events)
    BY <1>1, <1>2, OverNeverStops, NowIsNat DEF OlderEventsAreOver, CurrentEvent
<1>3. ASSUME NEW h \in Handlers, CreateEvent(h), Len(events') # Len(events)
      PROVE  OlderEventsAreOver'
    <2>1. Len(events') = Len(events) + 1
        BY <1>3 DEF CreateEvent, StorageInv, TypeOK
    <2>2. StartInv(h) /\ At(h, "create", "insert")
        BY <1>3 DEF CreateEvent, LockInv
    <2>3. Len(events) = 0 \/ IsOver(Len(events))
        BY <2>2 DEF StartInv, At, CurrentEvent
    <2>4. \A e \in 1..Len(events) : IsOver(e)
        BY <1>1, <2>3, OverNeverStops, NowIsNat
    <2> QED
        BY <1>1, <2>1, <2>4, OverNeverStops, NowIsNat
           DEF OlderEventsAreOver, CurrentEvent
<1>4. ASSUME NEW h \in Handlers, Serve(h)
      PROVE  Len(events') = Len(events) \/ CreateEvent(h)
    <2>1. Arrive(h) \/ LoadEvent(h) \/ Finish(h) => events' = events
        BY DEF Arrive, Receive, LoadEvent, Finish, stored
    <2>2. CheckNoneRunning(h) \/ SetActiveEvent(h) => events' = events
        BY DEF CheckNoneRunning, SetActiveEvent, stored
    <2>3. CheckRunning(h) \/ FindDuplicate(h) \/ PutPhoto(h) \/ PutThumb(h)
             \/ CreatePhoto(h) \/ ResolveRace(h) => events' = events
        BY DEF CheckRunning, FindDuplicate, PutPhoto, PutThumb, CreatePhoto,
               ResolveRace, stored
    <2>4. CheckUnlocked(h) \/ List(h) \/ FindOriginal(h) \/ OpenOriginal(h)
             => events' = events
        BY DEF CheckUnlocked, List, FindOriginal, OpenOriginal, stored
    <2>5. ListForZip(h) \/ ZipNext(h) \/ ZipEnd(h) => events' = events
        BY DEF ListForZip, ZipNext, ZipEnd, stored
    <2> QED
        BY <1>4, <2>1, <2>2, <2>3, <2>4, <2>5 DEF Serve
<1>5. Tick \/ Crash \/ UNCHANGED vars => events' = events
    BY DEF Tick, Crash, vars, stored
<1> QED
    BY <1>2, <1>3, <1>4, <1>5 DEF Next

(* Requests that start no event keep what they are. *)
LEMMA MovesAsBefore ==
    ASSUME StorageInv, NEW h \in Handlers,
           \/ \E status \in Statuses : Answer(h, status)
           \/ \E pc \in Calls : Goto(h, pc)
           \/ \E id \in PhotoIds, status \in Statuses : AnswerPhoto(h, status, id)
    PROVE  Moves(h) /\ req'[h].op = req[h].op
<1>1. TypeOK /\ req[h] \in Request
    BY DEF StorageInv, TypeOK
<1>2. CASE \E status \in Statuses : Answer(h, status)
    BY <1>1, <1>2, AnswerEnds
<1>3. ASSUME NEW pc \in Calls, Goto(h, pc)
      PROVE  Moves(h) /\ req'[h].op = req[h].op
    BY <1>1, <1>3, GotoMoves DEF Request
<1>4. CASE \E id \in PhotoIds, status \in Statuses : AnswerPhoto(h, status, id)
    BY <1>1, <1>4, AnswerPhotoMoves
<1> QED
    BY <1>2, <1>3, <1>4

LEMMA FoundIds ==
    StorageInv => \A e, c : \A p \in FindPhotoByClientId(e, c) : p.id \in PhotoIds
BY DEF StorageInv, TypeOK, FindPhotoByClientId, Photo

LEMMA UploadMoves ==
    ASSUME StorageInv, NEW h \in Handlers,
           \/ CheckRunning(h) \/ FindDuplicate(h) \/ PutPhoto(h) \/ PutThumb(h)
           \/ CreatePhoto(h) \/ ResolveRace(h)
    PROVE  /\ Moves(h) /\ req[h].op = "upload" /\ req'[h].op = "upload"
           /\ UNCHANGED <<now, events, activeEvent>>
<1>1. req[h].op = "upload" /\ UNCHANGED <<now, events, activeEvent>>
    BY DEF CheckRunning, FindDuplicate, PutPhoto, PutThumb, CreatePhoto,
           ResolveRace, At, stored
<1>2. CASE CheckRunning(h) \/ PutThumb(h)
    BY <1>1, <1>2, MovesAsBefore, StatusesOf DEF CheckRunning, PutThumb, Calls
<1>3. CASE FindDuplicate(h) \/ ResolveRace(h)
    BY <1>1, <1>3, MovesAsBefore, StatusesOf, FoundIds
       DEF FindDuplicate, ResolveRace, Calls
<1>4. CASE CreatePhoto(h)
    <2>1. req[h].id \in PhotoIds
        BY <1>4 DEF CreatePhoto, At, StorageInv, HandlerInv, UploadInv
    <2> QED
        BY <1>1, <1>4, <2>1, MovesAsBefore, StatusesOf DEF CreatePhoto, Calls
<1>5. CASE PutPhoto(h)
    <2>1. CASE Answer(h, 500)
        BY <1>1, <2>1, MovesAsBefore, StatusesOf
    <2>2. ASSUME NEW id \in FreshIds,
                 req' = [req EXCEPT ![h] = [@ EXCEPT !.pc = "putThumb",
                                                     !.id = id]]
          PROVE  Moves(h) /\ req'[h].op = "upload"
        <3> DEFINE r == [req[h] EXCEPT !.pc = "putThumb", !.id = id]
        <3>1. req[h] \in Request
            BY DEF StorageInv, TypeOK
        <3>2. r \in Request /\ r.op = "upload"
            BY <1>1, <3>1 DEF Request, Calls, FreshIds
        <3> QED
            BY <2>2, <3>2 DEF Moves, StorageInv, TypeOK
    <2> QED
        BY <1>1, <1>5, <2>1, <2>2 DEF PutPhoto
<1> QED
    BY <1>2, <1>3, <1>4, <1>5

LEMMA ReaderMoves ==
    ASSUME StorageInv, AlbumInv, NEW h \in Handlers,
           \/ CheckUnlocked(h) \/ List(h) \/ FindOriginal(h) \/ OpenOriginal(h)
           \/ ListForZip(h) \/ ZipNext(h) \/ ZipEnd(h)
    PROVE  /\ Moves(h) /\ req[h].op \in Reading /\ req'[h].op \in Reading
           /\ UNCHANGED <<now, events, activeEvent>>
<1>1. req[h].op \in Reading /\ UNCHANGED <<now, events, activeEvent>>
    BY DEF CheckUnlocked, List, FindOriginal, OpenOriginal, ListForZip, ZipNext,
           ZipEnd, At, Reading, stored
<1>2. CASE CheckUnlocked(h) \/ FindOriginal(h) \/ ZipEnd(h)
    BY <1>1, <1>2, MovesAsBefore, StatusesOf
       DEF CheckUnlocked, FindOriginal, ZipEnd, Calls
<1>3. CASE List(h) \/ OpenOriginal(h)
    BY <1>1, <1>3, MovesAsBefore, StatusesOf DEF List, OpenOriginal
<1>4. CASE \E rows \in SUBSET Photo :
              req' = [req EXCEPT ![h] = [@ EXCEPT !.pc = "open", !.rows = rows]]
    <2> PICK rows \in SUBSET Photo :
              req' = [req EXCEPT ![h] = [@ EXCEPT !.pc = "open", !.rows = rows]]
        BY <1>4
    <2> DEFINE r == [req[h] EXCEPT !.pc = "open", !.rows = rows]
    <2>1. req[h] \in Request
        BY DEF StorageInv, TypeOK
    <2>2. r \in Request /\ r.op = req[h].op
        BY <2>1 DEF Request, Calls
    <2> QED
        BY <1>1, <2>2 DEF Moves, StorageInv, TypeOK
<1>5. CASE ListForZip(h)
    <2>1. ListPhotosByEvent(req[h].event) \in SUBSET Photo
        BY DEF ListPhotosByEvent, StorageInv, TypeOK
    <2>2. Answer(h, 500) => Moves(h) /\ req'[h].op = req[h].op
        BY MovesAsBefore, StatusesOf
    <2> QED
        BY <1>1, <1>4, <1>5, <2>1, <2>2 DEF ListForZip
<1>6. CASE ZipNext(h)
    <2>1. req[h] \in Request /\ req[h].pc = "open"
        BY <1>6 DEF ZipNext, At, StorageInv, TypeOK
    <2>2. Answer(h, 200) => Moves(h) /\ req'[h].op = req[h].op
        BY MovesAsBefore, StatusesOf
    <2>3. ASSUME NEW p, req' = [req EXCEPT ![h].rows = @ \ {p}]
          PROVE  \E rows \in SUBSET Photo : req' =
                     [req EXCEPT ![h] = [@ EXCEPT !.pc = "open", !.rows = rows]]
        <3> DEFINE rows == req[h].rows \ {p}
        <3>1. rows \in SUBSET Photo
            BY <2>1 DEF Request
        <3>2. [req[h] EXCEPT !.rows = rows]
                 = [req[h] EXCEPT !.pc = "open", !.rows = rows]
            BY <2>1 DEF Request
        <3>3. req' = [req EXCEPT ![h] = [@ EXCEPT !.pc = "open", !.rows = rows]]
            BY <2>3, <3>2
        <3> HIDE DEF rows
        <3> QED
            BY <3>1, <3>3
    <2> QED
        BY <1>1, <1>4, <1>6, <2>2, <2>3 DEF ZipNext
<1> QED
    BY <1>2, <1>3, <1>5, <1>6

LEMMA ArriveStarts ==
    ASSUME StorageInv, LockInv, NEW h \in Handlers, Arrive(h)
    PROVE  \A g \in Handlers : StartInv(g)'
<1>1. PICK op \in Ops, c \in Captures \cup {NoCapture},
           id \in {p.id : p \in photos} \cup {NoPhoto} : Receive(h, op, c, id)
    BY DEF Arrive, Ops
<1>2. id \in PhotoIds \cup {NoPhoto}
    BY DEF StorageInv, TypeOK, Photo
<1> DEFINE r == [Idle EXCEPT !.op = op, !.pc = "load", !.client = c, !.id = id]
<1>3. r \in Request
    BY <1>2, IdleIsRequest DEF Request, Calls
<1>4. Moves(h) /\ req'[h] = r
    BY <1>1, <1>3 DEF Receive, Moves, StorageInv, TypeOK
<1>5. req'[h].op = op /\ req'[h].pc = "load" /\ req'[h].event = 0
    BY <1>4 DEF Idle
<1>6. StartInv(h)'
    BY <1>1, <1>5 DEF StartInv, Receive
<1> QED
    BY <1>1, <1>4, <1>6, QuietStarts DEF Receive, stored

LEMMA LoadEventStarts ==
    ASSUME StorageInv, LockInv, NEW h \in Handlers, LoadEvent(h)
    PROVE  \A g \in Handlers : StartInv(g)'
<1>1. /\ UNCHANGED <<now, events, activeEvent>> /\ req[h].pc = "load"
      /\ req[h] \in Request /\ StartInv(h)
    BY DEF LoadEvent, stored, StorageInv, TypeOK, LockInv
<1>2. CASE \E status \in {400, 404, 500} : Answer(h, status)
    BY <1>1, <1>2, StatusesOf, StartsAfterAnswer
<1>3. CASE CurrentEvent = 0 /\ req[h].op = "create" /\ Goto(h, "check")
    <2>1. Moves(h) /\ req'[h] = [req[h] EXCEPT !.pc = "check"]
        BY <1>3, GotoMoves DEF StorageInv, Calls
    <2>2. /\ req'[h].op = "create" /\ req'[h].pc = "check"
          /\ req'[h].event = req[h].event
        BY <1>1, <1>3, <2>1 DEF Request
    <2>3. StartInv(h)'
        BY <1>1, <1>3, <2>2 DEF StartInv, CurrentEvent
    <2> QED
        BY <1>1, <2>1, <2>3, QuietStarts
<1>4. CASE /\ CurrentEvent # 0
           /\ req' = [req EXCEPT ![h] = [@ EXCEPT !.pc = "check",
                                                  !.event = CurrentEvent]]
    <2> DEFINE r == [req[h] EXCEPT !.pc = "check", !.event = CurrentEvent]
    <2>1. CurrentEvent \in 0..MaxEvents
        BY <1>4, TimeAssumption DEF CurrentEvent, StorageInv, TypeOK
    <2>2. r \in Request
        BY <1>1, <2>1 DEF Request, Calls
    <2>3. Moves(h) /\ req'[h] = r
        BY <1>4, <2>2 DEF Moves, StorageInv, TypeOK
    <2>4. /\ req'[h].op = req[h].op /\ req'[h].pc = "check"
          /\ req'[h].event = CurrentEvent
        BY <1>1, <2>3 DEF Request
    <2>5. StartInv(h)'
        BY <1>1, <2>4 DEF StartInv, CurrentEvent
    <2> QED
        BY <1>1, <2>3, <2>5, QuietStarts
<1> QED
    BY <1>2, <1>3, <1>4 DEF LoadEvent

LEMMA FinishStarts ==
    ASSUME StorageInv, LockInv, NEW h \in Handlers, Finish(h)
    PROVE  \A g \in Handlers : StartInv(g)'
<1>1. Moves(h) /\ req'[h] = Idle
    BY IdleIsRequest DEF Finish, Moves, StorageInv, TypeOK
<1>2. req'[h].op # "create" /\ UNCHANGED <<now, events, activeEvent>>
    BY <1>1 DEF Idle, Finish, stored
<1> QED
    BY <1>1, <1>2, OthersStarts

LEMMA CheckNoneRunningStarts ==
    ASSUME StorageInv, LockInv, NEW h \in Handlers, CheckNoneRunning(h)
    PROVE  \A g \in Handlers : StartInv(g)'
<1>1. /\ UNCHANGED <<now, events, activeEvent>> /\ At(h, "create", "check")
      /\ req[h] \in Request /\ StartInv(h)
    BY DEF CheckNoneRunning, stored, StorageInv, TypeOK, LockInv
<1>2. CASE Answer(h, 409)
    BY <1>1, <1>2, StatusesOf, StartsAfterAnswer
<1>3. CASE (req[h].event = 0 \/ IsOver(req[h].event)) /\ Goto(h, "insert")
    <2>1. Moves(h) /\ req'[h] = [req[h] EXCEPT !.pc = "insert"]
        BY <1>3, GotoMoves DEF StorageInv, Calls
    <2>2. /\ req'[h].op = "create" /\ req'[h].pc = "insert"
          /\ req'[h].event = req[h].event
        BY <1>1, <2>1 DEF Request, At
    <2>3. StartInv(h)'
        BY <1>1, <1>3, <2>2 DEF StartInv, CurrentEvent, IsOver, At
    <2> QED
        BY <1>1, <2>1, <2>3, QuietStarts
<1> QED
    BY <1>2, <1>3 DEF CheckNoneRunning

(* Only here is one starter needed: no other start is under way, whose      *)
(* check this insert would make stale.                                      *)
LEMMA OnlyStart ==
    ASSUME OneStarter, LockInv, NEW h \in Handlers, Moves(h),
           req[h].op = "create", StartInv(h)'
    PROVE  \A g \in Handlers : StartInv(g)'
<1>1. h \in Starters
    BY DEF LockInv, StartInv
<1>2. \A g \in Handlers \ {h} : req'[g] = req[g] /\ req[g].op # "create"
    BY <1>1 DEF OneStarter, LockInv, StartInv, Moves
<1> QED
    BY <1>2 DEF StartInv

LEMMA CreateEventStarts ==
    ASSUME OneStarter, StorageInv, LockInv, NEW h \in Handlers, CreateEvent(h)
    PROVE  \A g \in Handlers : StartInv(g)'
<1>1. req[h] \in Request /\ StartInv(h) /\ req[h].op = "create"
    BY DEF CreateEvent, At, StorageInv, TypeOK, LockInv
<1>2. CASE Answer(h, 500)
    <2>1. TypeOK /\ 500 \in Statuses /\ req[h].op = "create"
        BY <1>1, StatusesOf DEF StorageInv, At
    <2>2. /\ Moves(h) /\ req'[h].op = "create" /\ req'[h].pc = "done"
          /\ req'[h].status = 500
        BY <1>2, <2>1, AnswerEnds
    <2>3. StartInv(h)'
        BY <1>1, <2>1, <2>2 DEF StartInv
    <2> QED
        BY <1>1, <2>1, <2>2, <2>3, OnlyStart
<1>3. CASE /\ Len(events) < MaxEvents
           /\ \E t \in 0..MaxTime : events' = Append(events, t)
           /\ req' = [req EXCEPT ![h] = [@ EXCEPT !.pc = "setActive",
                                                  !.event = Len(events) + 1]]
    <2> DEFINE e == Len(events) + 1
               r == [req[h] EXCEPT !.pc = "setActive", !.event = e]
    <2>1. e \in 0..MaxEvents /\ e = Len(events')
        BY <1>3, TimeAssumption DEF StorageInv, TypeOK
    <2>2. req' = [req EXCEPT ![h] = r]
        BY <1>3
    <2>3. r \in Request /\ r.op = "create" /\ r.pc = "setActive" /\ r.event = e
        <3> HIDE DEF e
        <3> QED
            BY <1>1, <2>1 DEF Request, Calls
    <2> HIDE DEF r
    <2>4. Moves(h) /\ req'[h] = r
        BY <2>2, <2>3 DEF Moves, StorageInv, TypeOK
    <2>5. StartInv(h)'
        BY <1>1, <2>1, <2>3, <2>4 DEF StartInv, CurrentEvent
    <2> QED
        BY <1>1, <2>4, <2>5, OnlyStart
<1> QED
    BY <1>2, <1>3 DEF CreateEvent

LEMMA SetActiveEventStarts ==
    ASSUME OneStarter, StorageInv, LockInv, NEW h \in Handlers,
           SetActiveEvent(h)
    PROVE  \A g \in Handlers : StartInv(g)'
<1>1. /\ req[h] \in Request /\ StartInv(h) /\ At(h, "create", "setActive")
      /\ events' = events
    BY DEF SetActiveEvent, StorageInv, TypeOK, LockInv
<1>2. CASE Answer(h, 500)
    <2>1. TypeOK /\ 500 \in Statuses /\ req[h].op = "create"
        BY <1>1, StatusesOf DEF StorageInv, At
    <2>2. /\ Moves(h) /\ req'[h].op = "create" /\ req'[h].pc = "done"
          /\ req'[h].status = 500
        BY <1>2, <2>1, AnswerEnds
    <2>3. StartInv(h)'
        BY <1>1, <2>1, <2>2 DEF StartInv
    <2> QED
        BY <1>1, <2>1, <2>2, <2>3, OnlyStart
<1>3. CASE activeEvent' = req[h].event /\ AnswerEvent(h, 201)
    <2>1. TypeOK /\ 201 \in Statuses
        BY StatusesOf DEF StorageInv
    <2>2. /\ Moves(h)
          /\ req'[h] = [Idle EXCEPT !.op = req[h].op, !.pc = "done",
                                    !.status = 201, !.event = req[h].event]
        BY <1>3, <2>1, AnswerEventMoves, Zenon
    <2>3. /\ req'[h].op = "create" /\ req'[h].pc = "done"
          /\ req'[h].event = req[h].event
        BY <1>1, <2>2 DEF Idle, At
    <2>4. StartInv(h)'
        BY <1>1, <1>3, <2>3 DEF StartInv, CurrentEvent, At
    <2> QED
        BY <1>1, <2>2, <2>4, OnlyStart DEF At
<1> QED
    BY <1>2, <1>3 DEF SetActiveEvent

LEMMA StartsStep ==
    ASSUME OneStarter, StorageInv, AlbumInv, LockInv, [Next]_vars
    PROVE  \A g \in Handlers : StartInv(g)'
<1>1. CASE Tick
    <2>1. /\ UNCHANGED <<events, activeEvent, req>>
          /\ now \in Nat /\ now' = now + 1
        BY <1>1, NowIsNat DEF Tick, stored
    <2>2. \A g \in Handlers : req[g].op = "create" /\ req[g].pc = "insert"
              => req[g].event = 0 \/ req[g].event \in 1..Len(events)
        BY NowIsNat DEF LockInv, StartInv, CurrentEvent
    <2>3. Grows
        BY <1>1, TickGrows
    <2> QED
        BY <2>1, <2>2, <2>3, OverStaysOver DEF LockInv, StartInv, CurrentEvent
<1>2. CASE Crash
    <2>1. \A g \in Handlers : req'[g].op = "none"
        BY <1>2 DEF Crash, Idle
    <2> QED
        BY <2>1 DEF StartInv
<1>3. CASE UNCHANGED vars
    BY <1>3 DEF vars, LockInv, StartInv, CurrentEvent, IsOver
<1>4. ASSUME NEW h \in Handlers, Serve(h)
      PROVE  \A g \in Handlers : StartInv(g)'
    <2>1. CASE \/ CheckRunning(h) \/ FindDuplicate(h) \/ PutPhoto(h)
               \/ PutThumb(h) \/ CreatePhoto(h) \/ ResolveRace(h)
        BY <2>1, UploadMoves, OthersStarts
    <2>2. CASE \/ CheckUnlocked(h) \/ List(h) \/ FindOriginal(h)
               \/ OpenOriginal(h) \/ ListForZip(h) \/ ZipNext(h) \/ ZipEnd(h)
        BY <2>2, ReaderMoves, OthersStarts DEF Reading
    <2> QED
        BY <1>4, <2>1, <2>2, ArriveStarts, LoadEventStarts, FinishStarts,
           CheckNoneRunningStarts, CreateEventStarts, SetActiveEventStarts
           DEF Serve
<1> QED
    BY <1>1, <1>2, <1>3, <1>4 DEF Next

LEMMA InitLockInv == Init => LockInv
<1> SUFFICES ASSUME Init PROVE LockInv
    OBVIOUS
<1>1. \A h \in Handlers : req[h].op = "none"
    BY DEF Init, Idle
<1> QED
    BY <1>1 DEF Init, LockInv, OlderEventsAreOver, Sealed, StartInv,
           CurrentEvent

LEMMA LockIsInvariant ==
    ASSUME OneStarter
    PROVE  Spec => [](StorageInv /\ AlbumInv /\ LockInv)
<1>1. StorageInv /\ AlbumInv /\ LockInv /\ [Next]_vars
          => (StorageInv /\ AlbumInv /\ LockInv)'
    BY NextStorageInv, NextAlbumInv, SealedStep, OlderStep, StartsStep
       DEF LockInv
<1> QED
    BY <1>1, InitStorageInv, InitAlbumInv, InitLockInv, PTL DEF Spec

(* As long as starts do not overlap, no picture leaves the server before    *)
(* its own event is over.                                                   *)
THEOREM LockHolds == OneStarter => (Spec => []Sealed)
<1> SUFFICES ASSUME OneStarter PROVE Spec => []Sealed
    OBVIOUS
<1>1. LockInv => Sealed
    BY DEF LockInv
<1> QED
    BY <1>1, LockIsInvariant, PTL

(* As long as starts do not overlap, only the current event is running.     *)
THEOREM OneEventRuns == OneStarter => (Spec => []OlderEventsAreOver)
<1> SUFFICES ASSUME OneStarter PROVE Spec => []OlderEventsAreOver
    OBVIOUS
<1>1. LockInv => OlderEventsAreOver
    BY DEF LockInv
<1> QED
    BY <1>1, LockIsInvariant, PTL

(* As long as starts do not overlap, the event of a 201 is the current one  *)
(* and the creator's active one.                                            *)
THEOREM StartsActivate == OneStarter => (Spec => []StartedIsActive)
<1> SUFFICES ASSUME OneStarter PROVE Spec => []StartedIsActive
    OBVIOUS
<1>1. LockInv => StartedIsActive
    BY DEF LockInv, StartInv, StartedIsActive, Answered
<1> QED
    BY <1>1, LockIsInvariant, PTL

-----------------------------------------------------------------------------
(* The handlers implement SealedAlbum, for any number of handlers,          *)
(* captures, ids, instants and events, as long as starts do not overlap.    *)
(* Under the mapping of PhotoServer a start is the insert of the events     *)
(* row, a capture is kept by the insert of its photos row, pictures are     *)
(* shown where bytes or signed URLs leave, and every other step stutters.   *)

Kept(rows) == {<<p.event, p.client>> : p \in rows}

ShownNow == {q \in photos : q.id \in revealed}

(* The kinds of steps there are, as far as the promise can tell. *)
StartsOne ==
    /\ Len(events) < MaxEvents
    /\ \A e \in 1..Len(events) : IsOver(e)
    /\ \E t \in 0..MaxTime : events' = Append(events, t)
    /\ UNCHANGED <<now, photos, revealed>>

KeepsOne ==
    /\ \E p \in Photo :
          /\ p.event \in 1..Len(events)
          /\ \A q \in photos : q.event # p.event \/ q.client # p.client
          /\ p.id \notin revealed
          /\ photos' = photos \cup {p}
    /\ UNCHANGED <<now, events, revealed>>

ShowsSome ==
    /\ revealed \subseteq revealed'
    /\ UNCHANGED <<now, events, photos>>

LEMMA CreateEventKind ==
    ASSUME StorageInv, AlbumInv, LockInv, NEW h \in Handlers, CreateEvent(h)
    PROVE  StartsOne \/ ShowsSome
<1>1. UNCHANGED <<now, photos, revealed>>
    BY DEF CreateEvent
<1>2. CASE events' = events
    BY <1>1, <1>2 DEF ShowsSome
<1>3. CASE Len(events) < MaxEvents /\ \E t \in 0..MaxTime : events' = Append(events, t)
    <2>1. Grows
        BY CreateEventGrows
    <2>2. Len(events) = 0 \/ IsOver(Len(events))
        BY DEF CreateEvent, At, LockInv, StartInv, CurrentEvent
    <2>3. \A e \in 1..Len(events) : IsOver(e)
        BY <2>1, <2>2, OverNeverStops, NowIsNat
    <2> QED
        BY <1>1, <1>3, <2>3 DEF StartsOne
<1> QED
    BY <1>2, <1>3 DEF CreateEvent

LEMMA CreatePhotoKind ==
    ASSUME StorageInv, AlbumInv, LockInv, NEW h \in Handlers, CreatePhoto(h)
    PROVE  KeepsOne \/ ShowsSome
<1> DEFINE row == [id |-> req[h].id, event |-> req[h].event,
                   client |-> req[h].client]
<1>1. UNCHANGED <<now, events, revealed>> /\ InFlight(h)
    BY DEF CreatePhoto, At, InFlight
<1>2. CASE photos' = photos
    BY <1>1, <1>2 DEF ShowsSome
<1>3. CASE /\ FindPhotoByClientId(row.event, row.client) = {}
           /\ photos' = photos \cup {row}
    <2>1. /\ req[h].id \in PhotoIds /\ req[h].event \in 1..Len(events)
          /\ req[h].event \in 1..MaxEvents /\ req[h].client \in Captures
        BY NowIsNat, TimeAssumption
           DEF CreatePhoto, At, StorageInv, HandlerInv, UploadInv, TypeOK
    <2>2. PICK p : p = row
        OBVIOUS
    <2>3. /\ p \in Photo /\ p.event \in 1..Len(events)
          /\ p.id = req[h].id /\ p.event = req[h].event
          /\ p.client = req[h].client /\ photos' = photos \cup {p}
        BY <1>3, <2>1, <2>2 DEF Photo
    <2>4. \A q \in photos : q.event # p.event \/ q.client # p.client
        BY <1>3, <2>2 DEF FindPhotoByClientId
    <2>5. p.id \notin revealed
        BY <1>1, <2>3 DEF AlbumInv, RevealedAreRows, InFlightIsFresh
    <2> QED
        BY <1>1, <2>3, <2>4, <2>5 DEF KeepsOne
<1> QED
    BY <1>2, <1>3 DEF CreatePhoto

LEMMA StepKinds ==
    ASSUME StorageInv, AlbumInv, LockInv, [Next]_vars
    PROVE  Tick \/ StartsOne \/ KeepsOne \/ ShowsSome
<1>1. Crash \/ UNCHANGED vars => ShowsSome
    BY DEF Crash, vars, stored, ShowsSome
<1>2. ASSUME NEW h \in Handlers, Serve(h)
      PROVE  StartsOne \/ KeepsOne \/ ShowsSome
    <2>1. Arrive(h) \/ LoadEvent(h) \/ Finish(h) => ShowsSome
        BY DEF Arrive, Receive, LoadEvent, Finish, stored, ShowsSome
    <2>2. CheckNoneRunning(h) \/ SetActiveEvent(h) => ShowsSome
        BY DEF CheckNoneRunning, SetActiveEvent, stored, ShowsSome
    <2>3. CheckRunning(h) \/ FindDuplicate(h) \/ PutPhoto(h) \/ PutThumb(h)
             \/ ResolveRace(h) => ShowsSome
        BY DEF CheckRunning, FindDuplicate, PutPhoto, PutThumb, ResolveRace,
               stored, ShowsSome
    <2>4. CheckUnlocked(h) \/ List(h) \/ FindOriginal(h) \/ OpenOriginal(h)
             => ShowsSome
        BY DEF CheckUnlocked, List, FindOriginal, OpenOriginal, stored,
               ShowsSome
    <2>5. ListForZip(h) \/ ZipNext(h) \/ ZipEnd(h) => ShowsSome
        BY DEF ListForZip, ZipNext, ZipEnd, stored, ShowsSome
    <2> QED
        BY <1>2, <2>1, <2>2, <2>3, <2>4, <2>5, CreateEventKind,
           CreatePhotoKind DEF Serve
<1> QED
    BY <1>1, <1>2 DEF Next

-----------------------------------------------------------------------------
(* Each kind is a step of SealedAlbum, or a stutter *)

LEMMA TickIsTick ==
    ASSUME Tick
    PROVE  Promise!Tick
BY DEF Tick, stored, Promise!Tick

LEMMA StartIsStart ==
    ASSUME StorageInv, StartsOne
    PROVE  Promise!Start
<1>1. \A e \in DOMAIN events : events[e] <= now
    BY DEF StartsOne, IsOver, StorageInv, TypeOK
<1> QED
    BY <1>1 DEF StartsOne, Promise!Start, Promise!Over

LEMMA KeepIsKeep ==
    ASSUME StorageInv, KeepsOne
    PROVE  Promise!Keep
<1>1. PICK p \in Photo :
          /\ p.event \in 1..Len(events)
          /\ \A q \in photos : q.event # p.event \/ q.client # p.client
          /\ p.id \notin revealed
          /\ photos' = photos \cup {p}
    BY DEF KeepsOne
<1>2. p.event \in DOMAIN events /\ p.client \in Captures
    BY <1>1 DEF Photo, StorageInv, TypeOK
<1>3. <<p.event, p.client>> \notin Kept(photos)
    BY <1>1 DEF Kept
<1>4. Kept(photos)' = Kept(photos) \cup {<<p.event, p.client>>}
    BY <1>1 DEF Kept
<1>5. ShownNow' = ShownNow
    BY <1>1 DEF KeepsOne, ShownNow
<1>6. Kept(ShownNow)' = Kept(ShownNow)
    BY <1>5 DEF Kept
<1> QED
    BY <1>2, <1>3, <1>4, <1>6 DEF KeepsOne, Promise!Keep, Kept, ShownNow

LEMMA ShowIsShow ==
    ASSUME ShowsSome, Sealed'
    PROVE  Promise!Show
<1>1. Kept(photos)' = Kept(photos) /\ ShownNow \subseteq ShownNow'
    BY DEF ShowsSome, ShownNow, Kept
<1>2. /\ Kept(ShownNow)' \in SUBSET Kept(photos)
      /\ Kept(ShownNow) \subseteq Kept(ShownNow)'
    BY <1>1 DEF Kept, ShownNow, ShowsSome
<1>3. \A k \in Kept(ShownNow)' : events[k[1]] <= now
    BY DEF ShowsSome, Kept, ShownNow, Sealed, IsOver
<1> QED
    BY <1>1, <1>2, <1>3
       DEF ShowsSome, Promise!Show, Promise!Over, Kept, ShownNow

(* As long as starts do not overlap, the handlers keep the whole promise:   *)
(* whatever they, the database, the bucket and the clock do between two of  *)
(* their calls is a step of SealedAlbum or changes nothing it speaks of.    *)
THEOREM PromiseKept == OneStarter => (Spec => KeepsPromise)
<1> SUFFICES ASSUME OneStarter PROVE Spec => KeepsPromise
    OBVIOUS
<1>1. Init => Promise!Init
    BY DEF Init, Promise!Init
<1>2. ASSUME StorageInv, AlbumInv, LockInv, [Next]_vars
      PROVE  Promise!Next
    <2>1. Tick \/ StartsOne \/ KeepsOne \/ ShowsSome
        BY <1>2, StepKinds
    <2>2. Sealed'
        BY <1>2, SealedStep
    <2> QED
        BY <1>2, <2>1, <2>2, TickIsTick, StartIsStart, KeepIsKeep, ShowIsShow
           DEF Promise!Next
<1>3. StorageInv /\ AlbumInv /\ LockInv /\ [Next]_vars
          => [Promise!Next]_(Promise!vars)
    BY <1>2
<1> QED
    BY <1>1, <1>3, LockIsInvariant, PTL DEF Spec, KeepsPromise, Promise!Spec
=============================================================================
