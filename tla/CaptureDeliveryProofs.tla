----------------------- MODULE CaptureDeliveryProofs -----------------------
(* What phone and server owe each other, proved for any number of tabs,     *)
(* handlers, captures and events: the handlers are the server that the      *)
(* queue of a phone takes for granted, so what CaptureQueueProofs proves of *)
(* the queue alone holds of the two together; and the phones are clients    *)
(* that PhotoServer allows.                                                 *)
EXTENDS CaptureDelivery, PhotoServerLockProofs, Integers

QP == INSTANCE CaptureQueueProofs WITH
    event <- Newest, over <- NewestIsOver, kept <- Rows

-----------------------------------------------------------------------------
(* The queue of the model and the queue of its theorems are two instances   *)
(* of one module.  Only their definitions say so, operator by operator.     *)

LEMMA SameData ==
    /\ Queue!Stored = QP!Stored /\ Queue!Pending = QP!Pending
    /\ Queue!Due = QP!Due /\ Queue!Counts = QP!Counts
    /\ \A u : /\ Queue!Asked(u) = QP!Asked(u) /\ Queue!Thrown(u) = QP!Thrown(u)
              /\ Queue!GoneOn(u) = QP!GoneOn(u)
              /\ Queue!GivesUp(u) <=> QP!GivesUp(u)
    /\ \A u, pc : Queue!Answered(u, pc) = QP!Answered(u, pc)
<1>1. Queue!Stored = QP!Stored
    BY Zenon DEF Queue!Stored, QP!Stored, Queue!Absent, QP!Absent
<1>2. Queue!Pending = QP!Pending
    BY <1>1, Zenon DEF Queue!Pending, QP!Pending
<1>3. Queue!Due = QP!Due
    BY <1>2, Zenon DEF Queue!Due, QP!Due
<1>4. Queue!Counts = QP!Counts
    BY <1>1, <1>2, Zenon DEF Queue!Counts, QP!Counts,
           Queue!Cardinality, QP!Cardinality
<1>5. \A u : Queue!Asked(u) = QP!Asked(u) /\ Queue!Thrown(u) = QP!Thrown(u)
    BY Zenon DEF Queue!Asked, QP!Asked, Queue!Thrown, QP!Thrown
<1>6. \A u : Queue!GoneOn(u) = QP!GoneOn(u)
    BY Zenon DEF Queue!GoneOn, QP!GoneOn, Queue!Sending, QP!Sending,
                 Queue!LoopLeft, QP!LoopLeft
<1>7. \A u : Queue!GivesUp(u) <=> QP!GivesUp(u)
    BY Zenon DEF Queue!GivesUp, QP!GivesUp, Queue!Lesser, QP!Lesser,
                 Queue!First, QP!First, Queue!Never, QP!Never
<1>8. \A u, pc : Queue!Answered(u, pc) = QP!Answered(u, pc)
    BY Zenon DEF Queue!Answered, QP!Answered, Queue!Begin, QP!Begin
<1> QED
    BY <1>1, <1>2, <1>3, <1>4, <1>5, <1>6, <1>7, <1>8, Zenon

LEMMA SameNext == Queue!Next <=> QP!Next
<1>1. Queue!Tick <=> QP!Tick
    BY SameData, Zenon DEF Queue!Tick, QP!Tick, Queue!Sooner, QP!Sooner,
       Queue!Absent, QP!Absent, Queue!server, QP!server, Queue!history,
       QP!history
<1>2. Queue!EndEvent <=> QP!EndEvent
    BY SameData, Zenon DEF Queue!EndEvent, QP!EndEvent, Queue!history,
       QP!history
<1>3. Queue!NextEvent <=> QP!NextEvent
    BY SameData, Zenon DEF Queue!NextEvent, QP!NextEvent, Queue!history,
       QP!history
<1>4. Queue!StoreLate <=> QP!StoreLate
    BY SameData, Zenon DEF Queue!StoreLate, QP!StoreLate, Queue!Spent,
       QP!Spent, Queue!Never, QP!Never, Queue!history, QP!history
<1>5. \A t, c : Queue!Enqueue(t, c) <=> QP!Enqueue(t, c)
    BY SameData, Zenon DEF Queue!Enqueue, QP!Enqueue, Queue!Becomes,
       QP!Becomes, Queue!Fails, QP!Fails, Queue!server, QP!server
<1>6. \A t, c : Queue!EnqueueCounts(t, c) <=> QP!EnqueueCounts(t, c)
    BY SameData, Zenon DEF Queue!EnqueueCounts, QP!EnqueueCounts,
       Queue!Becomes, QP!Becomes, Queue!Fails, QP!Fails, Queue!server,
       QP!server, Queue!history, QP!history
<1>7. \A t : Queue!ReadDue(t) <=> QP!ReadDue(t)
    BY SameData, Zenon DEF Queue!ReadDue, QP!ReadDue, Queue!Becomes,
       QP!Becomes, Queue!Fails, QP!Fails, Queue!server, QP!server,
       Queue!history, QP!history
<1>8. \A t : Queue!Remove(t) <=> QP!Remove(t)
    BY SameData, Zenon DEF Queue!Remove, QP!Remove, Queue!Absent,
       QP!Absent, Queue!Becomes, QP!Becomes, Queue!Fails, QP!Fails,
       Queue!server, QP!server, Queue!history, QP!history
<1>9. \A t : Queue!Drop(t) <=> QP!Drop(t)
    BY SameData, Zenon DEF Queue!Drop, QP!Drop, Queue!Absent, QP!Absent,
       Queue!Becomes, QP!Becomes, Queue!Fails, QP!Fails, Queue!server,
       QP!server, Queue!history, QP!history
<1>10. \A t, failed : Queue!PutBack(t, failed) <=> QP!PutBack(t, failed)
    BY SameData, Zenon DEF Queue!PutBack, QP!PutBack, Queue!Lesser,
       QP!Lesser, Queue!Backoff, QP!Backoff, Queue!Becomes, QP!Becomes,
       Queue!Fails, QP!Fails, Queue!server, QP!server, Queue!history,
       QP!history
<1>11. \A t : Queue!RefreshCounts(t) <=> QP!RefreshCounts(t)
    BY SameData, Zenon DEF Queue!RefreshCounts, QP!RefreshCounts,
       Queue!Becomes, QP!Becomes, Queue!Off, QP!Off, Queue!Fails,
       QP!Fails, Queue!server, QP!server, Queue!history, QP!history
<1>12. \A t : Queue!ScheduleNextRetry(t) <=> QP!ScheduleNextRetry(t)
    BY SameData, Zenon DEF Queue!ScheduleNextRetry,
       QP!ScheduleNextRetry, Queue!Soonest, QP!Soonest, Queue!Off,
       QP!Off, Queue!Becomes, QP!Becomes, Queue!Fails, QP!Fails,
       Queue!server, QP!server, Queue!history, QP!history
<1>13. \A t : Queue!Start(t) <=> QP!Start(t)
    BY SameData, Zenon DEF Queue!Start, QP!Start, Queue!Becomes,
       QP!Becomes, Queue!server, QP!server, Queue!history, QP!history
<1>14. \A t : Queue!Stop(t) <=> QP!Stop(t)
    BY SameData, Zenon DEF Queue!Stop, QP!Stop, Queue!Becomes,
       QP!Becomes, Queue!Off, QP!Off, Queue!server, QP!server,
       Queue!history, QP!history
<1>15. \A t : Queue!Reload(t) <=> QP!Reload(t)
    BY SameData, Zenon DEF Queue!Reload, QP!Reload, Queue!Fresh,
       QP!Fresh, Queue!Begin, QP!Begin, Queue!Off, QP!Off,
       Queue!Becomes, QP!Becomes, Queue!history, QP!history
<1>16. \A t, c : Queue!Shoot(t, c) <=> QP!Shoot(t, c)
    BY SameData, Zenon DEF Queue!Shoot, QP!Shoot, Queue!Becomes,
       QP!Becomes, Queue!server, QP!server
<1>17. \A t : Queue!Trigger(t) <=> QP!Trigger(t)
    BY SameData, Zenon DEF Queue!Trigger, QP!Trigger, Queue!Becomes,
       QP!Becomes, Queue!server, QP!server, Queue!history, QP!history
<1>18. \A t : Queue!RetryTimer(t) <=> QP!RetryTimer(t)
    BY SameData, Zenon DEF Queue!RetryTimer, QP!RetryTimer,
       Queue!Becomes, QP!Becomes, Queue!Off, QP!Off, Queue!server,
       QP!server, Queue!history, QP!history
<1>19. \A t : Queue!Store(t) <=> QP!Store(t)
    BY SameData, Zenon DEF Queue!Store, QP!Store, Queue!First, QP!First,
       Queue!Becomes, QP!Becomes, Queue!history, QP!history
<1>20. \A t : Queue!Reply(t) <=> QP!Reply(t)
    BY SameData, Zenon DEF Queue!Reply, QP!Reply, Queue!Refuses,
       QP!Refuses, Queue!Becomes, QP!Becomes, Queue!First, QP!First,
       Queue!server, QP!server, Queue!history, QP!history
<1>21. \A t : Queue!NoReply(t) <=> QP!NoReply(t)
    BY SameData, Zenon DEF Queue!NoReply, QP!NoReply, Queue!Becomes,
       QP!Becomes, Queue!history, QP!history
<1> QED
    BY <1>1, <1>2, <1>3, <1>4, <1>5, <1>6, <1>7, <1>8, <1>9, <1>10,
       <1>11, <1>12, <1>13, <1>14, <1>15, <1>16, <1>17, <1>18, <1>19,
       <1>20, <1>21, Zenon DEF Queue!Next, QP!Next, Queue!Run, QP!Run,
       Queue!User, QP!User, Queue!Settle, QP!Settle, Queue!MarkFailed,
       QP!MarkFailed, Queue!Retry, QP!Retry

LEMMA SameInit == Queue!Init <=> QP!Init
    BY Zenon DEF Queue!Init, QP!Init, Queue!Never, QP!Never,
       Queue!Absent, QP!Absent, Queue!Fresh, QP!Fresh, Queue!Begin,
       QP!Begin, Queue!Off, QP!Off

LEMMA SameVars == Queue!vars = QP!vars
    BY Zenon DEF Queue!vars, QP!vars

LEMMA SameTypes == Queue!TypeOK <=> QP!TypeOK
    BY Zenon DEF Queue!TypeOK, QP!TypeOK, Queue!Never, QP!Never,
       Queue!Item, QP!Item, Queue!Absent, QP!Absent, Queue!Uploader,
       QP!Uploader, Queue!Steps, QP!Steps, Queue!Todos, QP!Todos,
       Queue!Items, QP!Items, Queue!Tries, QP!Tries, Queue!Times, QP!Times,
       Queue!Timers, QP!Timers, Queue!Off, QP!Off, Queue!Shown, QP!Shown

(* CaptureQueue's theorems hold here: what it assumes of its constants is   *)
(* assumed of these.                                                        *)
LEMMA QueueLemmas ==
    /\ QP!Init => QP!QueueInv
    /\ QP!QueueInv /\ [QP!Next]_(QP!vars) => QP!QueueInv'
    /\ QP!Counts \in QP!Shown
    /\ QP!Init => \A t \in Tabs : QP!OneInv(t)
BY QP!InitQueueInv, QP!QueueInvStep, QP!CountsType, QP!InitOne,
   PhonesAssumption, CapturesAssumption, Zenon DEF IsFiniteSet, QP!IsFiniteSet

-----------------------------------------------------------------------------
(* The inductive invariant of the line.  KeepsQueue alone does not say why  *)
(* a row is never stored under too old an event, or why a 423 is due: that  *)
(* is in what a handler has loaded and checked since the request was sent.  *)

(* The events that are over. *)
Past == {e \in 1..Len(events) : IsOver(e)}

(* Event e, with those of "past" over, is loaded no earlier than "sent".    *)
SentBefore(sent, e, past) ==
    sent[1] <= e /\ (sent[2] /\ sent[1] = e => e \in past)

(* An upload that may store from event "first" on may load event e: it      *)
(* either stores under it or finds it over.                                 *)
MayLoad(first, e, past) == first <= e \/ (first = e + 1 /\ e \in past)

(* Handler h serves the request that a tab with the record u waits for. *)
Serves(h, u) ==
    /\ req[h].op = "upload"
    /\ req[h].pc \in {"load", "check", "done"} \cup Admitted
    /\ req[h].pc # "done" => req[h].client = u.item /\ ~u.stored
    /\ req[h].pc = "check" => SentBefore(u.sent, req[h].event, Past)
    /\ req[h].pc \in Admitted => Queue!First(u.sent) <= req[h].event
    /\ req[h].pc = "done" =>
           /\ req[h].status \in {200, 201, 400, 404, 423, 500}
           /\ req[h].status \in {200, 201} =>
                  /\ req[h].client = u.item
                  /\ Queue!First(u.sent) <= req[h].event
           /\ req[h].status = 423 => Queue!Refuses(u.sent)
           /\ req[h].status \in {400, 404, 423} => ~u.stored

LineInv(t) ==
    /\ tab[t].pc # "send" => line[t] = OnItsWay
    /\ line[t] = OnItsWay => ~tab[t].stored
    /\ tab[t].pc = "send" => SentBefore(tab[t].sent, Newest, Past)
    /\ line[t] \in Handlers => Serves(line[t], tab[t])

(* What handler h does for an upload, with "first" the first event that may *)
(* take it.                                                                 *)
Writing == {"find", "putPhoto", "putThumb", "insert"}

Covers(first, h) ==
    /\ req[h].pc = "load" => MayLoad(first, Newest, Past)
    /\ req[h].pc = "check" => MayLoad(first, req[h].event, Past)
    /\ req[h].pc \in Writing => first <= req[h].event

(* What CaptureQueue knows of an upload that nobody waits for.              *)
ForgottenInv(h) == Forgotten(h) => Covers(late[req[h].client], h)

(* Of a capture that has no more than one of them no two handlers do: but   *)
(* for one, they are about to find that no event is left for it.            *)
SoleInv ==
    \A g, h \in Handlers :
        Forgotten(g) /\ Forgotten(h) /\ g # h /\ req[g].client = req[h].client =>
            \/ req[g].client \in several
            \/ Covers(MaxEvents + 1, g) \/ Covers(MaxEvents + 1, h)

(* Who has lost the race for a row finds the winner's.                      *)
RaceInv(h) ==
    req[h].op = "upload" /\ req[h].pc = "resolve" =>
        <<req[h].event, req[h].client>> \in Rows

LinesApart ==
    \A s, t \in Tabs : line[s] \in Handlers /\ line[s] = line[t] => s = t

LateInv ==
    \A c \in Captures : late[c] # Queue!Never => MayLoad(late[c], Newest, Past)

LinkInv ==
    /\ line \in [Tabs -> Handlers \cup {OnItsWay, Broken}]
    /\ \A t \in Tabs : LineInv(t)
    /\ \A h \in Handlers : ForgottenInv(h) /\ RaceInv(h)
    /\ SoleInv
    /\ LinesApart
    /\ LateInv

DeliveryInv == StorageInv /\ AlbumInv /\ QP!QueueInv /\ LinkInv

-----------------------------------------------------------------------------
(* What the phone's variables are *)

LEMMA PhoneTypes ==
    ASSUME QP!QueueInv
    PROVE  /\ late \in [Captures -> 1..(MaxEvents + 1)]
           /\ tab \in [Tabs -> Queue!Uploader]
           /\ written \subseteq Captures
           /\ \A t \in Tabs : tab[t].pc = "send" => tab[t].item \in Captures
           /\ Queue!NothingLost
<1>1. Queue!TypeOK
    BY SameTypes DEF QP!QueueInv
<1>2. \A t \in Tabs : tab[t].pc = "send" => tab[t].item \in Captures
    BY Zenon DEF QP!QueueInv, QP!TabInv, QP!Settling
<1>3. Queue!NothingLost
    BY SameData, Zenon DEF QP!QueueInv, QP!NothingLost, Queue!NothingLost
<1> QED
    BY <1>1, <1>2, <1>3 DEF Queue!TypeOK, Queue!Never

LEMMA TabFields ==
    ASSUME NEW u \in Queue!Uploader
    PROVE  /\ u.pc \in Queue!Steps /\ u.stored \in BOOLEAN
           /\ u.sent[1] \in 1..MaxEvents /\ u.sent[2] \in BOOLEAN
           /\ Queue!First(u.sent) \in 1..(MaxEvents + 1)
<1>1. u.pc \in Queue!Steps /\ u.stored \in BOOLEAN /\ u.sent \in Queue!Times
    BY DEF Queue!Uploader
<1>2. u.sent[1] \in 1..MaxEvents /\ u.sent[2] \in BOOLEAN
    BY <1>1 DEF Queue!Times
<1> QED
    BY <1>1, <1>2, PhonesAssumption DEF Queue!First

LEMMA NewestType ==
    ASSUME StorageInv
    PROVE  /\ Newest \in 1..MaxEvents /\ Len(events) \in 0..MaxEvents
           /\ now \in Nat
           /\ NewestIsOver <=> Newest \in Past
<1>1. now \in Nat /\ Len(events) \in Nat /\ Len(events) <= MaxEvents
    BY TimeAssumption DEF StorageInv, TypeOK
<1> QED
    BY <1>1, PhonesAssumption DEF Newest, NewestIsOver, CurrentEvent, Past

-----------------------------------------------------------------------------
(* Events are added and go by, and what was before stays before *)

LEMMA MayLoadLess ==
    ASSUME NEW first \in Int, NEW less \in Int, less <= first, NEW e \in Int,
           NEW past, NEW more, past \subseteq more, MayLoad(first, e, past)
    PROVE  MayLoad(less, e, more)
BY DEF MayLoad

LEMMA MayLoadLater ==
    ASSUME NEW first \in Int, NEW d \in Int, NEW e \in Int, d <= e,
           NEW past, NEW more, past \subseteq more, MayLoad(first, d, past)
    PROVE  MayLoad(first, e, more)
BY DEF MayLoad

LEMMA SentMayLoad ==
    ASSUME NEW u \in Queue!Uploader, NEW e \in Int, NEW past,
           SentBefore(u.sent, e, past)
    PROVE  MayLoad(Queue!First(u.sent), e, past)
BY TabFields DEF SentBefore, MayLoad, Queue!First

LEMMA SentBeforeLater ==
    ASSUME NEW u \in Queue!Uploader, NEW d \in Int, NEW e \in Int, d <= e,
           NEW past, NEW more, past \subseteq more, SentBefore(u.sent, d, past)
    PROVE  SentBefore(u.sent, e, more)
BY TabFields DEF SentBefore

LEMMA NewestGrows ==
    ASSUME StorageInv, StorageInv', Grows
    PROVE  /\ Newest \in Int /\ Newest' \in Int /\ Newest <= Newest'
           /\ Past \subseteq Past' /\ (NewestIsOver' <=> Newest' \in Past')
<1>1. Len(events) \in Nat /\ Len(events') \in Nat /\ Len(events) <= Len(events')
    BY DEF Grows
<1>2. Past \subseteq Past'
    BY <1>1, OverStaysOver DEF Past
<1>3. Newest \in Int /\ Newest' \in Int /\ Newest <= Newest'
    BY <1>1 DEF Newest, CurrentEvent
<1>4. NewestIsOver' <=> Newest' \in Past'
    BY <1>1 DEF Newest, NewestIsOver, CurrentEvent, Past, IsOver
<1> QED
    BY <1>2, <1>3, <1>4

LEMMA RefusesStays ==
    ASSUME StorageInv, StorageInv', Grows, NEW u \in Queue!Uploader,
           SentBefore(u.sent, Newest, Past), Queue!Refuses(u.sent)
    PROVE  u.sent[2] \/ NewestIsOver' \/ Newest' > u.sent[1]
<1>1. CASE u.sent[2] \/ Newest > u.sent[1]
    BY <1>1, NewestGrows, TabFields
<1>2. CASE NewestIsOver
    <2>1. Newest \in Past /\ u.sent[1] <= Newest
        BY <1>2, NewestType DEF SentBefore
    <2>2. Newest' = Newest => NewestIsOver'
        BY <2>1, NewestGrows
    <2> QED
        BY <2>1, <2>2, NewestGrows, TabFields
<1> QED
    BY <1>1, <1>2 DEF Queue!Refuses

(* What an upload is sent at is the time of now. *)
LEMMA SentNow ==
    ASSUME StorageInv
    PROVE  SentBefore(<<Newest, NewestIsOver>>, Newest, Past)
BY NewestType DEF SentBefore

-----------------------------------------------------------------------------
(* What the steps of a handler are to an upload *)

Same(h) ==
    /\ req'[h].op = "upload"
    /\ req'[h].event = req[h].event /\ req'[h].client = req[h].client

Ends(h, statuses) ==
    req'[h].op = "upload" /\ req'[h].pc = "done" /\ req'[h].status \in statuses

Loads(h) ==
    /\ req[h].pc = "load" /\ req'[h].pc = "check" /\ req'[h].op = "upload"
    /\ req'[h].client = req[h].client
    /\ CurrentEvent # 0 /\ req'[h].event = CurrentEvent

(* The lock is looked at, once. *)
Admits(h) ==
    /\ req[h].pc = "check" /\ req'[h].pc = "find" /\ Same(h)
    /\ ~IsOver(req[h].event)
Locks(h) ==
    req[h].pc = "check" /\ Ends(h, {423}) /\ IsOver(req[h].event)

GoesOn(h) ==
    /\ req[h].pc \in Writing /\ req'[h].pc \in Admitted /\ Same(h)
    /\ req'[h].pc = "resolve" => <<req[h].event, req[h].client>> \in Rows
Succeeds(h) ==
    req[h].pc \in Admitted /\ Ends(h, {200, 201}) /\ Same(h)

UploadStep(h) ==
    /\ req[h].op = "upload"
    /\ req[h].pc \in {"load", "check"} \cup Admitted
    /\ \/ Loads(h) \/ Admits(h) \/ Locks(h) \/ GoesOn(h) \/ Succeeds(h)
       \/ Ends(h, {400, 404, 500})

LEMMA HandlerTypes ==
    ASSUME StorageInv, NEW h \in Handlers
    PROVE  /\ req[h] \in Request /\ req \in [Handlers -> Request]
           /\ req[h].op = "upload" /\ req[h].pc \in {"check"} \cup Admitted =>
                  req[h].event \in 1..Len(events) /\ req[h].client \in Captures
           /\ req[h].op = "upload" /\ req[h].pc \in {"load"} =>
                  req[h].client \in Captures
           /\ UploadInv(h)
BY DEF StorageInv, TypeOK, HandlerInv, UploadInv, Admitted

LEMMA GotoSame ==
    ASSUME StorageInv, NEW h \in Handlers, NEW pc \in Calls, Goto(h, pc),
           req[h].op = "upload"
    PROVE  Moves(h) /\ Same(h) /\ req'[h].pc = pc
<1>1. Moves(h) /\ req'[h] = [req[h] EXCEPT !.pc = pc] /\ req[h] \in Request
    BY GotoMoves DEF StorageInv, TypeOK
<1> QED
    BY <1>1 DEF Same, Request

LEMMA AnswerUpload ==
    ASSUME StorageInv, NEW h \in Handlers, NEW status \in Statuses,
           Answer(h, status), req[h].op = "upload"
    PROVE  Moves(h) /\ Ends(h, {status})
BY AnswerEnds DEF Ends, StorageInv

LEMMA AnswerPhotoUpload ==
    ASSUME StorageInv, NEW h \in Handlers, NEW status \in {200, 201},
           NEW id \in PhotoIds, AnswerPhoto(h, status, id), req[h].op = "upload"
    PROVE  Moves(h) /\ Ends(h, {200, 201}) /\ Same(h)
BY StatusesOf, AnswerPhotoMoves DEF Ends, Same, StorageInv

LEMMA LoadEventUpload ==
    ASSUME StorageInv, NEW h \in Handlers, LoadEvent(h), req[h].op = "upload"
    PROVE  Moves(h) /\ UploadStep(h) /\ UNCHANGED <<now, events, photos>>
<1>1. UNCHANGED <<now, events, photos>> /\ req[h].pc = "load"
    BY DEF LoadEvent, stored
<1>2. CASE Answer(h, 500) \/ Answer(h, 404)
    BY <1>1, <1>2, StatusesOf, AnswerUpload DEF UploadStep, Ends
<1>3. CASE /\ CurrentEvent # 0
           /\ req' = [req EXCEPT ![h] = [@ EXCEPT !.pc = "check",
                                                  !.event = CurrentEvent]]
    <2> DEFINE r == [req[h] EXCEPT !.pc = "check", !.event = CurrentEvent]
    <2>1. req[h] \in Request /\ CurrentEvent \in 0..MaxEvents
        BY HandlerTypes, NewestType DEF CurrentEvent
    <2>2. /\ r \in Request /\ r.pc = "check" /\ r.op = "upload"
          /\ r.client = req[h].client /\ r.event = CurrentEvent
        BY <2>1 DEF Request, Calls
    <2> HIDE DEF r
    <2>3. Moves(h) /\ req'[h] = r
        BY <1>3, <2>2, HandlerTypes DEF Moves, r
    <2> QED
        BY <1>1, <1>3, <2>2, <2>3 DEF UploadStep, Loads
<1> QED
    BY <1>2, <1>3 DEF LoadEvent

LEMMA CheckRunningUpload ==
    ASSUME StorageInv, NEW h \in Handlers, CheckRunning(h)
    PROVE  Moves(h) /\ UploadStep(h) /\ UNCHANGED <<now, events, photos>>
<1>1. /\ UNCHANGED <<now, events, photos>>
      /\ req[h].pc = "check" /\ req[h].op = "upload"
    BY DEF CheckRunning, At, stored
<1>2. CASE IsOver(req[h].event) /\ Answer(h, 423)
    BY <1>1, <1>2, StatusesOf, AnswerUpload DEF UploadStep, Locks
<1>3. CASE ~IsOver(req[h].event) /\ Goto(h, "find")
    BY <1>1, <1>3, GotoSame DEF UploadStep, Admits, Calls
<1>4. CASE Answer(h, 400)
    BY <1>1, <1>4, StatusesOf, AnswerUpload DEF UploadStep, Ends
<1> QED
    BY <1>2, <1>3, <1>4 DEF CheckRunning

LEMMA FoundUpload ==
    ASSUME StorageInv, NEW h \in Handlers, req[h].op = "upload",
           req[h].pc \in Admitted,
           \/ \E p \in FindPhotoByClientId(req[h].event, req[h].client) :
                 AnswerPhoto(h, 200, p.id)
           \/ Answer(h, 500) \/ Answer(h, 400)
           \/ req[h].pc \in Writing /\ Goto(h, "putPhoto")
    PROVE  Moves(h) /\ UploadStep(h)
<1>1. CASE Answer(h, 500) \/ Answer(h, 400)
    BY <1>1, StatusesOf, AnswerUpload DEF UploadStep, Ends
<1>2. CASE req[h].pc \in Writing /\ Goto(h, "putPhoto")
    BY <1>2, GotoSame DEF UploadStep, GoesOn, Calls, Admitted
<1>3. CASE \E p \in FindPhotoByClientId(req[h].event, req[h].client) :
               AnswerPhoto(h, 200, p.id)
    BY <1>3, FoundIds, AnswerPhotoUpload DEF UploadStep, Succeeds
<1> QED
    BY <1>1, <1>2, <1>3

LEMMA PutPhotoUpload ==
    ASSUME StorageInv, NEW h \in Handlers, PutPhoto(h)
    PROVE  Moves(h) /\ UploadStep(h)
<1>1. req[h].pc = "putPhoto" /\ req[h].op = "upload"
    BY DEF PutPhoto, At
<1>2. CASE Answer(h, 500)
    BY <1>1, <1>2, StatusesOf, AnswerUpload DEF UploadStep, Ends, Admitted
<1>3. ASSUME NEW id \in FreshIds,
             req' = [req EXCEPT ![h] = [@ EXCEPT !.pc = "putThumb", !.id = id]]
      PROVE  Moves(h) /\ UploadStep(h)
    <2> DEFINE r == [req[h] EXCEPT !.pc = "putThumb", !.id = id]
    <2>1. req[h] \in Request
        BY HandlerTypes
    <2>2. /\ r \in Request /\ r.pc = "putThumb" /\ r.op = "upload"
          /\ r.client = req[h].client /\ r.event = req[h].event
        BY <1>1, <2>1 DEF Request, Calls, FreshIds
    <2> HIDE DEF r
    <2>3. Moves(h) /\ req'[h] = r
        BY <1>3, <2>2, HandlerTypes DEF Moves, r
    <2> QED
        BY <1>1, <2>2, <2>3 DEF UploadStep, GoesOn, Same, Admitted, Writing
<1> QED
    BY <1>2, <1>3 DEF PutPhoto

LEMMA WorksUpload ==
    ASSUME StorageInv, NEW h \in Handlers, Works(h), req[h].op = "upload"
    PROVE  Moves(h) /\ UploadStep(h) /\ UNCHANGED <<now, events, photos>>
<1>1. ~Receive(h, "create", NoCapture, NoPhoto)
    BY DEF Receive, Idle
<1>2. ~CheckNoneRunning(h) /\ ~CreateEvent(h) /\ ~SetActiveEvent(h)
    BY DEF CheckNoneRunning, CreateEvent, SetActiveEvent, At
<1>3. CASE FindDuplicate(h)
    <2>1. /\ req[h].pc \in Admitted /\ req[h].pc \in Writing
          /\ UNCHANGED <<now, events, photos>>
        BY <1>3 DEF FindDuplicate, At, Admitted, Writing, stored
    <2> QED
        BY <1>3, <2>1, FoundUpload DEF FindDuplicate
<1>4. CASE ResolveRace(h)
    <2>1. req[h].pc \in Admitted /\ UNCHANGED <<now, events, photos>>
        BY <1>4 DEF ResolveRace, At, Admitted, stored
    <2> QED
        BY <1>4, <2>1, FoundUpload DEF ResolveRace
<1>5. CASE PutThumb(h)
    <2>1. /\ req[h].pc = "putThumb" /\ req[h].pc \in Admitted
          /\ UNCHANGED <<now, events, photos>>
        BY <1>5 DEF PutThumb, At, Admitted
    <2>2. Goto(h, "insert") => Moves(h) /\ UploadStep(h)
        BY <2>1, GotoSame DEF UploadStep, GoesOn, Calls, Admitted, Writing
    <2>3. Answer(h, 500) => Moves(h) /\ UploadStep(h)
        BY <2>1, StatusesOf, AnswerUpload DEF UploadStep, Ends
    <2> QED
        BY <1>5, <2>1, <2>2, <2>3 DEF PutThumb
<1>6. CASE PutPhoto(h)
    BY <1>6, PutPhotoUpload DEF PutPhoto
<1> QED
    BY <1>1, <1>2, <1>3, <1>4, <1>5, <1>6, LoadEventUpload, CheckRunningUpload
       DEF Works

(* The insert is the one step that adds a row: under the event the upload   *)
(* was admitted to.                                                         *)
InsertsRow(h) ==
    /\ req[h].event \in 1..Len(events) /\ req[h].client \in Captures
    /\ <<req[h].event, req[h].client>> \notin Rows
    /\ Rows' = Rows \cup {<<req[h].event, req[h].client>>}
    /\ Ends(h, {201, 500})

LEMMA CreatePhotoUpload ==
    ASSUME StorageInv, NEW h \in Handlers, CreatePhoto(h)
    PROVE  /\ Moves(h) /\ UploadStep(h) /\ UNCHANGED <<now, events>>
           /\ req[h].pc = "insert" /\ req'[h].pc \in {"resolve", "done"}
           /\ \/ InsertsRow(h) /\ photos' # photos
              \/ photos' = photos
<1> DEFINE row == [id |-> req[h].id, event |-> req[h].event,
                   client |-> req[h].client]
<1>1. /\ req[h].op = "upload" /\ req[h].pc = "insert" /\ req[h].pc \in Admitted
      /\ UNCHANGED <<now, events>>
    BY DEF CreatePhoto, At, Admitted
<1>2. /\ req[h].event \in 1..Len(events) /\ req[h].client \in Captures
      /\ req[h].id \in PhotoIds
    BY <1>1, HandlerTypes DEF UploadInv
<1>3. ASSUME Goto(h, "resolve"),
             NEW p \in FindPhotoByClientId(req[h].event, req[h].client)
      PROVE  Moves(h) /\ UploadStep(h) /\ req'[h].pc = "resolve"
    <2>1. <<req[h].event, req[h].client>> \in Rows
        BY DEF FindPhotoByClientId, Rows
    <2> QED
        BY <1>1, <1>3, <2>1, GotoSame
           DEF UploadStep, GoesOn, Calls, Admitted, Writing
<1>4. Answer(h, 500) => Moves(h) /\ UploadStep(h) /\ Ends(h, {201, 500})
    BY <1>1, StatusesOf, AnswerUpload DEF UploadStep, Ends
<1>5. AnswerPhoto(h, 201, row.id)
          => Moves(h) /\ UploadStep(h) /\ Ends(h, {201, 500})
    <2>1. ASSUME AnswerPhoto(h, 201, req[h].id)
          PROVE  /\ Moves(h) /\ Ends(h, {200, 201}) /\ Same(h)
                 /\ req'[h].status = 201
        BY <1>1, <1>2, <2>1, StatusesOf, AnswerPhotoUpload, AnswerPhotoMoves
           DEF StorageInv
    <2> QED
        BY <1>1, <2>1 DEF UploadStep, Succeeds, Ends
<1>6. CASE FindPhotoByClientId(row.event, row.client) # {}
    <2>1. PICK p \in FindPhotoByClientId(req[h].event, req[h].client) : TRUE
        BY <1>6
    <2>2. photos' = photos /\ (Goto(h, "resolve") \/ Answer(h, 500))
        BY <1>6 DEF CreatePhoto
    <2> QED
        BY <1>1, <1>3, <1>4, <2>1, <2>2 DEF Ends
<1>7. CASE FindPhotoByClientId(row.event, row.client) = {}
    <2>1. Answer(h, 500) \/ AnswerPhoto(h, 201, row.id)
        BY <1>7 DEF CreatePhoto
    <2>2. photos' = photos \/ photos' = photos \cup {row}
        BY <1>7 DEF CreatePhoto
    <2>3. ASSUME photos' = photos \cup {row} PROVE InsertsRow(h) /\ photos' # photos
        <3>1. PICK p : p = row
            OBVIOUS
        <3>2. /\ p.event = req[h].event /\ p.client = req[h].client
              /\ photos' = photos \cup {p}
            BY <2>3, <3>1
        <3>3. \A q \in photos : ~(q.event = req[h].event
                                    /\ q.client = req[h].client)
            BY <1>7 DEF FindPhotoByClientId
        <3>4. <<req[h].event, req[h].client>> \notin Rows /\ photos' # photos
            BY <3>2, <3>3 DEF Rows
        <3>5. Rows' = Rows \cup {<<req[h].event, req[h].client>>}
            BY <3>2 DEF Rows
        <3> QED
            BY <1>2, <1>4, <1>5, <2>1, <3>4, <3>5 DEF InsertsRow
    <2> QED
        BY <1>1, <1>4, <1>5, <2>1, <2>2, <2>3 DEF Ends
<1> QED
    BY <1>6, <1>7

-----------------------------------------------------------------------------
(* What a step leaves of the invariant of the line *)

LEMMA LinkParts ==
    ASSUME DeliveryInv
    PROVE  /\ StorageInv /\ AlbumInv /\ QP!QueueInv /\ LinkInv
           /\ line \in [Tabs -> Handlers \cup {OnItsWay, Broken}]
           /\ \A t \in Tabs : LineInv(t) /\ tab[t] \in Queue!Uploader
           /\ \A h \in Handlers : ForgottenInv(h) /\ RaceInv(h)
           /\ SoleInv /\ LinesApart /\ LateInv
           /\ \A c \in Captures : late[c] \in Int
BY PhoneTypes DEF DeliveryInv, LinkInv

(* The tab waits for the same thing as before, if it waits. *)
SameTab(t) ==
    /\ line'[t] = line[t]
    /\ tab'[t].pc = tab[t].pc /\ tab'[t].item = tab[t].item
    /\ tab'[t].sent = tab[t].sent

LEMMA LineStands ==
    ASSUME DeliveryInv, StorageInv', Grows, NEW t \in Tabs, SameTab(t),
           tab'[t].stored = tab[t].stored,
           line[t] \in Handlers => req'[line[t]] = req[line[t]]
    PROVE  LineInv(t)'
<1> DEFINE u == tab[t]
<1>1. LineInv(t) /\ u \in Queue!Uploader /\ StorageInv
    BY LinkParts
<1>2. tab'[t].pc = "send" => SentBefore(tab'[t].sent, Newest', Past')
    BY <1>1, SentBeforeLater, NewestGrows DEF LineInv, SameTab
<1>3. ASSUME line[t] \in Handlers
      PROVE  Serves(line[t], tab[t])'
    <2> DEFINE h == line[t]
    <2>1. Serves(h, u) /\ req'[h] = req[h] /\ u.pc = "send"
        BY <1>1, <1>3, LinesAssumption DEF LineInv
    <2>2. req[h].pc = "check" => SentBefore(u.sent, req[h].event, Past')
        <3>1. req[h].pc = "check" => req[h].event \in Int
            BY <1>1, <1>3, <2>1, HandlerTypes DEF Serves
        <3>2. req[h].pc = "check" => SentBefore(u.sent, req[h].event, Past)
            BY <2>1 DEF Serves
        <3>3. u \in Queue!Uploader /\ Past \subseteq Past'
            BY <1>1, NewestGrows
        <3> HIDE DEF u, h
        <3> QED
            BY <3>1, <3>2, <3>3, SentBeforeLater
    <2>3. req[h].pc = "done" /\ req[h].status = 423
              => u.sent[2] \/ NewestIsOver' \/ Newest' > u.sent[1]
        BY <1>1, <2>1, RefusesStays DEF Serves, LineInv
    <2> QED
        BY <1>3, <2>1, <2>2, <2>3
           DEF Serves, SameTab, Queue!Refuses, Queue!First
<1> QED
    BY <1>1, <1>2, <1>3 DEF LineInv, SameTab

(* What h does keeps what is known of it.                                   *)
Keeps(h) ==
    /\ Forgotten(h)' =>
           /\ Forgotten(h) /\ req'[h].client = req[h].client
           /\ \A first, less \in Int :
                 less <= first /\ Covers(first, h) => Covers(less, h)'
    /\ RaceInv(h)'

LEMMA CoversStands ==
    ASSUME DeliveryInv, StorageInv', Grows, NEW h \in Handlers,
           req'[h] = req[h], Forgotten(h), NEW first \in Int, NEW less \in Int,
           less <= first, Covers(first, h)
    PROVE  Covers(less, h)'
<1> DEFINE e == req[h].event
<1>1. StorageInv
    BY LinkParts
<1>2. req[h].pc \in {"check"} \cup Writing => e \in Int
    BY <1>1, HandlerTypes DEF Forgotten, Writing, Admitted
<1>3. /\ Newest \in Int /\ Newest' \in Int /\ Newest <= Newest'
      /\ Past \subseteq Past'
    BY <1>1, NewestGrows
<1>4. req[h].pc = "load" => MayLoad(less, Newest', Past')
    <2> SUFFICES ASSUME req[h].pc = "load"
                 PROVE  MayLoad(less, Newest', Past')
        OBVIOUS
    <2>1. MayLoad(less, Newest, Past)
        BY <1>3, MayLoadLess DEF Covers
    <2> QED
        BY <1>3, <2>1, MayLoadLater
<1>5. req[h].pc = "check" => MayLoad(less, e, Past')
    BY <1>2, <1>3, MayLoadLess DEF Covers
<1>6. req[h].pc \in Writing => less <= e
    BY <1>2 DEF Covers
<1> QED
    BY <1>4, <1>5, <1>6 DEF Covers

LEMMA RowsStay == Grows => Rows \subseteq Rows'
BY DEF Grows, Rows

LEMMA StandingKeeps ==
    ASSUME DeliveryInv, StorageInv', Grows, NEW h \in Handlers,
           \/ req'[h] = req[h] /\ (Forgotten(h)' => Forgotten(h))
           \/ ~Forgotten(h)' /\ req'[h].pc # "resolve"
           \/ req'[h].op # "upload"
    PROVE  Keeps(h)
<1>1. CASE req'[h] = req[h] /\ (Forgotten(h)' => Forgotten(h))
    <2>1. RaceInv(h)'
        BY <1>1, LinkParts, RowsStay DEF RaceInv
    <2>2. ASSUME Forgotten(h)', NEW first \in Int, NEW less \in Int,
                 less <= first, Covers(first, h)
          PROVE  Covers(less, h)'
        BY <1>1, <2>2, CoversStands
    <2> QED
        BY <1>1, <2>1, <2>2 DEF Keeps
<1>2. CASE ~Forgotten(h)' /\ req'[h].pc # "resolve"
    BY <1>2 DEF Keeps, RaceInv
<1>3. CASE req'[h].op # "upload"
    BY <1>3 DEF Keeps, RaceInv, Forgotten
<1> QED
    BY <1>1, <1>2, <1>3

LEMMA ForgottenStands ==
    ASSUME DeliveryInv, NEW h \in Handlers, Keeps(h),
           \A c \in Captures : late'[c] \in Int /\ late'[c] <= late[c]
    PROVE  ForgottenInv(h)' /\ RaceInv(h)'
<1> SUFFICES ASSUME Forgotten(h)' PROVE ForgottenInv(h)'
    BY DEF ForgottenInv, Keeps
<1>1. Forgotten(h) /\ req'[h].client = req[h].client
    BY DEF Keeps
<1>2. req[h].client \in Captures
    BY <1>1, LinkParts, HandlerTypes DEF Forgotten, BeforeRow, Admitted
<1>3. Covers(late[req[h].client], h) /\ late[req[h].client] \in Int
    BY <1>1, <1>2, LinkParts DEF ForgottenInv
<1>4. PICK first \in Int, less \in Int :
          /\ first = late[req[h].client] /\ less = late'[req[h].client]
          /\ less <= first
    BY <1>2, <1>3
<1>5. Covers(less, h)'
    BY <1>3, <1>4 DEF Keeps
<1> QED
    BY <1>1, <1>4, <1>5 DEF ForgottenInv, Covers

LEMMA SoleStands ==
    ASSUME DeliveryInv, several \subseteq several',
           \A h \in Handlers : Keeps(h)
    PROVE  SoleInv'
<1> SUFFICES ASSUME NEW g \in Handlers, NEW h \in Handlers,
                    Forgotten(g)', Forgotten(h)', g # h,
                    req'[g].client = req'[h].client,
                    req'[g].client \notin several'
             PROVE  \/ Covers(MaxEvents + 1, g)'
                    \/ Covers(MaxEvents + 1, h)'
    BY DEF SoleInv
<1>1. /\ Forgotten(g) /\ req'[g].client = req[g].client
      /\ Forgotten(h) /\ req'[h].client = req[h].client
    BY DEF Keeps
<1>2. Covers(MaxEvents + 1, g) \/ Covers(MaxEvents + 1, h)
    BY <1>1, LinkParts DEF SoleInv
<1>3. MaxEvents + 1 \in Int
    BY PhonesAssumption
<1> QED
    BY <1>2, <1>3 DEF Keeps

LEMMA LateStands ==
    ASSUME DeliveryInv, StorageInv', Grows,
           \A c \in Captures : \/ late'[c] \in {late[c], MaxEvents + 1}
                               \/ MayLoad(late'[c], Newest, Past),
           \A c \in Captures : late'[c] \in Int
    PROVE  LateInv'
<1> SUFFICES ASSUME NEW c \in Captures, late'[c] # MaxEvents + 1
             PROVE  MayLoad(late'[c], Newest', Past')
    BY DEF LateInv, Queue!Never
<1>1. MayLoad(late'[c], Newest, Past) /\ StorageInv
    BY LinkParts DEF LateInv, Queue!Never
<1> QED
    BY <1>1, NewestGrows, MayLoadLater

LEMMA ApartStands ==
    ASSUME DeliveryInv,
           \A t \in Tabs : line'[t] = line[t] \/ line'[t] \notin Handlers
    PROVE  LinesApart'
BY LinkParts DEF LinesApart

-----------------------------------------------------------------------------
(* A step of a handler *)

LEMMA StillNow ==
    ASSUME StorageInv, UNCHANGED <<now, events>>
    PROVE  /\ Newest' = Newest /\ Past' = Past
           /\ NewestIsOver' = NewestIsOver
BY DEF Newest, NewestIsOver, CurrentEvent, Past, IsOver

LEMMA NotOverYet ==
    ASSUME NEW u \in Queue!Uploader, NEW e \in Int, NEW past, e \notin past,
           SentBefore(u.sent, e, past)
    PROVE  Queue!First(u.sent) <= e
BY TabFields DEF SentBefore, Queue!First

LEMMA LockedSince ==
    ASSUME StorageInv, NEW u \in Queue!Uploader, NEW e \in Past,
           SentBefore(u.sent, e, Past)
    PROVE  u.sent[2] \/ NewestIsOver \/ Newest > u.sent[1]
<1>1. e <= Newest /\ e \in Int /\ Newest \in Int
    BY NewestType DEF Past, Newest, CurrentEvent
<1>2. CASE e = Newest
    BY <1>2, NewestType
<1>3. CASE e # Newest
    BY <1>1, <1>3, TabFields DEF SentBefore
<1> QED
    BY <1>2, <1>3

LEMMA UploadLine ==
    ASSUME DeliveryInv, UNCHANGED <<now, events>>,
           NEW h \in Handlers, UploadStep(h),
           NEW t \in Tabs, line[t] = h, SameTab(t),
           tab'[t].stored = tab[t].stored \/ Ends(h, {201, 500})
    PROVE  LineInv(t)'
<1> DEFINE u == tab[t]
           e == req[h].event
<1>1. LineInv(t) /\ u \in Queue!Uploader /\ StorageInv
    BY LinkParts
<1>2. Serves(h, u) /\ u.pc = "send" /\ SentBefore(u.sent, Newest, Past)
    BY <1>1, LinesAssumption DEF LineInv
<1>3. /\ Newest' = Newest /\ Past' = Past /\ NewestIsOver' = NewestIsOver
      /\ Newest \in Int
    BY <1>1, StillNow, NewestType
<1>4. req[h].pc \in {"check"} \cup Admitted => e \in 1..Len(events) /\ e \in Int
    BY <1>1, <1>2, HandlerTypes DEF Serves
<1>5. /\ req[h].pc # "done" /\ ~u.stored
      /\ req[h].client = u.item
    BY <1>2 DEF UploadStep, Serves, Admitted
<1>6. Serves(h, tab[t])'
    <2>1. CASE Loads(h)
        <3>1. req'[h].event = Newest
            BY <2>1 DEF Loads, Newest
        <3>2. SentBefore(tab'[t].sent, req'[h].event, Past')
            BY <1>2, <1>3, <3>1 DEF SameTab
        <3>3. tab'[t].stored = FALSE
            BY <1>5, <2>1 DEF Loads, Ends
        <3> QED
            BY <1>5, <2>1, <3>2, <3>3 DEF Loads, Serves, SameTab, Admitted
    <2>2. CASE Admits(h)
        <3>1. e \notin Past /\ SentBefore(u.sent, e, Past) /\ e \in Int
            BY <1>2, <1>4, <2>2 DEF Admits, Past, Serves
        <3>2. Queue!First(u.sent) <= e
            <4> HIDE DEF u, e
            <4> QED
                BY <1>1, <3>1, NotOverYet
        <3>3. tab'[t].stored = FALSE
            BY <1>5, <2>2 DEF Admits, Ends
        <3> QED
            BY <1>5, <2>2, <3>2, <3>3
               DEF Admits, Same, Serves, SameTab, Admitted, Queue!First
    <2>3. CASE Locks(h)
        <3>1. e \in Past /\ SentBefore(u.sent, e, Past)
            BY <1>2, <1>4, <2>3 DEF Locks, Past, Serves
        <3>2. u.sent[2] \/ NewestIsOver \/ Newest > u.sent[1]
            <4> HIDE DEF u, e
            <4> QED
                BY <1>1, <3>1, LockedSince
        <3>3. tab'[t].stored = FALSE
            BY <1>5, <2>3 DEF Locks, Ends
        <3> QED
            BY <1>3, <2>3, <3>2, <3>3
               DEF Locks, Ends, Serves, SameTab, Admitted, Queue!Refuses
    <2>4. CASE GoesOn(h)
        <3>1. tab'[t].stored = FALSE
            BY <1>5, <2>4 DEF GoesOn, Ends, Admitted
        <3> QED
            BY <1>2, <1>5, <2>4, <3>1
               DEF GoesOn, Same, Serves, SameTab, Admitted, Writing,
                    Queue!First
    <2>5. CASE Succeeds(h)
        BY <1>2, <1>5, <2>5
           DEF Succeeds, Ends, Same, Serves, SameTab, Admitted, Queue!First
    <2>6. CASE Ends(h, {400, 404, 500})
        <3>1. req'[h].status \in {400, 404} => tab'[t].stored = FALSE
            BY <1>5, <2>6 DEF Ends
        <3> QED
            BY <2>6, <3>1 DEF Ends, Serves, Admitted
    <2> QED
        BY <2>1, <2>2, <2>3, <2>4, <2>5, <2>6 DEF UploadStep
<1>7. line'[t] = h /\ tab'[t].pc = "send" /\ h # OnItsWay
    BY <1>2, LinesAssumption DEF SameTab
<1>8. SentBefore(tab'[t].sent, Newest', Past')
    BY <1>2, <1>3 DEF SameTab
<1> QED
    BY <1>6, <1>7, <1>8 DEF LineInv

LEMMA UploadKeeps ==
    ASSUME DeliveryInv, Grows, UNCHANGED <<now, events, line>>,
           NEW h \in Handlers, UploadStep(h)
    PROVE  Keeps(h)
<1> DEFINE e == req[h].event
<1>1. StorageInv /\ req[h].op = "upload" /\ RaceInv(h)
    BY LinkParts DEF UploadStep
<1>2. req[h].pc \in {"check"} \cup Admitted => e \in 1..Len(events) /\ e \in Int
    BY <1>1, HandlerTypes DEF UploadStep
<1>3. Newest' = Newest /\ Past' = Past /\ Newest \in Int
    BY <1>1, StillNow, NewestType
<1>4. RaceInv(h)'
    BY RowsStay DEF RaceInv, UploadStep, Loads, Admits, Locks, GoesOn,
                    Succeeds, Ends, Same
<1>5. ASSUME Forgotten(h)'
      PROVE  /\ Forgotten(h) /\ req'[h].client = req[h].client
             /\ Loads(h) \/ Admits(h) \/ GoesOn(h)
    BY <1>1, <1>5 DEF Forgotten, BeforeRow, UploadStep, Loads, Admits, Locks,
                      GoesOn, Succeeds, Ends, Same, Writing
<1>6. ASSUME Forgotten(h)', NEW first \in Int, NEW less \in Int,
             less <= first, Covers(first, h)
      PROVE  Covers(less, h)'
    <2>1. CASE Loads(h)
        <3>1. req'[h].event = Newest /\ MayLoad(less, Newest, Past)
            BY <1>3, <1>6, <2>1, MayLoadLess DEF Loads, Newest, Covers
        <3> QED
            BY <1>3, <2>1, <3>1 DEF Loads, Covers, Writing
    <2>2. CASE Admits(h)
        <3>1. MayLoad(less, e, Past) /\ e \notin Past /\ e \in Int
            BY <1>2, <1>6, <2>2, MayLoadLess DEF Covers, Admits, Past
        <3>2. less <= e
            BY <1>2, <3>1 DEF MayLoad
        <3> QED
            BY <2>2, <3>2 DEF Admits, Same, Covers
    <2>3. CASE GoesOn(h)
        <3>1. less <= e
            BY <1>2, <1>6, <2>3 DEF GoesOn, Covers, Writing, Admitted
        <3> QED
            BY <2>3, <3>1 DEF GoesOn, Same, Covers, Admitted
    <2> QED
        BY <1>5, <1>6, <2>1, <2>2, <2>3
<1> QED
    BY <1>4, <1>5, <1>6 DEF Keeps

LEMMA ServesUploads ==
    ASSUME DeliveryInv, NEW h \in Handlers, req[h].op # "upload"
    PROVE  \A t \in Tabs : line[t] # h
BY LinkParts DEF LineInv, Serves

(* What h does for an upload, or for anything else. *)
HandlerStep(h) ==
    /\ Moves(h) /\ line' = line
    /\ \A t \in Tabs : SameTab(t)
    /\ \A t \in Tabs : \/ tab'[t].stored = tab[t].stored
                       \/ line[t] = h /\ Ends(h, {201, 500})
    /\ \/ UploadStep(h) /\ UNCHANGED <<now, events>>
       \/ req[h].op # "upload" /\ req'[h].op # "upload"

LEMMA HandlerStepLines ==
    ASSUME DeliveryInv, StorageInv', Grows, NEW h \in Handlers, HandlerStep(h)
    PROVE  /\ \A t \in Tabs : LineInv(t)'
           /\ \A g \in Handlers : Keeps(g)
           /\ LinesApart'
<1>1. \A g \in Handlers : g # h => req'[g] = req[g]
    BY DEF Moves, HandlerStep
<1>2. ASSUME NEW t \in Tabs PROVE LineInv(t)'
    <2>1. CASE line[t] = h
        <3>1. UploadStep(h) /\ UNCHANGED <<now, events>>
            BY <2>1, ServesUploads DEF HandlerStep
        <3> QED
            BY <2>1, <3>1, UploadLine DEF HandlerStep
    <2>2. CASE line[t] # h
        <3>1. tab'[t].stored = tab[t].stored
            BY <2>2 DEF HandlerStep
        <3> QED
            BY <1>1, <2>2, <3>1, LineStands DEF HandlerStep
    <2> QED
        BY <2>1, <2>2
<1>3. ASSUME NEW g \in Handlers PROVE Keeps(g)
    <2>1. CASE g = h
        BY <2>1, UploadKeeps, StandingKeeps DEF HandlerStep
    <2>2. CASE g # h
        BY <1>1, <2>2, StandingKeeps DEF Forgotten, HandlerStep
    <2> QED
        BY <2>1, <2>2
<1>4. LinesApart'
    BY ApartStands DEF HandlerStep
<1> QED
    BY <1>2, <1>3, <1>4

LEMMA HandlerStepLinks ==
    ASSUME DeliveryInv, StorageInv', Grows, NEW h \in Handlers, HandlerStep(h),
           UNCHANGED <<late, several>>
    PROVE  LinkInv'
<1>1. ASSUME NEW g \in Handlers PROVE ForgottenInv(g)' /\ RaceInv(g)'
    BY LinkParts, HandlerStepLines, ForgottenStands
<1>2. SoleInv'
    BY HandlerStepLines, SoleStands
<1>3. LateInv'
    BY LinkParts, LateStands
<1> QED
    BY <1>1, <1>2, <1>3, HandlerStepLines, LinkParts DEF LinkInv, HandlerStep

LEMMA StartMoves ==
    ASSUME StorageInv, NEW h \in Handlers, req[h].op # "upload",
           \/ \E status \in Statuses : Answer(h, status)
           \/ \E pc \in Calls : Goto(h, pc)
           \/ \E status \in Statuses : AnswerEvent(h, status)
           \/ \E pc \in Calls, e \in 0..MaxEvents :
                 req' = [req EXCEPT ![h] = [@ EXCEPT !.pc = pc, !.event = e]]
           \/ Receive(h, "create", NoCapture, NoPhoto)
    PROVE  Moves(h) /\ req'[h].op # "upload"
<1>1. req[h] \in Request /\ req \in [Handlers -> Request] /\ TypeOK
    BY HandlerTypes DEF StorageInv
<1>2. CASE \/ \E status \in Statuses : Answer(h, status)
           \/ \E pc \in Calls : Goto(h, pc)
    BY <1>2, MovesAsBefore
<1>3. ASSUME NEW status \in Statuses, AnswerEvent(h, status)
      PROVE  Moves(h) /\ req'[h].op # "upload"
    BY <1>1, <1>3, AnswerEventMoves DEF Idle
<1>4. ASSUME NEW pc \in Calls, NEW e \in 0..MaxEvents,
             req' = [req EXCEPT ![h] = [@ EXCEPT !.pc = pc, !.event = e]]
      PROVE  Moves(h) /\ req'[h].op # "upload"
    <2> DEFINE r == [req[h] EXCEPT !.pc = pc, !.event = e]
    <2>1. r \in Request /\ r.op = req[h].op
        BY <1>1 DEF Request
    <2> HIDE DEF r
    <2>2. req' = [req EXCEPT ![h] = r]
        BY <1>4 DEF r
    <2> QED
        BY <1>1, <2>1, <2>2 DEF Moves
<1>5. CASE Receive(h, "create", NoCapture, NoPhoto)
    <2> DEFINE r == [Idle EXCEPT !.op = "create", !.pc = "load",
                                 !.client = NoCapture, !.id = NoPhoto]
    <2>1. r \in Request /\ r.op = "create"
        BY IdleIsRequest DEF Request, Ops, Calls, Idle
    <2> HIDE DEF r
    <2>2. req' = [req EXCEPT ![h] = r]
        BY <1>5 DEF Receive, r
    <2> QED
        BY <1>1, <2>1, <2>2 DEF Moves
<1> QED
    BY <1>2, <1>3, <1>4, <1>5

LEMMA WorksOther ==
    ASSUME StorageInv, NEW h \in Handlers, Works(h), req[h].op # "upload"
    PROVE  Moves(h) /\ req'[h].op # "upload"
<1> DEFINE Fine == Moves(h) /\ req'[h].op # "upload"
<1> SUFFICES Fine
    OBVIOUS
<1>1. Len(events) \in 0..MaxEvents /\ TypeOK
    BY NewestType DEF StorageInv
<1>2. ASSUME NEW status \in {400, 404, 409, 500}, Answer(h, status) PROVE Fine
    <2>1. status \in Statuses
        BY StatusesOf
    <2> QED
        BY <1>2, <2>1, MovesAsBefore
<1>3. ASSUME NEW pc \in Calls, Goto(h, pc) PROVE Fine
    BY <1>3, StartMoves
<1>4. ASSUME NEW pc \in Calls, NEW e \in 0..MaxEvents,
             req' = [req EXCEPT ![h] = [@ EXCEPT !.pc = pc, !.event = e]]
      PROVE  Fine
    BY <1>4, StartMoves
<1>5. {"check", "insert", "setActive"} \subseteq Calls
    BY DEF Calls
<1> HIDE DEF Fine
<1>6. CASE Receive(h, "create", NoCapture, NoPhoto)
    BY <1>6, StartMoves DEF Fine
<1>7. CASE LoadEvent(h)
    <2>1. CASE req' = [req EXCEPT ![h] = [@ EXCEPT !.pc = "check",
                                                   !.event = CurrentEvent]]
        BY <1>1, <1>4, <1>5, <2>1 DEF CurrentEvent
    <2>2. CASE Answer(h, 400) \/ Answer(h, 404) \/ Answer(h, 500)
        BY <1>2, <2>2
    <2>3. CASE Goto(h, "check")
        BY <1>3, <1>5, <2>3
    <2> QED
        BY <1>7, <2>1, <2>2, <2>3 DEF LoadEvent
<1>8. CASE CheckNoneRunning(h)
    BY <1>2, <1>3, <1>5, <1>8 DEF CheckNoneRunning
<1>9. CASE CreateEvent(h)
    <2>1. CASE /\ Len(events) < MaxEvents
               /\ req' = [req EXCEPT ![h] = [@ EXCEPT !.pc = "setActive",
                                                  !.event = Len(events) + 1]]
        <3>1. Len(events) + 1 \in 0..MaxEvents
            BY <1>1, <2>1, PhonesAssumption
        <3> QED
            BY <1>4, <1>5, <2>1, <3>1
    <2> QED
        BY <1>2, <1>9, <2>1 DEF CreateEvent
<1>10. CASE SetActiveEvent(h)
    <2>1. 201 \in Statuses
        BY StatusesOf
    <2>2. AnswerEvent(h, 201) => Fine
        BY <2>1, StartMoves DEF Fine
    <2> QED
        BY <1>2, <1>10, <2>2 DEF SetActiveEvent
<1>11. /\ ~CheckRunning(h) /\ ~FindDuplicate(h) /\ ~PutPhoto(h)
       /\ ~PutThumb(h) /\ ~ResolveRace(h)
    BY DEF CheckRunning, FindDuplicate, PutPhoto, PutThumb, ResolveRace, At
<1> QED
    BY <1>6, <1>7, <1>8, <1>9, <1>10, <1>11 DEF Works

LEMMA WorksLinks ==
    ASSUME DeliveryInv, StorageInv', Grows, NEW h \in Handlers, Works(h)
    PROVE  LinkInv'
<1>1. UNCHANGED <<late, several, tab, line>> /\ StorageInv
    BY LinkParts DEF Works, phone
<1>2. \A t \in Tabs : SameTab(t) /\ tab'[t].stored = tab[t].stored
    BY <1>1 DEF SameTab
<1>3. /\ Moves(h)
      /\ \/ UploadStep(h) /\ UNCHANGED <<now, events>>
         \/ req[h].op # "upload" /\ req'[h].op # "upload"
    BY <1>1, WorksUpload, WorksOther
<1>4. HandlerStep(h)
    BY <1>1, <1>2, <1>3 DEF HandlerStep
<1> QED
    BY <1>1, <1>4, HandlerStepLinks

(* A row that nobody waits for uses its upload up.                          *)
LEMMA InsertsLinks ==
    ASSUME DeliveryInv, StorageInv', Grows, NEW h \in Handlers, Inserts(h)
    PROVE  LinkInv'
<1> DEFINE c == req[h].client
<1>1. UNCHANGED <<several, line>> /\ StorageInv
    BY LinkParts DEF Inserts
<1>2. /\ Moves(h) /\ UploadStep(h) /\ UNCHANGED <<now, events>>
      /\ req[h].pc = "insert" /\ req'[h].pc \in {"resolve", "done"}
      /\ photos' # photos => Ends(h, {201, 500})
    BY <1>1, CreatePhotoUpload DEF Inserts, InsertsRow
<1>3. ASSUME NEW t \in Tabs
      PROVE  /\ SameTab(t)
             /\ \/ tab'[t].stored = tab[t].stored
                \/ line[t] = h /\ Ends(h, {201, 500})
    <2>1. tab[t] \in Queue!Uploader
        BY LinkParts
    <2>2. tab'[t] = IF line[t] = h /\ photos' # photos
                      THEN [tab[t] EXCEPT !.stored = TRUE] ELSE tab[t]
        BY DEF Inserts
    <2>3. CASE line[t] = h /\ photos' # photos
        BY <1>1, <1>2, <2>1, <2>2, <2>3 DEF SameTab, Queue!Uploader
    <2>4. CASE ~(line[t] = h /\ photos' # photos)
        BY <1>1, <2>2, <2>4 DEF SameTab
    <2> QED
        BY <2>3, <2>4
<1>4. HandlerStep(h)
    BY <1>1, <1>2, <1>3 DEF HandlerStep
<1>5. /\ \A t \in Tabs : LineInv(t)'
      /\ \A g \in Handlers : Keeps(g)
      /\ LinesApart' /\ SoleInv'
    BY <1>1, <1>4, HandlerStepLines, SoleStands
<1>6. /\ c \in Captures /\ req[h].event \in 1..MaxEvents
      /\ late \in [Captures -> 1..(MaxEvents + 1)] /\ MaxEvents \in Nat
    BY <1>1, <1>2, LinkParts, HandlerTypes, PhoneTypes, NewestType,
       PhonesAssumption DEF UploadStep, Admitted
<1>7. \/ late' = late
      \/ /\ Forgotten(h) /\ c \notin several
         /\ late' = [late EXCEPT ![c] = MaxEvents + 1]
    BY DEF Inserts, Queue!Spent, Queue!Never
<1>8. ASSUME NEW g \in Handlers PROVE ForgottenInv(g)' /\ RaceInv(g)'
    <2>1. CASE late' = late
        BY <1>5, <2>1, LinkParts, ForgottenStands
    <2>2. CASE /\ Forgotten(h) /\ c \notin several
               /\ late' = [late EXCEPT ![c] = MaxEvents + 1]
        <3> SUFFICES ASSUME Forgotten(g)'
                     PROVE  Covers(late[req[g].client], g)'
            BY <1>5 DEF Keeps, ForgottenInv, Covers
        <3>1. Keeps(g) /\ Forgotten(g) /\ req'[g].client = req[g].client
            BY <1>5 DEF Keeps
        <3>2. g # h
            BY <1>2 DEF Forgotten, BeforeRow
        <3>3. req[g].client \in Captures
            BY <1>1, <3>1, HandlerTypes DEF Forgotten, BeforeRow, Admitted
        <3>4. CASE req[g].client = c
            <4>1. ~Covers(MaxEvents + 1, h)
                BY <1>2, <1>6 DEF Covers, Writing
            <4>2. Covers(MaxEvents + 1, g)
                BY <2>2, <3>1, <3>2, <3>4, <4>1, LinkParts DEF SoleInv
            <4>3. Covers(MaxEvents + 1, g)'
                BY <1>6, <3>1, <4>2 DEF Keeps
            <4>4. late'[req'[g].client] = MaxEvents + 1
                BY <1>6, <2>2, <3>1, <3>4
            <4> QED
                BY <4>3, <4>4 DEF Covers
        <3>5. CASE req[g].client # c
            <4>1. PICK first \in Int :
                      first = late[req[g].client] /\ Covers(first, g)
                BY <3>1, <3>3, LinkParts DEF ForgottenInv
            <4>2. Covers(first, g)' /\ late'[req'[g].client] = first
                BY <1>6, <2>2, <3>1, <3>3, <3>5, <4>1 DEF Keeps
            <4> QED
                BY <4>2 DEF Covers
        <3> QED
            BY <3>4, <3>5
    <2> QED
        BY <1>7, <2>1, <2>2
<1>9. LateInv'
    <2>1. \A d \in Captures : late'[d] \in {late[d], MaxEvents + 1}
        BY <1>6, <1>7
    <2>2. \A d \in Captures : late'[d] \in Int
        BY <1>6, <1>7
    <2> QED
        BY <2>1, <2>2, LateStands
<1> QED
    BY <1>1, <1>5, <1>8, <1>9, LinkParts DEF LinkInv

-----------------------------------------------------------------------------
(* A tab stops waiting *)

LEMMA GivesUpMoves ==
    ASSUME DeliveryInv, NEW t \in Tabs, tab[t].pc = "send",
           Queue!GivesUp(tab[t])
    PROVE  /\ \A c \in Captures :
                  /\ late'[c] \in Int /\ late'[c] <= late[c]
                  /\ late'[c] = late[c] \/ late'[c] = Queue!First(tab[t].sent)
           /\ ~tab[t].stored =>
                  /\ late'[tab[t].item] <= Queue!First(tab[t].sent)
                  /\ late[tab[t].item] # MaxEvents + 1 =>
                         tab[t].item \in several'
           /\ several \subseteq several'
<1> DEFINE c == tab[t].item
           first == Queue!First(tab[t].sent)
<1>1. c \in Captures /\ late \in [Captures -> 1..(MaxEvents + 1)]
    BY LinkParts, PhoneTypes
<1>2. first \in 1..(MaxEvents + 1) /\ MaxEvents \in Nat
    BY LinkParts, TabFields, PhonesAssumption
<1>3. CASE tab[t].stored
    BY <1>1, <1>3 DEF Queue!GivesUp
<1>4. CASE ~tab[t].stored
    <2>1. /\ late' = [late EXCEPT ![c] = Queue!Lesser(late[c], first)]
          /\ several' = several
                 \cup {d \in {c} : late[d] # MaxEvents + 1}
        BY <1>4 DEF Queue!GivesUp, Queue!Never
    <2>2. /\ Queue!Lesser(late[c], first) \in {late[c], first}
          /\ Queue!Lesser(late[c], first) <= late[c]
          /\ Queue!Lesser(late[c], first) <= first
        BY <1>1, <1>2 DEF Queue!Lesser
    <2>3. /\ several \subseteq several'
          /\ late[c] # MaxEvents + 1 => c \in several'
        BY <2>1
    <2> HIDE DEF c, first
    <2>4. \A d \in Captures :
              /\ late'[d] \in Int /\ late'[d] <= late[d]
              /\ late'[d] = late[d] \/ late'[d] = first
        BY <1>1, <1>2, <2>1, <2>2
    <2>5. late'[c] <= first
        BY <1>1, <2>1, <2>2
    <2> QED
        BY <2>3, <2>4, <2>5 DEF c, first
<1> QED
    BY <1>3, <1>4

(* The tab leaves its handler, which has come to its end or goes on alone.  *)
LEMMA LeavesLine ==
    ASSUME DeliveryInv, StorageInv', Grows, UNCHANGED <<now, events>>,
           NEW t \in Tabs, tab[t].pc = "send",
           NEW u, Queue!Becomes(t, u), u.pc # "send", u.stored = FALSE,
           HangsUp(t),
           \A g \in Handlers : req'[g] = req[g] \/ (line[t] = g /\ req'[g] = Idle),
           \/ Queue!GivesUp(tab[t])
           \/ /\ UNCHANGED <<late, several>>
              /\ line[t] \in Handlers => req'[line[t]] = Idle
    PROVE  LinkInv'
<1> DEFINE v == tab[t]
<1>1. /\ StorageInv /\ v \in Queue!Uploader /\ LineInv(t)
      /\ \A c \in Captures : late[c] \in Int
      /\ line \in [Tabs -> Handlers \cup {OnItsWay, Broken}]
      /\ tab \in [Tabs -> Queue!Uploader] /\ LinesApart
    BY LinkParts, PhoneTypes
<1>2. /\ tab'[t] = u /\ line'[t] = OnItsWay
      /\ line' \in [Tabs -> Handlers \cup {OnItsWay, Broken}]
      /\ \A s \in Tabs \ {t} : tab'[s] = tab[s] /\ line'[s] = line[s]
    BY <1>1 DEF Queue!Becomes, HangsUp
<1>3. \A c \in Captures :
          /\ late'[c] \in Int /\ late'[c] <= late[c]
          /\ late'[c] = late[c] \/ late'[c] = Queue!First(v.sent)
    BY <1>1, GivesUpMoves
<1>4. several \subseteq several'
    BY GivesUpMoves
<1>5. Newest' = Newest /\ Past' = Past /\ Newest \in Int
    BY <1>1, StillNow, NewestType
<1>6. SentBefore(v.sent, Newest, Past)
    BY <1>1 DEF LineInv
<1>7. ASSUME NEW s \in Tabs PROVE LineInv(s)'
    <2>1. CASE s = t
        BY <1>2, <2>1, LinesAssumption DEF LineInv
    <2>2. CASE s # t
        <3>1. SameTab(s) /\ tab'[s].stored = tab[s].stored
            BY <1>2, <2>2 DEF SameTab
        <3>2. line[s] \in Handlers => req'[line[s]] = req[line[s]]
            BY <1>1, <2>2 DEF LinesApart
        <3> QED
            BY <3>1, <3>2, LineStands
    <2> QED
        BY <2>1, <2>2
<1>8. ASSUME NEW g \in Handlers, line[t] # g \/ req'[g] = Idle
       PROVE  Keeps(g)
    <2>1. CASE line[t] # g
        <3>1. req'[g] = req[g]
            BY <2>1
        <3>2. Forgotten(g)' => Forgotten(g)
            BY <1>2, <2>1, <3>1 DEF Forgotten
        <3> QED
            BY <3>1, <3>2, StandingKeeps
    <2>2. CASE req'[g] = Idle
        BY <2>2, StandingKeeps DEF Idle
    <2> QED
        BY <1>8, <2>1, <2>2
(* The handler that is left alone has what the tab had sent.                *)
<1>9. ASSUME NEW g \in Handlers, line[t] = g, req'[g] # Idle, Forgotten(g)'
       PROVE  /\ req'[g] = req[g] /\ Serves(g, v) /\ Queue!GivesUp(v)
              /\ req[g].client = v.item /\ ~v.stored
              /\ v.item \in Captures
    <2>1. req'[g] = req[g] /\ Serves(g, v) /\ Queue!GivesUp(v)
        BY <1>1, <1>9 DEF LineInv
    <2>2. req[g].pc # "done"
        BY <1>9, <2>1 DEF Forgotten, BeforeRow
    <2> QED
        BY <2>1, <2>2, LinkParts, PhoneTypes DEF Serves
<1>10. ASSUME NEW g \in Handlers PROVE ForgottenInv(g)' /\ RaceInv(g)'
    <2>1. CASE line[t] # g \/ req'[g] = Idle
        BY <1>3, <1>8, <2>1, ForgottenStands
    <2>2. CASE line[t] = g /\ req'[g] # Idle
        <3>1. RaceInv(g)'
            BY <1>1, <2>2, LinkParts, RowsStay DEF RaceInv
        <3> SUFFICES ASSUME Forgotten(g)'
                     PROVE  Covers(late[req[g].client], g)'
            BY <3>1 DEF ForgottenInv
        <3> DEFINE e == req[g].event
        <3>2. /\ req'[g] = req[g] /\ Serves(g, v) /\ req[g].client = v.item
              /\ Queue!GivesUp(v) /\ ~v.stored /\ v.item \in Captures
            BY <1>9, <2>2
        <3>3. PICK first \in Int, less \in Int :
                  /\ first = Queue!First(v.sent) /\ less = late'[v.item]
                  /\ less <= first
            BY <1>1, <1>3, <3>2, TabFields, GivesUpMoves
        <3>4. req[g].pc = "load" => MayLoad(less, Newest, Past)
            <4>1. MayLoad(first, Newest, Past)
                BY <1>1, <1>5, <1>6, <3>3, SentMayLoad
            <4> QED
                BY <1>5, <3>3, <4>1, MayLoadLess
        <3>5. req[g].pc = "check" => MayLoad(less, e, Past)
            <4> SUFFICES ASSUME req[g].pc = "check"
                         PROVE  MayLoad(less, e, Past)
                OBVIOUS
            <4>1. e \in Int /\ SentBefore(v.sent, e, Past)
                BY <1>1, <3>2, HandlerTypes DEF Serves
            <4>2. MayLoad(first, e, Past)
                <5> HIDE DEF v, e
                <5> QED
                    BY <1>1, <3>3, <4>1, SentMayLoad
            <4> QED
                BY <3>3, <4>1, <4>2, MayLoadLess
        <3>6. req[g].pc \in Writing => less <= e
            <4> SUFFICES ASSUME req[g].pc \in Writing PROVE less <= e
                OBVIOUS
            <4>1. e \in Int /\ first <= e
                BY <1>1, <3>2, <3>3, HandlerTypes DEF Serves, Writing, Admitted
            <4> QED
                BY <3>3, <4>1
        <3>7. late'[req'[g].client] = less
            BY <3>2, <3>3
        <3> QED
            BY <1>5, <3>2, <3>4, <3>5, <3>6, <3>7 DEF Covers
    <2> QED
        BY <2>1, <2>2
(* It is the capture's only one, if none was known of before.               *)
<1>11. ASSUME NEW g \in Handlers, NEW h \in Handlers, g # h,
              line[t] = g, req'[g] # Idle, Forgotten(g)', Forgotten(h)',
              req'[g].client = req'[h].client, req'[g].client \notin several'
       PROVE  Covers(MaxEvents + 1, h)'
    <2>1. /\ req'[g] = req[g] /\ req[g].client = v.item /\ v.item \in Captures
          /\ Queue!GivesUp(v) /\ ~v.stored
        BY <1>9, <1>11
    <2>2. late[v.item] = MaxEvents + 1
        BY <1>1, <1>11, <2>1, GivesUpMoves
    <2>3. Keeps(h) /\ Forgotten(h) /\ req[h].client = v.item
        BY <1>8, <1>11, <2>1 DEF Keeps
    <2>4. Covers(late[req[h].client], h)
        BY <2>3, LinkParts DEF ForgottenInv
    <2>5. Covers(MaxEvents + 1, h) /\ MaxEvents + 1 \in Int
        BY <2>2, <2>3, <2>4, PhonesAssumption DEF Covers
    <2> QED
        BY <1>11, <2>3, <2>5 DEF Keeps
<1>12. SoleInv'
    <2> SUFFICES ASSUME NEW g \in Handlers, NEW h \in Handlers,
                        Forgotten(g)', Forgotten(h)', g # h,
                        req'[g].client = req'[h].client,
                        req'[g].client \notin several'
                 PROVE  \/ Covers(MaxEvents + 1, g)'
                        \/ Covers(MaxEvents + 1, h)'
        BY DEF SoleInv
    <2>1. CASE line[t] = g /\ req'[g] # Idle
        BY <1>11, <2>1
    <2>2. CASE line[t] = h /\ req'[h] # Idle
        BY <1>11, <2>2
    <2>3. CASE /\ line[t] # g \/ req'[g] = Idle
               /\ line[t] # h \/ req'[h] = Idle
        <3>1. Keeps(g) /\ Keeps(h)
            BY <1>8, <2>3
        <3>2. /\ Forgotten(g) /\ req'[g].client = req[g].client
              /\ Forgotten(h) /\ req'[h].client = req[h].client
            BY <3>1 DEF Keeps
        <3>3. Covers(MaxEvents + 1, g) \/ Covers(MaxEvents + 1, h)
            BY <1>4, <3>2, LinkParts DEF SoleInv
        <3>4. MaxEvents + 1 \in Int
            BY PhonesAssumption
        <3> QED
            BY <3>1, <3>3, <3>4 DEF Keeps
    <2> QED
        BY <2>1, <2>2, <2>3
<1>13. LateInv'
    <2>1. MayLoad(Queue!First(v.sent), Newest, Past)
        BY <1>1, <1>5, <1>6, SentMayLoad
    <2>2. \A c \in Captures : \/ late'[c] \in {late[c], MaxEvents + 1}
                              \/ MayLoad(late'[c], Newest, Past)
        BY <1>3, <2>1
    <2> QED
        BY <1>3, <2>2, LateStands
<1>14. LinesApart'
    <2>1. \A s \in Tabs : line'[s] = line[s] \/ line'[s] \notin Handlers
        BY <1>2, LinesAssumption
    <2> QED
        BY <2>1, ApartStands
<1> QED
    BY <1>2, <1>7, <1>10, <1>12, <1>13, <1>14 DEF LinkInv

-----------------------------------------------------------------------------
(* The other steps *)

(* Connections break, and with them the handlers H come to their end. *)
LEMMA LinesBreak ==
    ASSUME DeliveryInv, StorageInv', Grows, UNCHANGED <<now, events, phone>>,
           NEW H \in SUBSET Handlers,
           \A g \in Handlers : req'[g] = IF g \in H THEN Idle ELSE req[g],
           line' = [t \in Tabs |-> IF line[t] \in H THEN Broken ELSE line[t]]
    PROVE  LinkInv'
<1>1. StorageInv /\ UNCHANGED <<late, several, tab>>
    BY LinkParts DEF phone
<1>2. \A s \in Tabs : line'[s] = IF line[s] \in H THEN Broken ELSE line[s]
    OBVIOUS
<1>3. line' \in [Tabs -> Handlers \cup {OnItsWay, Broken}]
    BY LinkParts
<1>4. ASSUME NEW t \in Tabs PROVE LineInv(t)'
    <2>1. CASE line[t] \in H
        <3>1. line'[t] = Broken /\ tab[t].pc = "send"
            BY <1>2, <2>1, LinkParts, LinesAssumption DEF LineInv
        <3>2. SentBefore(tab[t].sent, Newest, Past)
            BY <3>1, LinkParts DEF LineInv
        <3> QED
            BY <1>1, <3>1, <3>2, StillNow, LinesAssumption DEF LineInv
    <2>2. CASE line[t] \notin H
        <3>1. SameTab(t) /\ tab'[t].stored = tab[t].stored
            BY <1>1, <1>2, <2>2 DEF SameTab
        <3> QED
            BY <2>2, <3>1, LineStands
    <2> QED
        BY <2>1, <2>2
<1>5. ASSUME NEW g \in Handlers PROVE Keeps(g)
    <2>1. CASE g \in H
        BY <2>1, StandingKeeps DEF Idle
    <2>2. CASE g \notin H
        BY <1>2, <2>2, StandingKeeps DEF Forgotten
    <2> QED
        BY <2>1, <2>2
<1>6. /\ \A g \in Handlers : ForgottenInv(g)' /\ RaceInv(g)'
      /\ SoleInv'
    BY <1>1, <1>5, LinkParts, ForgottenStands, SoleStands
<1>7. LateInv'
    BY <1>1, LinkParts, LateStands
<1>8. LinesApart'
    BY <1>2, LinesAssumption, ApartStands
<1> QED
    BY <1>3, <1>4, <1>6, <1>7, <1>8 DEF LinkInv

LEMMA AnsweredTab ==
    ASSUME NEW u \in Queue!Uploader, NEW pc
    PROVE  /\ Queue!Answered(u, pc).pc = pc
           /\ Queue!Answered(u, pc).stored = FALSE
BY DEF Queue!Answered, Queue!Uploader

LEMMA HeardForms ==
    ASSUME NEW t \in Tabs, NEW status, Heard(t, status)
    PROVE  \E pc \in {"remove", "drop", "fail", "retry"} :
               /\ Queue!Becomes(t, Queue!Answered(tab[t], pc))
               /\ UNCHANGED <<late, several>> \/ Queue!GivesUp(tab[t])
BY DEF Heard

LEMMA AnswersLinks ==
    ASSUME DeliveryInv, StorageInv', Grows, NEW h \in Handlers, Answers(h)
    PROVE  LinkInv'
<1>1. /\ UNCHANGED <<now, events>> /\ StorageInv
      /\ \A g \in Handlers : req'[g] = IF g = h THEN Idle ELSE req[g]
    BY LinkParts, HandlerTypes DEF Answers, Finish, stored
<1>2. ASSUME NEW t \in Tabs, line[t] = h, Heard(t, req[h].status), HangsUp(t)
      PROVE  LinkInv'
    <2>1. tab[t] \in Queue!Uploader /\ tab[t].pc = "send"
        BY <1>2, LinkParts, LinesAssumption DEF LineInv
    <2>2. PICK pc \in {"remove", "drop", "fail", "retry"} :
              /\ Queue!Becomes(t, Queue!Answered(tab[t], pc))
              /\ UNCHANGED <<late, several>> \/ Queue!GivesUp(tab[t])
        BY <1>2, HeardForms
    <2>3. PICK u : u = Queue!Answered(tab[t], pc)
        OBVIOUS
    <2>4. u.pc # "send" /\ u.stored = FALSE /\ Queue!Becomes(t, u)
        BY <2>1, <2>2, <2>3, AnsweredTab
    <2>5. \/ Queue!GivesUp(tab[t])
          \/ /\ UNCHANGED <<late, several>>
             /\ line[t] \in Handlers => req'[line[t]] = Idle
        BY <1>1, <1>2, <2>2
    <2>6. \A g \in Handlers :
              req'[g] = req[g] \/ (line[t] = g /\ req'[g] = Idle)
        BY <1>1, <1>2
    <2> QED
        BY <1>1, <1>2, <2>1, <2>4, <2>5, <2>6, LeavesLine
<1>3. CASE /\ line' = [t \in Tabs |-> IF line[t] = h THEN Broken ELSE line[t]]
           /\ UNCHANGED phone
    <2>1. PICK H \in SUBSET Handlers : H = {h}
        OBVIOUS
    <2>2. line' = [t \in Tabs |-> IF line[t] \in H THEN Broken ELSE line[t]]
        BY <1>3, <2>1
    <2>3. \A g \in Handlers : req'[g] = IF g \in H THEN Idle ELSE req[g]
        BY <1>1, <2>1
    <2> QED
        BY <1>1, <1>3, <2>2, <2>3, LinesBreak
<1> QED
    BY <1>2, <1>3 DEF Answers

LEMMA ServerDiesLinks ==
    ASSUME DeliveryInv, StorageInv', Grows, ServerDies
    PROVE  LinkInv'
<1>1. PICK H \in SUBSET Handlers : H = Handlers
    OBVIOUS
<1>2. \A g \in Handlers : req'[g] = IF g \in H THEN Idle ELSE req[g]
    BY <1>1 DEF ServerDies, Crash
<1>3. line' = [t \in Tabs |-> IF line[t] \in H THEN Broken ELSE line[t]]
    BY <1>1 DEF ServerDies
<1>4. UNCHANGED <<now, events, phone>>
    BY DEF ServerDies, Crash, stored
<1> QED
    BY <1>2, <1>3, <1>4, LinesBreak

(* Nobody moves but the clock, or one tab that does not leave its line.  A  *)
(* tab that starts to send does so now.                                     *)
KeepsLine(t) ==
    /\ tab'[t].stored = tab[t].stored
    /\ tab[t].pc = "send" => SameTab(t)
    /\ tab[t].pc # "send" /\ tab'[t].pc = "send" =>
           tab'[t].sent = <<Newest, NewestIsOver>>

LEMMA KeepsLineLinks ==
    ASSUME DeliveryInv, StorageInv', Grows,
           UNCHANGED <<req, late, several, line>>,
           \A t \in Tabs : KeepsLine(t) /\ (SameTab(t) \/ UNCHANGED <<now, events>>)
    PROVE  LinkInv'
<1>1. StorageInv
    BY LinkParts
<1>2. ASSUME NEW t \in Tabs PROVE LineInv(t)'
    <2>1. CASE SameTab(t)
        BY <2>1, LineStands DEF KeepsLine
    <2>2. CASE ~SameTab(t)
        <3>1. /\ tab[t].pc # "send" /\ line[t] = OnItsWay /\ ~tab[t].stored
              /\ UNCHANGED <<now, events>>
            BY <2>2, LinkParts DEF KeepsLine, LineInv
        <3>2. tab'[t].pc = "send" => SentBefore(tab'[t].sent, Newest', Past')
            BY <1>1, <3>1, SentNow, StillNow DEF KeepsLine
        <3>3. line'[t] = OnItsWay /\ ~tab'[t].stored
            BY <3>1 DEF KeepsLine
        <3> QED
            BY <3>2, <3>3, LinesAssumption DEF LineInv
    <2> QED
        BY <2>1, <2>2
<1>3. \A g \in Handlers : Keeps(g)
    BY StandingKeeps DEF Forgotten
<1>4. /\ \A g \in Handlers : ForgottenInv(g)' /\ RaceInv(g)'
      /\ SoleInv'
    BY <1>3, LinkParts, ForgottenStands, SoleStands
<1>5. LateInv' /\ LinesApart'
    BY LinkParts, LateStands, ApartStands
<1> QED
    BY <1>2, <1>4, <1>5, LinkParts DEF LinkInv

LEMMA ClockTicksLinks ==
    ASSUME DeliveryInv, StorageInv', Grows, ClockTicks
    PROVE  LinkInv'
<1>1. UNCHANGED <<req, late, several, line, tab>>
    BY DEF ClockTicks, Tick, phone
<1>2. \A t \in Tabs : KeepsLine(t) /\ SameTab(t)
    BY <1>1 DEF KeepsLine, SameTab
<1> QED
    BY <1>1, <1>2, KeepsLineLinks

LEMMA PhoneWaitsLinks ==
    ASSUME DeliveryInv, StorageInv', Grows, PhoneWaits
    PROVE  LinkInv'
<1>1. UNCHANGED <<req, late, several, line>>
    BY DEF PhoneWaits, vars, Queue!Tick, Queue!server
<1>2. ASSUME NEW t \in Tabs PROVE KeepsLine(t) /\ SameTab(t)
    <2>1. tab[t] \in Queue!Uploader
        BY LinkParts
    <2>2. tab'[t] = [tab[t] EXCEPT !.timer = Queue!Sooner(@)]
        BY DEF PhoneWaits, Queue!Tick
    <2> QED
        BY <1>1, <2>1, <2>2 DEF KeepsLine, SameTab, Queue!Uploader
<1> QED
    BY <1>1, <1>2, KeepsLineLinks

LEMMA TabMoves ==
    ASSUME DeliveryInv, NEW t \in Tabs, NEW u, Queue!Becomes(t, u)
    PROVE  tab'[t] = u /\ \A s \in Tabs \ {t} : tab'[s] = tab[s]
BY LinkParts, PhoneTypes DEF Queue!Becomes

LEMMA HangsUpMoves ==
    ASSUME DeliveryInv, NEW t \in Tabs, HangsUp(t)
    PROVE  line'[t] = OnItsWay /\ \A s \in Tabs \ {t} : line'[s] = line[s]
BY LinkParts DEF HangsUp

(* A step of the phone that leaves its line alone, seen from tab t. *)
LEMMA PhoneLinks ==
    ASSUME DeliveryInv, StorageInv', Grows,
           UNCHANGED <<vars, late, several, line>>,
           NEW t \in Tabs, NEW u, Queue!Becomes(t, u),
           u.stored = tab[t].stored,
           tab[t].pc = "send" =>
               u.pc = "send" /\ u.item = tab[t].item /\ u.sent = tab[t].sent,
           tab[t].pc # "send" /\ u.pc = "send" =>
               u.sent = <<Newest, NewestIsOver>>
    PROVE  LinkInv'
<1>1. tab'[t] = u /\ \A s \in Tabs \ {t} : tab'[s] = tab[s]
    BY TabMoves
<1>2. UNCHANGED <<now, events, req>>
    BY DEF vars
<1>3. \A s \in Tabs : KeepsLine(s)
    BY <1>1 DEF KeepsLine, SameTab
<1> QED
    BY <1>2, <1>3, KeepsLineLinks

LEMMA AskedLine ==
    ASSUME NEW u \in Queue!Uploader
    PROVE  /\ Queue!Asked(u).stored = u.stored
           /\ Queue!Asked(u).item = u.item /\ Queue!Asked(u).sent = u.sent
           /\ Queue!Asked(u).pc = u.pc
                 \/ (u.pc = "idle" /\ Queue!Asked(u).pc = "read")
BY DEF Queue!Asked, Queue!Uploader

LEMMA GoneOnLine ==
    ASSUME NEW u \in Queue!Uploader, NEW v \in Queue!GoneOn(u)
    PROVE  /\ v.stored = u.stored
           /\ v.pc = "send" => v.sent = <<Newest, NewestIsOver>>
<1>1. \/ v = Queue!LoopLeft(u)
      \/ \E i \in u.todo : v = Queue!Sending(u, i)
    BY DEF Queue!GoneOn
<1>2. CASE v = Queue!LoopLeft(u)
    BY <1>2 DEF Queue!LoopLeft, Queue!Uploader
<1>3. ASSUME NEW i \in u.todo, v = Queue!Sending(u, i)
      PROVE  v.stored = u.stored /\ v.sent = <<Newest, NewestIsOver>>
    BY <1>3 DEF Queue!Sending, Queue!Uploader
<1> QED
    BY <1>1, <1>2, <1>3

(* What tab t is after a step that leaves its line alone. *)
Quiet(t, u) ==
    /\ u.stored = tab[t].stored
    /\ tab[t].pc = "send" =>
           u.pc = "send" /\ u.item = tab[t].item /\ u.sent = tab[t].sent
    /\ tab[t].pc # "send" /\ u.pc = "send" => u.sent = <<Newest, NewestIsOver>>

LEMMA AskingIsQuiet ==
    ASSUME DeliveryInv, NEW t \in Tabs,
           \/ Queue!Start(t) \/ Queue!Stop(t) \/ Queue!Trigger(t)
           \/ Queue!RetryTimer(t)
           \/ \E c \in Captures : \/ Queue!Shoot(t, c) \/ Queue!Enqueue(t, c)
                                  \/ Queue!EnqueueCounts(t, c)
    PROVE  \E u : Queue!Becomes(t, u) /\ Quiet(t, u)
<1> DEFINE r == tab[t]
<1>1. r \in Queue!Uploader
    BY LinkParts
<1>2. ASSUME NEW v \in Queue!Uploader, v.pc = r.pc, v.item = r.item,
             v.sent = r.sent, v.stored = r.stored
      PROVE  Quiet(t, Queue!Asked(v)) /\ Quiet(t, v)
    BY <1>2, AskedLine DEF Quiet
<1>3. CASE Queue!Start(t)
    <2> DEFINE v == [r EXCEPT !.mounted = TRUE]
    <2>1. /\ v \in Queue!Uploader /\ v.pc = r.pc /\ v.item = r.item
          /\ v.sent = r.sent /\ v.stored = r.stored
        BY <1>1 DEF Queue!Uploader
    <2>2. Queue!Becomes(t, Queue!Asked(v))
        BY <1>3 DEF Queue!Start
    <2> HIDE DEF v, r
    <2> QED
        BY <1>2, <2>1, <2>2
<1>4. CASE Queue!Stop(t)
    <2> DEFINE v == [r EXCEPT !.mounted = FALSE, !.timer = Queue!Off]
    <2>1. /\ v \in Queue!Uploader /\ v.pc = r.pc /\ v.item = r.item
          /\ v.sent = r.sent /\ v.stored = r.stored
        BY <1>1 DEF Queue!Uploader, Queue!Timers
    <2>2. Queue!Becomes(t, v)
        BY <1>4 DEF Queue!Stop
    <2> HIDE DEF v, r
    <2> QED
        BY <1>2, <2>1, <2>2
<1>5. CASE Queue!Trigger(t)
    BY <1>1, <1>2, <1>5 DEF Queue!Trigger
<1>6. CASE Queue!RetryTimer(t)
    <2> DEFINE v == [r EXCEPT !.timer = Queue!Off]
    <2>1. /\ v \in Queue!Uploader /\ v.pc = r.pc /\ v.item = r.item
          /\ v.sent = r.sent /\ v.stored = r.stored
        BY <1>1 DEF Queue!Uploader, Queue!Timers
    <2>2. Queue!Becomes(t, Queue!Asked(v))
        BY <1>6 DEF Queue!RetryTimer
    <2> HIDE DEF v, r
    <2> QED
        BY <1>2, <2>1, <2>2
<1>7. ASSUME NEW c \in Captures, Queue!Shoot(t, c) \/ Queue!Enqueue(t, c)
      PROVE  \E u : Queue!Becomes(t, u) /\ Quiet(t, u)
    <2>1. ASSUME NEW S, NEW C,
                 Queue!Becomes(t, [r EXCEPT !.storing = S, !.counting = C])
          PROVE  \E u : Queue!Becomes(t, u) /\ Quiet(t, u)
        <3> DEFINE v == [r EXCEPT !.storing = S, !.counting = C]
        <3>1. /\ v.pc = r.pc /\ v.item = r.item
              /\ v.sent = r.sent /\ v.stored = r.stored
            BY <1>1 DEF Queue!Uploader
        <3>2. Quiet(t, v)
            BY <3>1 DEF Quiet
        <3> QED
            BY <2>1, <3>2
    <2>2. \A S : [r EXCEPT !.storing = S]
                    = [r EXCEPT !.storing = S, !.counting = r.counting]
        BY <1>1 DEF Queue!Uploader
    <2>3. CASE Queue!Shoot(t, c)
        <3>1. Queue!Becomes(t, [r EXCEPT !.storing = r.storing \cup {c}])
            BY <2>3 DEF Queue!Shoot
        <3> QED
            BY <2>1, <2>2, <3>1
    <2>4. CASE Queue!Enqueue(t, c)
        <3>1. \/ Queue!Becomes(t, [r EXCEPT !.storing = r.storing \ {c},
                                       !.counting = r.counting \cup {c}])
              \/ Queue!Becomes(t, [r EXCEPT !.storing = r.storing \ {c}])
            BY <2>4 DEF Queue!Enqueue
        <3> QED
            BY <2>1, <2>2, <3>1
    <2> QED
        BY <1>7, <2>3, <2>4
<1>8. ASSUME NEW c \in Captures, Queue!EnqueueCounts(t, c)
      PROVE  \E u : Queue!Becomes(t, u) /\ Quiet(t, u)
    <2> DEFINE v == [r EXCEPT !.counting = @ \ {c}, !.shown = Queue!Counts]
               w == [r EXCEPT !.counting = @ \ {c}]
    <2>1. Queue!Counts \in Queue!Shown
        BY QueueLemmas, SameData, Zenon DEF Queue!Shown, QP!Shown
    <2>2. /\ v \in Queue!Uploader /\ v.pc = r.pc /\ v.item = r.item
          /\ v.sent = r.sent /\ v.stored = r.stored
        BY <1>1, <2>1 DEF Queue!Uploader
    <2>3. /\ w \in Queue!Uploader /\ w.pc = r.pc /\ w.item = r.item
          /\ w.sent = r.sent /\ w.stored = r.stored
        BY <1>1 DEF Queue!Uploader
    <2>4. Queue!Becomes(t, Queue!Asked(v)) \/ Queue!Becomes(t, w)
        BY <1>8 DEF Queue!EnqueueCounts
    <2> HIDE DEF v, w, r
    <2> QED
        BY <1>2, <2>2, <2>3, <2>4
<1> QED
    BY <1>3, <1>4, <1>5, <1>6, <1>7, <1>8

LEMMA DrainIsQuiet ==
    ASSUME DeliveryInv, NEW t \in Tabs,
           \/ Queue!ReadDue(t) \/ Queue!Settle(t)
           \/ Queue!RefreshCounts(t) \/ Queue!ScheduleNextRetry(t)
    PROVE  \E u : Queue!Becomes(t, u) /\ Quiet(t, u)
<1> DEFINE r == tab[t]
<1>1. r \in Queue!Uploader
    BY LinkParts
<1>2. r.pc # "send"
    BY DEF Queue!ReadDue, Queue!Settle, Queue!Remove, Queue!Drop,
           Queue!MarkFailed, Queue!Retry, Queue!RefreshCounts,
           Queue!ScheduleNextRetry
<1>3. ASSUME NEW u, u.stored = r.stored, u.pc # "send" PROVE Quiet(t, u)
    BY <1>2, <1>3 DEF Quiet
<1>4. ASSUME NEW v \in Queue!Uploader, v.stored = r.stored,
             NEW u \in Queue!GoneOn(v)
      PROVE  Quiet(t, u)
    BY <1>2, <1>4, GoneOnLine DEF Quiet
<1>5. ASSUME NEW v \in Queue!Uploader, v.stored = r.stored
      PROVE  Quiet(t, Queue!Thrown(v))
    <2>1. Queue!Thrown(v).stored = r.stored /\ Queue!Thrown(v).pc = "counts"
        BY <1>5 DEF Queue!Thrown, Queue!Uploader
    <2> QED
        BY <1>3, <2>1
<1>6. CASE Queue!Settle(t)
    <2>1. \/ \E u \in Queue!GoneOn(r) : Queue!Becomes(t, u)
          \/ Queue!Becomes(t, Queue!Thrown(r))
          \/ Queue!Becomes(t, [r EXCEPT !.pc = "retry"])
        BY <1>6 DEF Queue!Settle, Queue!Remove, Queue!Drop, Queue!MarkFailed,
                    Queue!Retry, Queue!PutBack
    <2>2. Quiet(t, [r EXCEPT !.pc = "retry"])
        BY <1>1, <1>2 DEF Quiet, Queue!Uploader
    <2> HIDE DEF r
    <2> QED
        BY <1>1, <1>4, <1>5, <2>1, <2>2
<1>7. CASE Queue!ReadDue(t)
    <2> DEFINE todo == {<<c, store[c].attempts>> : c \in Queue!Due}
               v == [r EXCEPT !.again = FALSE, !.todo = todo]
               w == [r EXCEPT !.again = FALSE]
    <2>1. todo \in Queue!Todos
        <3>1. Queue!TypeOK
            BY LinkParts, SameTypes DEF QP!QueueInv
        <3>2. ASSUME NEW c \in Queue!Due
              PROVE  <<c, store[c].attempts>> \in Captures \X (0..MaxAttempts)
            BY <3>1 DEF Queue!Due, Queue!Pending, Queue!Stored, Queue!TypeOK,
                        Queue!Item, Queue!Absent
        <3> QED
            BY <3>2 DEF Queue!Todos
    <2> HIDE DEF todo
    <2>2. v \in Queue!Uploader /\ v.stored = r.stored
        BY <1>1, <2>1 DEF Queue!Uploader
    <2>3. w \in Queue!Uploader /\ w.stored = r.stored
        BY <1>1 DEF Queue!Uploader
    <2>4. \/ \E u \in Queue!GoneOn(v) : Queue!Becomes(t, u)
          \/ Queue!Becomes(t, Queue!Thrown(w))
        BY <1>7 DEF Queue!ReadDue, todo
    <2> HIDE DEF v, w, r
    <2> QED
        BY <1>4, <1>5, <2>2, <2>3, <2>4
<1>8. CASE Queue!RefreshCounts(t)
    <2> DEFINE v == [r EXCEPT !.shown = Queue!Counts, !.timer = Queue!Off,
                       !.pc = IF r.mounted THEN "schedule" ELSE "idle"]
               w == [r EXCEPT !.pc = "idle"]
    <2>1. /\ v.stored = r.stored /\ v.pc # "send"
          /\ w.stored = r.stored /\ w.pc # "send"
        BY <1>1 DEF Queue!Uploader
    <2>2. Queue!Becomes(t, v) \/ Queue!Becomes(t, w)
        BY <1>8 DEF Queue!RefreshCounts
    <2> HIDE DEF v, w, r
    <2> QED
        BY <1>3, <2>1, <2>2
<1>9. CASE Queue!ScheduleNextRetry(t)
    <2>1. ASSUME NEW delay
          PROVE  Quiet(t, [r EXCEPT !.pc = "idle", !.timer = delay])
        BY <1>1, <1>2 DEF Quiet, Queue!Uploader
    <2>2. Quiet(t, [r EXCEPT !.pc = "idle"])
        BY <1>1, <1>2 DEF Quiet, Queue!Uploader
    <2>3. \/ \E delay : Queue!Becomes(t, [r EXCEPT !.pc = "idle",
                                                   !.timer = delay])
          \/ Queue!Becomes(t, [r EXCEPT !.pc = "idle"])
        BY <1>9 DEF Queue!ScheduleNextRetry
    <2> HIDE DEF r
    <2> QED
        BY <2>1, <2>2, <2>3
<1> QED
    BY <1>6, <1>7, <1>8, <1>9

LEMMA PhoneRunsLinks ==
    ASSUME DeliveryInv, StorageInv', Grows, NEW t \in Tabs, PhoneRuns(t)
    PROVE  LinkInv'
<1>1. \E u : Queue!Becomes(t, u) /\ Quiet(t, u)
    BY AskingIsQuiet, DrainIsQuiet DEF PhoneRuns, Queue!Run
<1>2. UNCHANGED <<vars, line>>
    BY DEF PhoneRuns
<1>3. UNCHANGED <<late, several>>
    <2>1. Queue!Start(t) \/ Queue!Stop(t) \/ Queue!Trigger(t)
             \/ Queue!RetryTimer(t) => UNCHANGED <<late, several>>
        BY DEF Queue!Start, Queue!Stop, Queue!Trigger, Queue!RetryTimer,
               Queue!server
    <2>2. \A c \in Captures :
              Queue!Shoot(t, c) \/ Queue!Enqueue(t, c) \/ Queue!EnqueueCounts(t, c)
                  => UNCHANGED <<late, several>>
        BY DEF Queue!Shoot, Queue!Enqueue, Queue!EnqueueCounts, Queue!server
    <2>3. Queue!ReadDue(t) \/ Queue!RefreshCounts(t)
              \/ Queue!ScheduleNextRetry(t) => UNCHANGED <<late, several>>
        BY DEF Queue!ReadDue, Queue!RefreshCounts, Queue!ScheduleNextRetry,
               Queue!server
    <2>4. Queue!Settle(t) => UNCHANGED <<late, several>>
        BY DEF Queue!Settle, Queue!Remove, Queue!Drop, Queue!MarkFailed,
               Queue!Retry, Queue!PutBack, Queue!server
    <2> QED
        BY <2>1, <2>2, <2>3, <2>4 DEF PhoneRuns, Queue!Run
<1> QED
    BY <1>1, <1>2, <1>3, PhoneLinks DEF Quiet

LEMMA FreshTab ==
    Queue!Fresh.pc = "idle" /\ Queue!Fresh.stored = FALSE
BY DEF Queue!Fresh

LEMMA PhoneLeavesLinks ==
    ASSUME DeliveryInv, StorageInv', Grows, NEW t \in Tabs,
           PhoneReloads(t) \/ PhoneGivesUp(t) \/ TurnedAway(t)
    PROVE  LinkInv'
<1>1. /\ UNCHANGED <<now, events>> /\ UNCHANGED vars
      /\ \A g \in Handlers : req'[g] = req[g]
      /\ tab[t] \in Queue!Uploader
    BY LinkParts DEF PhoneReloads, PhoneGivesUp, TurnedAway, vars
<1>2. CASE PhoneReloads(t) /\ tab[t].pc = "send"
    <2>1. PICK u : u = Queue!Fresh
        OBVIOUS
    <2>2. /\ Queue!Becomes(t, u) /\ Queue!GivesUp(tab[t]) /\ HangsUp(t)
          /\ u.pc # "send" /\ u.stored = FALSE
        BY <1>2, <2>1, FreshTab DEF PhoneReloads, Queue!Reload
    <2> QED
        BY <1>1, <1>2, <2>2, LeavesLine
<1>3. CASE PhoneReloads(t) /\ tab[t].pc # "send"
    <2>1. PICK u : u = Queue!Fresh
        OBVIOUS
    <2>2. line[t] = OnItsWay /\ ~tab[t].stored
        BY <1>3, LinkParts DEF LineInv
    <2>3. line' = line
        BY <1>3, <2>2, LinkParts DEF PhoneReloads, HangsUp
    <2>4. Queue!Becomes(t, u) /\ UNCHANGED <<late, several>>
        BY <1>3, <2>1 DEF PhoneReloads, Queue!Reload
    <2>5. u.stored = tab[t].stored /\ u.pc # "send"
        BY <1>1, <2>1, <2>2, FreshTab, TabFields
    <2> QED
        BY <1>1, <1>3, <2>3, <2>4, <2>5, PhoneLinks
<1>4. CASE PhoneGivesUp(t)
    <2>1. PICK u : u = Queue!Answered(tab[t], "retry")
        OBVIOUS
    <2>2. u.pc = "retry" /\ u.stored = FALSE
        BY <1>1, <2>1, AnsweredTab
    <2>3. /\ Queue!Becomes(t, u) /\ Queue!GivesUp(tab[t]) /\ HangsUp(t)
          /\ tab[t].pc = "send"
        BY <1>4, <2>1 DEF PhoneGivesUp, Queue!NoReply
    <2> QED
        BY <1>1, <2>2, <2>3, LeavesLine
<1>5. CASE TurnedAway(t)
    <2>1. PICK u : u = Queue!Answered(tab[t], "fail")
        OBVIOUS
    <2>2. u.pc = "fail" /\ u.stored = FALSE
        BY <1>1, <2>1, AnsweredTab
    <2>3. /\ Queue!Becomes(t, u) /\ UNCHANGED <<late, several>>
          /\ tab[t].pc = "send" /\ line[t] = OnItsWay /\ line' = line
        BY <1>5, <2>1 DEF TurnedAway
    <2>4. HangsUp(t) /\ line[t] \notin Handlers
        BY <2>3, LinkParts, LinesAssumption DEF HangsUp
    <2> QED
        BY <1>1, <2>2, <2>3, <2>4, LeavesLine
<1> QED
    BY <1>2, <1>3, <1>4, <1>5

(* A handler that was idle has got an upload to serve. *)
LEMMA ReceivedUpload ==
    ASSUME StorageInv, NEW h \in Handlers, NEW c \in Captures,
           Receive(h, "upload", c, NoPhoto)
    PROVE  /\ Moves(h) /\ req[h].op # "upload" /\ UNCHANGED <<now, events>>
           /\ req'[h].op = "upload" /\ req'[h].pc = "load"
           /\ req'[h].client = c
<1> DEFINE r == [Idle EXCEPT !.op = "upload", !.pc = "load", !.client = c,
                             !.id = NoPhoto]
<1>1. r \in Request /\ r.op = "upload" /\ r.pc = "load" /\ r.client = c
    BY IdleIsRequest DEF Request, Ops, Calls, Idle
<1> HIDE DEF r
<1>2. req' = [req EXCEPT ![h] = r] /\ req[h] = Idle /\ UNCHANGED <<now, events>>
    BY DEF Receive, r, stored
<1> QED
    BY <1>1, <1>2, HandlerTypes DEF Moves, Idle

LEMMA ReachesLinks ==
    ASSUME DeliveryInv, StorageInv', Grows, NEW h \in Handlers, NEW t \in Tabs,
           Reaches(h, t)
    PROVE  LinkInv'
<1>1. /\ StorageInv /\ LineInv(t) /\ tab[t].pc = "send" /\ line[t] = OnItsWay
      /\ tab[t].item \in Captures /\ UNCHANGED <<late, several, tab>>
      /\ line \in [Tabs -> Handlers \cup {OnItsWay, Broken}]
    BY LinkParts, PhoneTypes DEF Reaches, phone
<1>2. /\ Moves(h) /\ req[h].op # "upload" /\ UNCHANGED <<now, events>>
      /\ req'[h].op = "upload" /\ req'[h].pc = "load"
      /\ req'[h].client = tab[t].item
    BY <1>1, ReceivedUpload DEF Reaches
<1>3. /\ line' \in [Tabs -> Handlers \cup {OnItsWay, Broken}]
      /\ line'[t] = h /\ \A s \in Tabs \ {t} : line'[s] = line[s]
    BY <1>1 DEF Reaches
<1>4. \A s \in Tabs : line[s] # h
    BY <1>2, ServesUploads
<1>5. ASSUME NEW s \in Tabs PROVE LineInv(s)'
    <2>1. CASE s = t
        <3>1. Serves(h, tab[t])'
            BY <1>1, <1>2 DEF Serves, LineInv, Admitted
        <3>2. SentBefore(tab'[t].sent, Newest', Past')
            BY <1>1, <1>2, StillNow DEF LineInv
        <3> QED
            BY <1>1, <1>3, <2>1, <3>1, <3>2, LinesAssumption DEF LineInv
    <2>2. CASE s # t
        <3>1. SameTab(s) /\ tab'[s].stored = tab[s].stored
            BY <1>1, <1>3, <2>2 DEF SameTab
        <3>2. line[s] \in Handlers => req'[line[s]] = req[line[s]]
            BY <1>2, <1>4 DEF Moves
        <3> QED
            BY <3>1, <3>2, LineStands
    <2> QED
        BY <2>1, <2>2
<1>6. ASSUME NEW g \in Handlers PROVE Keeps(g)
    <2>1. CASE g = h
        BY <1>2, <1>3, <2>1, StandingKeeps DEF Forgotten
    <2>2. CASE g # h
        <3>1. req'[g] = req[g]
            BY <1>2, <2>2 DEF Moves
        <3>2. Forgotten(g)' => Forgotten(g)
            BY <1>1, <1>3, <3>1, LinesAssumption DEF Forgotten
        <3> QED
            BY <3>1, <3>2, StandingKeeps
    <2> QED
        BY <2>1, <2>2
<1>7. /\ \A g \in Handlers : ForgottenInv(g)' /\ RaceInv(g)'
      /\ SoleInv'
    BY <1>1, <1>6, LinkParts, ForgottenStands, SoleStands
<1>8. LateInv'
    BY <1>1, LinkParts, LateStands
<1>9. LinesApart'
    BY <1>3, <1>4, LinkParts DEF LinesApart
<1> QED
    BY <1>3, <1>5, <1>7, <1>8, <1>9 DEF LinkInv

LEMMA ReachesLateLinks ==
    ASSUME DeliveryInv, StorageInv', Grows, NEW h \in Handlers, ReachesLate(h)
    PROVE  LinkInv'
<1>1. PICK c \in Captures :
          /\ late[c] <= MaxEvents /\ Receive(h, "upload", c, NoPhoto)
          /\ \/ c \in several
             \/ \A g \in Handlers : Forgotten(g) => req[g].client # c
    BY DEF ReachesLate
<1>2. StorageInv /\ UNCHANGED <<late, several, tab, line>>
    BY LinkParts DEF ReachesLate, phone
<1>3. /\ Moves(h) /\ req[h].op # "upload" /\ UNCHANGED <<now, events>>
      /\ req'[h].op = "upload" /\ req'[h].pc = "load" /\ req'[h].client = c
    BY <1>1, <1>2, ReceivedUpload
<1>4. MayLoad(late[c], Newest, Past)
    <2>1. late[c] # Queue!Never
        BY <1>1, LinkParts, PhonesAssumption DEF Queue!Never
    <2> QED
        BY <2>1, LinkParts DEF LateInv
<1>5. ASSUME NEW s \in Tabs PROVE LineInv(s)'
    <2>1. SameTab(s) /\ tab'[s].stored = tab[s].stored
        BY <1>2 DEF SameTab
    <2>2. line[s] \in Handlers => req'[line[s]] = req[line[s]]
        BY <1>3, ServesUploads DEF Moves
    <2> QED
        BY <2>1, <2>2, LineStands
<1>6. ASSUME NEW g \in Handlers, g # h PROVE Keeps(g)
    <2>1. req'[g] = req[g]
        BY <1>3, <1>6 DEF Moves
    <2> QED
        BY <1>2, <2>1, StandingKeeps DEF Forgotten
<1>7. ASSUME NEW g \in Handlers PROVE ForgottenInv(g)' /\ RaceInv(g)'
    <2>1. CASE g = h
        BY <1>2, <1>3, <1>4, <2>1, StillNow
           DEF ForgottenInv, Covers, Writing, RaceInv
    <2>2. CASE g # h
        BY <1>2, <1>6, <2>2, LinkParts, ForgottenStands
    <2> QED
        BY <2>1, <2>2
<1>8. SoleInv'
    <2> SUFFICES ASSUME NEW f \in Handlers, NEW g \in Handlers,
                        Forgotten(f)', Forgotten(g)', f # g,
                        req'[f].client = req'[g].client,
                        req'[f].client \notin several
                 PROVE  \/ Covers(MaxEvents + 1, f)'
                        \/ Covers(MaxEvents + 1, g)'
        BY <1>2 DEF SoleInv
    <2>1. \A k \in Handlers :
              k # h /\ Forgotten(k)' =>
                  Forgotten(k) /\ req'[k].client = req[k].client
        BY <1>6 DEF Keeps
    <2>2. f # h /\ g # h
        BY <1>1, <1>3, <2>1
    <2>3. Covers(MaxEvents + 1, f) \/ Covers(MaxEvents + 1, g)
        BY <2>1, <2>2, LinkParts DEF SoleInv
    <2>4. MaxEvents + 1 \in Int
        BY PhonesAssumption
    <2> QED
        BY <1>6, <2>2, <2>3, <2>4 DEF Keeps
<1>9. LateInv' /\ LinesApart'
    BY <1>2, LinkParts, LateStands, ApartStands
<1> QED
    BY <1>2, <1>5, <1>7, <1>8, <1>9, LinkParts DEF LinkInv

-----------------------------------------------------------------------------
(* Each step is one of the server and one of the queue *)

LEMMA ServerStep ==
    ASSUME DeliveryInv, [DeliveryNext]_deliveryVars
    PROVE  [Next]_vars
<1>1. CASE PhoneWaits \/ UNCHANGED deliveryVars
    BY <1>1 DEF PhoneWaits, deliveryVars
<1>2. CASE ServerDies \/ ClockTicks
    BY <1>2 DEF ServerDies, ClockTicks, Next
<1>3. ASSUME NEW t \in Tabs,
             PhoneRuns(t) \/ PhoneReloads(t) \/ PhoneGivesUp(t) \/ TurnedAway(t)
      PROVE  UNCHANGED vars
    BY <1>3 DEF PhoneRuns, PhoneReloads, PhoneGivesUp, TurnedAway
<1>4. ASSUME NEW t \in Tabs, NEW h \in Handlers, Reaches(h, t)
      PROVE  Next
    <2>1. tab[t].item \in Captures
        BY <1>4, LinkParts, PhoneTypes DEF Reaches
    <2> QED
        BY <1>4, <2>1 DEF Reaches, Arrive, Serve, Next
<1>5. ASSUME NEW h \in Handlers, ReachesLate(h) PROVE Next
    BY <1>5 DEF ReachesLate, Arrive, Serve, Next
<1>6. ASSUME NEW h \in Handlers, Works(h) PROVE Next
    BY <1>6 DEF Works, Arrive, Serve, Next
<1>7. ASSUME NEW h \in Handlers, Inserts(h) \/ Answers(h) PROVE Next
    BY <1>7 DEF Inserts, Answers, Serve, Next
<1> QED
    BY <1>1, <1>2, <1>3, <1>4, <1>5, <1>6, <1>7 DEF DeliveryNext

LEMMA QueueStutters ==
    ASSUME UNCHANGED <<now, events, photos, phone>>
    PROVE  UNCHANGED Queue!vars
BY DEF Queue!vars, phone, Newest, NewestIsOver, CurrentEvent, IsOver, Rows

LEMMA EventsGoBy ==
    ASSUME StorageInv, StorageInv', Grows, UNCHANGED <<photos, phone>>,
           Newest' \in {Newest, Newest + 1}
    PROVE  Queue!EndEvent \/ Queue!NextEvent \/ UNCHANGED Queue!vars
<1>1. /\ UNCHANGED <<Rows, late, several, taken, written, store, dropped, tab,
                     faults, reloads>>
      /\ NewestIsOver \in BOOLEAN /\ NewestIsOver' \in BOOLEAN
    BY DEF phone, Rows, NewestIsOver
<1>2. CASE Newest' = Newest
    <2>1. NewestIsOver => NewestIsOver'
        BY <1>2, NewestGrows, NewestType
    <2> QED
        BY <1>1, <1>2, <2>1, Zenon
           DEF Queue!EndEvent, Queue!vars, Queue!history
<1>3. CASE Newest' = Newest + 1
    <2>1. Newest < MaxEvents
        <3>1. Newest' \in 1..MaxEvents
            BY PhonesAssumption, TimeAssumption
               DEF StorageInv, TypeOK, Newest, CurrentEvent
        <3> QED
            BY <1>3, <3>1, NewestType, TimeAssumption
    <2> QED
        BY <1>1, <1>3, <2>1, Zenon DEF Queue!NextEvent, Queue!history
<1> QED
    BY <1>2, <1>3

LEMMA ServerQueue ==
    ASSUME DeliveryInv, StorageInv', Grows,
           \/ ServerDies \/ ClockTicks
           \/ \E h \in Handlers : \/ ReachesLate(h) \/ Works(h)
                                  \/ \E t \in Tabs : Reaches(h, t)
    PROVE  [Queue!Next]_(Queue!vars)
<1>1. StorageInv
    BY LinkParts
<1>2. CASE ServerDies
    BY <1>2, QueueStutters DEF ServerDies, Crash, stored
<1>3. CASE ClockTicks
    <2>1. UNCHANGED <<photos, phone>> /\ Newest' = Newest
        BY <1>3 DEF ClockTicks, Tick, stored, Newest, CurrentEvent
    <2> QED
        BY <1>1, <2>1, EventsGoBy DEF Queue!Next
<1>4. ASSUME NEW h \in Handlers, ReachesLate(h) \/ \E t \in Tabs : Reaches(h, t)
      PROVE  UNCHANGED Queue!vars
    BY <1>4, QueueStutters DEF ReachesLate, Reaches, Receive, stored
<1>5. ASSUME NEW h \in Handlers, Works(h), ~CreateEvent(h)
      PROVE  UNCHANGED Queue!vars
    <2>1. UNCHANGED phone
        BY <1>5 DEF Works
    <2>2. UNCHANGED <<now, events, photos>>
        BY <1>5 DEF Works, Receive, LoadEvent, CheckNoneRunning, SetActiveEvent,
               CheckRunning, FindDuplicate, PutPhoto, PutThumb, ResolveRace,
               stored
    <2> QED
        BY <2>1, <2>2, QueueStutters
<1>6. ASSUME NEW h \in Handlers, Works(h), CreateEvent(h)
      PROVE  [Queue!Next]_(Queue!vars)
    <2>1. UNCHANGED <<photos, phone>>
        BY <1>6 DEF Works, CreateEvent
    <2>2. Len(events) \in Nat /\ events \in Seq(0..MaxTime)
        BY <1>1, TimeAssumption DEF StorageInv, TypeOK
    <2>3. events' = events \/ Len(events') = Len(events) + 1
        BY <1>6, <2>2 DEF CreateEvent
    <2>4. CurrentEvent' = CurrentEvent \/ CurrentEvent' = CurrentEvent + 1
        BY <2>2, <2>3 DEF CurrentEvent
    <2>5. Newest' \in {Newest, Newest + 1}
        <3>1. CurrentEvent \in Nat
            BY <2>2 DEF CurrentEvent
        <3>2. CASE CurrentEvent' = CurrentEvent
            BY <3>2 DEF Newest
        <3>3. CASE CurrentEvent' = CurrentEvent + 1 /\ CurrentEvent = 0
            BY <3>3 DEF Newest
        <3>4. CASE CurrentEvent' = CurrentEvent + 1 /\ CurrentEvent # 0
            BY <3>1, <3>4 DEF Newest
        <3> QED
            BY <2>4, <3>2, <3>3, <3>4
    <2> QED
        BY <1>1, <2>1, <2>5, EventsGoBy DEF Queue!Next
<1> QED
    BY <1>2, <1>3, <1>4, <1>5, <1>6

(* The row of a tab that waits is Store; any other is StoreLate.            *)
LEMMA InsertsQueue ==
    ASSUME DeliveryInv, NEW h \in Handlers, Inserts(h)
    PROVE  [Queue!Next]_(Queue!vars)
<1> DEFINE e == req[h].event
           c == req[h].client
<1>1. /\ StorageInv /\ tab \in [Tabs -> Queue!Uploader] /\ LinesApart
      /\ UNCHANGED <<several, taken, written, store, dropped, faults, reloads>>
    BY LinkParts, PhoneTypes DEF Inserts
<1>2. /\ UNCHANGED <<now, events>> /\ UploadStep(h) /\ req[h].pc = "insert"
      /\ InsertsRow(h) \/ photos' = photos
    BY <1>1, CreatePhotoUpload DEF Inserts
<1>3. Newest' = Newest /\ NewestIsOver' = NewestIsOver
    BY <1>1, <1>2, StillNow
<1>4. CASE photos' = photos
    <2>1. tab' = [t \in Tabs |-> tab[t]] /\ late' = late
        BY <1>4 DEF Inserts
    <2>2. tab' = tab /\ UNCHANGED phone
        BY <1>1, <2>1 DEF phone
    <2> QED
        BY <1>2, <1>4, <2>2, QueueStutters
<1>5. CASE InsertsRow(h) /\ photos' # photos
    <2>1. /\ <<e, c>> \notin Rows /\ Rows' = Rows \cup {<<e, c>>}
          /\ c \in Captures /\ e \in 1..Len(events)
        BY <1>5 DEF InsertsRow
    <2>2. e \in Int /\ e <= Newest /\ Newest \in Int
        BY <1>1, <2>1, NewestType DEF Newest, CurrentEvent
    <2>3. tab' = [t \in Tabs |-> IF line[t] = h
                                   THEN [tab[t] EXCEPT !.stored = TRUE]
                                   ELSE tab[t]]
        BY <1>5 DEF Inserts
    <2>4. ASSUME NEW t \in Tabs, line[t] = h
          PROVE  Queue!Store(t)
        <3>1. /\ tab[t].pc = "send" /\ ~tab[t].stored /\ c = tab[t].item
              /\ Queue!First(tab[t].sent) <= e
            BY <1>2, <2>4, LinkParts, LinesAssumption
               DEF LineInv, Serves, Admitted
        <3>2. Queue!First(tab[t].sent) \in Int
            BY LinkParts, TabFields
        <3>3. e \in Queue!First(tab[t].sent)..Newest
            BY <2>2, <3>1, <3>2
        <3>4. Queue!Becomes(t, [tab[t] EXCEPT !.stored = TRUE])
            BY <1>1, <2>3, <2>4 DEF LinesApart, Queue!Becomes
        <3>5. late' = late
            BY <2>4 DEF Inserts, Forgotten
        <3> HIDE DEF e
        <3> QED
            BY <1>1, <1>3, <2>1, <3>1, <3>3, <3>4, <3>5, Zenon
               DEF Queue!Store, Queue!history
    <2>5. CASE \A t \in Tabs : line[t] # h
        <3>1. tab' = tab
            BY <1>1, <2>3, <2>5
        <3>2. Forgotten(h)
            BY <1>2, <2>5 DEF Forgotten, BeforeRow, UploadStep
        <3>3. late' = Queue!Spent(c)
            BY <1>5, <3>2 DEF Inserts
        <3>4. late[c] <= e /\ late[c] \in Int
            BY <1>2, <2>1, <3>2, LinkParts DEF ForgottenInv, Covers, Writing
        <3>5. e \in late[c]..Newest
            BY <2>2, <3>4
        <3>6. Queue!StoreLate
            <4> HIDE DEF e, c
            <4> QED
                BY <1>1, <1>3, <2>1, <3>1, <3>3, <3>5, Zenon
                   DEF Queue!StoreLate, Queue!history
        <3> QED
            BY <3>6 DEF Queue!Next
    <2> QED
        BY <2>4, <2>5 DEF Queue!Next
<1> QED
    BY <1>2, <1>4, <1>5

(* What a tab hears is what CaptureQueue lets it hear.                      *)
LEMMA HeardQueue ==
    ASSUME DeliveryInv, NEW h \in Handlers, Finish(h), NEW t \in Tabs,
           line[t] = h, Heard(t, req[h].status)
    PROVE  Queue!Reply(t) \/ Queue!NoReply(t)
<1> DEFINE u == tab[t]
           e == req[h].event
           first == Queue!First(u.sent)
<1>1. /\ StorageInv /\ u \in Queue!Uploader /\ u.pc = "send" /\ Serves(h, u)
      /\ req[h].pc = "done"
    BY LinkParts, LinesAssumption DEF LineInv, Finish
<1>2. /\ UNCHANGED <<taken, written, store, dropped, faults, reloads>>
      /\ UNCHANGED <<now, events, photos>>
    BY DEF Heard, Finish, stored
<1>3. UNCHANGED <<Newest, NewestIsOver, Rows>>
    BY <1>1, <1>2, StillNow DEF Rows
<1>4. CASE /\ req[h].status \in {200, 201} /\ UNCHANGED <<late, several>>
           /\ Queue!Becomes(t, Queue!Answered(u, "remove"))
    <2>1. req[h].client = u.item /\ first <= e /\ req[h].op = "upload"
        BY <1>1, <1>4 DEF Serves
    <2>2. PICK p \in photos : p.event = e /\ p.client = u.item
        <3>1. HandlerInv(h)
            BY <1>1 DEF StorageInv
        <3> QED
            BY <1>1, <1>4, <2>1, <3>1 DEF HandlerInv, Acked, Answered
    <2>3. e \in 1..Len(events)
        BY <2>2, LinkParts DEF AlbumInv, RowsNameEvents
    <2>4. e \in first..Newest /\ <<e, u.item>> \in Rows
        <3>1. first \in Int /\ Len(events) \in Nat
            BY <1>1, TabFields, NewestType
        <3>2. e <= Newest /\ e \in Int
            BY <2>3, <3>1 DEF Newest, CurrentEvent
        <3>3. <<e, u.item>> \in Rows
            BY <2>2 DEF Rows
        <3>4. Newest \in Int
            BY <1>1, NewestType
        <3> HIDE DEF e, first
        <3> QED
            BY <2>1, <3>1, <3>2, <3>3, <3>4
    <2> QED
        BY <1>1, <1>2, <1>3, <1>4, <2>4, Zenon
           DEF Queue!Reply, Queue!server, Queue!history
<1>5. CASE /\ req[h].status = 423 /\ UNCHANGED <<late, several>>
           /\ Queue!Becomes(t, Queue!Answered(u, "drop"))
    <2>1. Queue!Refuses(u.sent) /\ ~u.stored
        BY <1>1, <1>5 DEF Serves
    <2> QED
        BY <1>1, <1>2, <1>3, <1>5, <2>1, Zenon
           DEF Queue!Reply, Queue!server, Queue!history
<1>6. CASE /\ req[h].status \in {400, 404} /\ UNCHANGED <<late, several>>
           /\ Queue!Becomes(t, Queue!Answered(u, "fail"))
    <2>1. ~u.stored
        BY <1>1, <1>6 DEF Serves
    <2> QED
        BY <1>1, <1>2, <1>3, <1>6, <2>1, Zenon
           DEF Queue!Reply, Queue!server, Queue!history
<1>7. CASE Queue!GivesUp(u) /\ Queue!Becomes(t, Queue!Answered(u, "retry"))
    BY <1>1, <1>2, <1>3, <1>7, Zenon DEF Queue!NoReply, Queue!history
<1> QED
    BY <1>4, <1>5, <1>6, <1>7 DEF Heard

(* What the phone does by itself is its side of CaptureQueue. *)
LEMMA PhoneQueue ==
    ASSUME NEW t \in Tabs, PhoneRuns(t) \/ PhoneReloads(t) \/ PhoneGivesUp(t)
    PROVE  Queue!Next
<1>1. Queue!User(t) \/ Queue!Run(t) \/ Queue!Trigger(t)
          \/ Queue!RetryTimer(t) \/ Queue!NoReply(t)
    BY Zenon DEF PhoneRuns, PhoneReloads, PhoneGivesUp, Queue!User
<1> QED
    BY <1>1, Zenon DEF Queue!Next

(* Turned away before a handler has it, a request was not stored. *)
LEMMA TurnedAwayQueue ==
    ASSUME DeliveryInv, NEW t \in Tabs, TurnedAway(t)
    PROVE  Queue!Next
<1>1. ~tab[t].stored
    BY LinkParts DEF TurnedAway, LineInv
<1>2. UNCHANGED <<Newest, NewestIsOver, Rows>>
    BY DEF TurnedAway, vars, Newest, NewestIsOver, CurrentEvent, IsOver, Rows
<1>3. Queue!Reply(t)
    BY <1>1, <1>2, Zenon
       DEF TurnedAway, Queue!Reply, Queue!server, Queue!history
<1> QED
    BY <1>3, Zenon DEF Queue!Next

LEMMA AnswersQueue ==
    ASSUME DeliveryInv, NEW h \in Handlers, Answers(h)
    PROVE  [Queue!Next]_(Queue!vars)
<1>1. Finish(h) /\ UNCHANGED <<now, events, photos>>
    BY DEF Answers, Finish, stored
<1>2. CASE UNCHANGED phone
    BY <1>1, <1>2, QueueStutters
<1>3. ASSUME NEW t \in Tabs, line[t] = h, Heard(t, req[h].status)
      PROVE  Queue!Next
    <2>1. Queue!Reply(t) \/ Queue!NoReply(t)
        BY <1>1, <1>3, HeardQueue
    <2> QED
        BY <2>1, Zenon DEF Queue!Next
<1> QED
    BY <1>2, <1>3 DEF Answers

LEMMA QueueStep ==
    ASSUME DeliveryInv, StorageInv', Grows, [DeliveryNext]_deliveryVars
    PROVE  [Queue!Next]_(Queue!vars)
<1>1. CASE UNCHANGED deliveryVars
    BY <1>1, QueueStutters DEF deliveryVars, vars
<1>2. CASE PhoneWaits
    <2>1. UNCHANGED <<Newest, NewestIsOver, Rows>>
        BY <1>2 DEF PhoneWaits, vars, Newest, NewestIsOver, CurrentEvent,
                    IsOver, Rows
    <2> QED
        BY <1>2, Zenon DEF PhoneWaits, Queue!Next
<1>3. CASE ServerDies \/ ClockTicks
    BY <1>3, ServerQueue
<1>4. ASSUME NEW t \in Tabs,
             PhoneRuns(t) \/ PhoneReloads(t) \/ PhoneGivesUp(t) \/ TurnedAway(t)
      PROVE  Queue!Next
    BY <1>4, PhoneQueue, TurnedAwayQueue
<1>5. ASSUME NEW t \in Tabs, NEW h \in Handlers, Reaches(h, t)
      PROVE  [Queue!Next]_(Queue!vars)
    BY <1>5, ServerQueue
<1>6. ASSUME NEW h \in Handlers, ReachesLate(h) \/ Works(h)
      PROVE  [Queue!Next]_(Queue!vars)
    BY <1>6, ServerQueue
<1>7. ASSUME NEW h \in Handlers, Inserts(h) \/ Answers(h)
      PROVE  [Queue!Next]_(Queue!vars)
    BY <1>7, InsertsQueue, AnswersQueue
<1> QED
    BY <1>1, <1>2, <1>3, <1>4, <1>5, <1>6, <1>7 DEF DeliveryNext

-----------------------------------------------------------------------------
(* The inductive invariant *)

LEMMA LinkStep ==
    ASSUME DeliveryInv, StorageInv', Grows, [DeliveryNext]_deliveryVars
    PROVE  LinkInv'
<1>1. CASE UNCHANGED deliveryVars
    <2>1. UNCHANGED <<req, late, several, line, tab>>
        BY <1>1 DEF deliveryVars, vars, phone
    <2>2. \A t \in Tabs : KeepsLine(t) /\ SameTab(t)
        BY <2>1 DEF KeepsLine, SameTab
    <2> QED
        BY <2>1, <2>2, KeepsLineLinks
<1>2. CASE PhoneWaits \/ ServerDies \/ ClockTicks
    BY <1>2, PhoneWaitsLinks, ServerDiesLinks, ClockTicksLinks
<1>3. ASSUME NEW t \in Tabs,
             PhoneRuns(t) \/ PhoneReloads(t) \/ PhoneGivesUp(t) \/ TurnedAway(t)
      PROVE  LinkInv'
    BY <1>3, PhoneRunsLinks, PhoneLeavesLinks
<1>4. ASSUME NEW t \in Tabs, NEW h \in Handlers, Reaches(h, t)
      PROVE  LinkInv'
    BY <1>4, ReachesLinks
<1>5. ASSUME NEW h \in Handlers,
             ReachesLate(h) \/ Works(h) \/ Inserts(h) \/ Answers(h)
      PROVE  LinkInv'
    BY <1>5, ReachesLateLinks, WorksLinks, InsertsLinks, AnswersLinks
<1> QED
    BY <1>1, <1>2, <1>3, <1>4, <1>5 DEF DeliveryNext

LEMMA InitDeliveryInv == DeliveryInit => DeliveryInv
<1> SUFFICES ASSUME DeliveryInit PROVE DeliveryInv
    OBVIOUS
<1>1. StorageInv /\ AlbumInv /\ QP!QueueInv
    BY InitStorageInv, InitAlbumInv, SameInit, QueueLemmas DEF DeliveryInit
<1>2. /\ line = [t \in Tabs |-> OnItsWay] /\ tab = [t \in Tabs |-> Queue!Fresh]
      /\ late = [c \in Captures |-> Queue!Never]
      /\ req = [h \in Handlers |-> Idle]
    BY DEF DeliveryInit, Init, Queue!Init
<1>3. ASSUME NEW t \in Tabs PROVE LineInv(t)
    BY <1>2, FreshTab, LinesAssumption DEF LineInv
<1>4. /\ \A h \in Handlers : ForgottenInv(h) /\ RaceInv(h)
      /\ SoleInv
    BY <1>2 DEF ForgottenInv, Forgotten, RaceInv, SoleInv, Idle
<1>5. LinesApart
    BY <1>2, LinesAssumption DEF LinesApart
<1>6. LateInv
    BY <1>2 DEF LateInv
<1> QED
    BY <1>1, <1>2, <1>3, <1>4, <1>5, <1>6 DEF DeliveryInv, LinkInv

LEMMA DeliveryInvStep ==
    ASSUME DeliveryInv, [DeliveryNext]_deliveryVars
    PROVE  DeliveryInv' /\ [Queue!Next]_(Queue!vars)
<1>1. StorageInv /\ AlbumInv /\ [Next]_vars
    BY LinkParts, ServerStep
<1>2. StorageInv' /\ AlbumInv' /\ Grows
    BY <1>1, NextStorageInv, NextAlbumInv, StepGrows
<1>3. LinkInv' /\ [Queue!Next]_(Queue!vars)
    BY <1>2, LinkStep, QueueStep
<1>4. QP!QueueInv'
    <2>1. [QP!Next]_(QP!vars)
        BY <1>3, SameNext, Zenon DEF Queue!vars, QP!vars
    <2> QED
        BY <2>1, LinkParts, QueueLemmas
<1> QED
    BY <1>2, <1>3, <1>4 DEF DeliveryInv

LEMMA DeliveryInvHolds == DeliverySpec => []DeliveryInv
<1>1. DeliveryInv /\ [DeliveryNext]_deliveryVars => DeliveryInv'
    BY DeliveryInvStep
<1> QED
    BY <1>1, InitDeliveryInv, PTL DEF DeliverySpec

-----------------------------------------------------------------------------
(* The theorems *)

(* What the phones do to the server is no more than PhotoServer lets its    *)
(* clients do, so all that is proved of the server holds behind the phones. *)
THEOREM PhonesAreClients == DeliverySpec => Spec
<1>1. DeliveryInit => Init
    BY DEF DeliveryInit
<1>2. DeliveryInv /\ [DeliveryNext]_deliveryVars => [Next]_vars
    BY ServerStep
<1> QED
    BY <1>1, <1>2, DeliveryInvHolds, PTL DEF DeliverySpec, Spec

(* The handlers, the rows and the clock are the server of CaptureQueue: for *)
(* any number of tabs, handlers, captures and events, whatever is lost,     *)
(* late or sent twice, every step is one that its server may take.          *)
THEOREM HandlersAreTheServer == DeliverySpec => KeepsQueue
<1>1. DeliveryInit => Queue!Init
    BY DEF DeliveryInit
<1>2. DeliveryInv /\ [DeliveryNext]_deliveryVars => [Queue!Next]_(Queue!vars)
    BY DeliveryInvStep
<1> QED
    BY <1>1, <1>2, DeliveryInvHolds, PTL
       DEF DeliverySpec, KeepsQueue, Queue!Spec

(* Every variable of phones, line and server has its type. *)
THEOREM DeliveryTypes == DeliverySpec => []DeliveryTypeOK
<1>1. ASSUME DeliveryInv PROVE DeliveryTypeOK
    <2>1. Queue!TypeOK
        BY <1>1, SameTypes DEF DeliveryInv, QP!QueueInv
    <2> QED
        BY <1>1, <2>1 DEF DeliveryInv, LinkInv, StorageInv, DeliveryTypeOK
<1>2. DeliveryInv => DeliveryTypeOK
    BY <1>1
<1> QED
    BY <1>2, DeliveryInvHolds, PTL

(* A capture that was written down is on the phone, or was refused because  *)
(* the trip was over, or is in an album with its picture and thumbnail.     *)
THEOREM NothingIsNowhere == DeliverySpec => []DeliveredOrHeld
<1>1. ASSUME DeliveryInv PROVE DeliveredOrHeld
    <2>1. Queue!NothingLost /\ RowsHaveObjects
        BY <1>1, LinkParts, PhoneTypes DEF StorageInv
    <2>2. ASSUME NEW c \in Captures, NEW e, <<e, c>> \in Rows PROVE InAlbum(c)
        <3>1. PICK p \in photos : <<p.event, p.client>> = <<e, c>>
            BY <2>2 DEF Rows
        <3> QED
            BY <2>1, <3>1 DEF InAlbum, RowsHaveObjects
    <2>3. written \subseteq Captures
        BY <1>1, LinkParts, PhoneTypes
    <2> QED
        BY <2>1, <2>2, <2>3 DEF Queue!NothingLost, DeliveredOrHeld
<1>2. DeliveryInv => DeliveredOrHeld
    BY <1>1
<1> QED
    BY <1>2, DeliveryInvHolds, PTL

-----------------------------------------------------------------------------
(* The only tab.  What is known of it beside the queue's server is known of *)
(* it beside the handlers.                                                  *)

OneDelivery == DeliveryInv /\ \A t \in Tabs : QP!OneInv(t)

LEMMA OneDeliveryHolds == QP!OnlyTab => (DeliverySpec => []OneDelivery)
<1> SUFFICES ASSUME QP!OnlyTab PROVE DeliverySpec => []OneDelivery
    OBVIOUS
<1>1. DeliveryInit => OneDelivery
    BY InitDeliveryInv, SameInit, QueueLemmas DEF DeliveryInit, OneDelivery
<1>2. ASSUME OneDelivery, [DeliveryNext]_deliveryVars PROVE OneDelivery'
    <2>1. DeliveryInv' /\ [Queue!Next]_(Queue!vars)
        BY <1>2, DeliveryInvStep DEF OneDelivery
    <2>2. [QP!Next]_(QP!vars)
        BY <2>1, SameNext, Zenon DEF Queue!vars, QP!vars
    <2>3. QP!QueueInv /\ \A t \in Tabs : QP!OneInv(t)
        BY <1>2, Zenon DEF OneDelivery, DeliveryInv
    <2>4. \A t \in Tabs : QP!OneInv(t)'
        BY <2>2, <2>3, QP!OneInvStep,
           PhonesAssumption, CapturesAssumption, Zenon
           DEF IsFiniteSet, QP!IsFiniteSet
    <2> QED
        BY <2>1, <2>4 DEF OneDelivery
<1>3. OneDelivery /\ [DeliveryNext]_deliveryVars => OneDelivery'
    BY <1>2
<1> QED
    BY <1>1, <1>3, PTL DEF DeliverySpec

(* A capture that the only tab gives up on its first try is in no album,    *)
(* and no handler is past the lock with it: what it says then is true.      *)
THEOREM FirstRefusalsAreFinal == QP!OnlyTab => (DeliverySpec => []RefusedForGood)
<1> SUFFICES ASSUME QP!OnlyTab PROVE DeliverySpec => []RefusedForGood
    OBVIOUS
<1>1. ASSUME OneDelivery PROVE RefusedForGood
    <2> SUFFICES ASSUME NEW t \in Tabs, tab[t].pc = "drop", tab[t].tries = 0,
                        reloads = 0, "write" \notin faults
                 PROVE  /\ \A p \in photos : p.client # tab[t].item
                        /\ \A h \in Handlers :
                               req[h].op = "upload" /\ req[h].pc \in Admitted =>
                                   req[h].client # tab[t].item
        BY DEF RefusedForGood
    <2> DEFINE c == tab[t].item
    <2>1. c \in QP!Stored /\ store[c].attempts = 0
        BY <1>1, Zenon DEF OneDelivery, QP!OneInv, QP!OwnInv, QP!HasRead,
                           QP!Settling
    <2>2. c \in Captures
        BY <2>1 DEF QP!Stored
    <2>3. ~QP!Reached(c)
        <3>1. ~(0 > 0) /\ "drop" \notin {"send", "remove", "retry"}
            OBVIOUS
        <3> QED
            BY <1>1, <2>1, <2>2, <3>1, Zenon DEF OneDelivery, QP!OneInv, QP!TruthInv
    <2>4. ~(late[c] <= MaxEvents) /\ \A e \in 1..MaxEvents : <<e, c>> \notin Rows
        BY <2>3, Zenon DEF QP!Reached
    <2>5. DeliveryInv
        BY <1>1 DEF OneDelivery
    <2>6. ASSUME NEW p \in photos, p.client = c PROVE FALSE
        <3>1. p.event \in 1..MaxEvents
            BY <2>5, LinkParts DEF StorageInv, TypeOK, Photo
        <3>2. <<p.event, c>> \in Rows
            BY <2>6 DEF Rows
        <3> QED
            BY <2>4, <3>1, <3>2
    <2>7. ASSUME NEW h \in Handlers, req[h].op = "upload",
                 req[h].pc \in Admitted, req[h].client = c
          PROVE  FALSE
        <3>1. line[t] = OnItsWay /\ \A s \in Tabs : s = t
            BY <2>5, LinkParts DEF LineInv, QP!OnlyTab
        <3>2. req[h].event \in 1..MaxEvents /\ MaxEvents \in Nat
            BY <2>5, <2>7, LinkParts, HandlerTypes, NewestType, PhonesAssumption
        <3>3. CASE req[h].pc = "resolve"
            <4>1. <<req[h].event, c>> \in Rows
                BY <2>5, <2>7, <3>3, LinkParts DEF RaceInv
            <4> QED
                BY <2>4, <3>2, <4>1
        <3>4. CASE req[h].pc \in Writing
            <4>1. Forgotten(h)
                BY <2>7, <3>1, <3>4, LinesAssumption
                   DEF Forgotten, BeforeRow, Writing
            <4>2. late[c] <= req[h].event /\ late[c] \in Int
                BY <2>2, <2>5, <2>7, <3>4, <4>1, LinkParts
                   DEF ForgottenInv, Covers
            <4> QED
                BY <2>4, <3>2, <4>2
        <3> QED
            BY <2>7, <3>3, <3>4 DEF Admitted, Writing
    <2> QED
        BY <2>6, <2>7
<1>2. OneDelivery => RefusedForGood
    BY <1>1
<1> QED
    BY <1>2, OneDeliveryHolds, PTL
=============================================================================
