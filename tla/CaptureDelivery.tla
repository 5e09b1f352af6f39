-------------------------- MODULE CaptureDelivery --------------------------
(* A capture's way from the shutter to the album: the tabs of CaptureQueue  *)
(* send to the handlers of PhotoServer.  "line" says how far the request of *)
(* a tab has come.  CaptureQueue has a server of one step, which it asks    *)
(* to store, to refuse and to answer; here that server is the handlers,     *)
(* the rows and the clock, and what they do is all that it does.            *)
(*                                                                          *)
(* Only starts of events and uploads are served here: what reads the album  *)
(* changes nothing that a capture depends on.                               *)
EXTENDS PhotoServer, FiniteSets

CONSTANTS
    Tabs, MaxBackoff, MaxAttempts, MayFail, MaxReloads,   \* of CaptureQueue
    OnItsWay,   \* no handler has the request yet, or there is none
    Broken      \* the connection is gone, with what the handler had to say

ASSUME LinesAssumption ==
    OnItsWay \notin Handlers /\ Broken \notin Handlers /\ OnItsWay # Broken
ASSUME PhonesAssumption ==
    /\ IsFiniteSet(Captures)
    /\ MaxBackoff \in Nat \ {0} /\ MaxAttempts \in Nat \ {0}
    /\ 2 ^ (MaxAttempts - 1) >= MaxBackoff
    /\ \A n \in 1..MaxAttempts : 2 ^ (n - 1) \in Nat
    /\ MayFail \subseteq {"read", "write"} /\ MaxReloads \in Nat
    /\ MaxEvents \in Nat \ {0}

VARIABLES
    late, several, taken, written, store, dropped, tab, faults, reloads,
    line           \* the handler that serves each tab, or OnItsWay or Broken

phone == <<late, several, taken, written, store, dropped, tab, faults, reloads>>
deliveryVars == <<vars, phone, line>>

(* The server as the phone sees it.  Before the first event there is none   *)
(* that could be over.                                                      *)
Newest == IF CurrentEvent = 0 THEN 1 ELSE CurrentEvent
NewestIsOver == CurrentEvent > 0 /\ IsOver(CurrentEvent)
Rows == {<<p.event, p.client>> : p \in photos}

Queue == INSTANCE CaptureQueue WITH
    event <- Newest, over <- NewestIsOver, kept <- Rows

DeliveryInit ==
    /\ Init
    /\ Queue!Init
    /\ line = [t \in Tabs |-> OnItsWay]

HangsUp(t) == line' = [line EXCEPT ![t] = OnItsWay]

-----------------------------------------------------------------------------
(* The phone *)

(* A drain, a shutter, a trigger, a timer: nothing that the server notices. *)
PhoneRuns(t) ==
    /\ UNCHANGED <<vars, line>>
    /\ \/ Queue!Run(t) \/ Queue!Start(t) \/ Queue!Stop(t)
       \/ Queue!Trigger(t) \/ Queue!RetryTimer(t)
       \/ \E c \in Captures : Queue!Shoot(t, c)

PhoneWaits == UNCHANGED <<vars, line>> /\ Queue!Tick

PhoneReloads(t) == UNCHANGED vars /\ Queue!Reload(t) /\ HangsUp(t)

(* The network is gone, or what comes back is no answer of the server.      *)
PhoneGivesUp(t) == UNCHANGED vars /\ Queue!NoReply(t) /\ HangsUp(t)

(* A 4xx before a handler has the request: the session's, above all.        *)
TurnedAway(t) ==
    /\ UNCHANGED <<vars, line>>
    /\ tab[t].pc = "send" /\ line[t] = OnItsWay
    /\ Queue!Becomes(t, Queue!Answered(tab[t], "fail"))
    /\ UNCHANGED <<late, several, taken, written, store, dropped, faults,
                   reloads>>

-----------------------------------------------------------------------------
(* The line *)

Reaches(h, t) ==
    /\ tab[t].pc = "send" /\ line[t] = OnItsWay
    /\ Receive(h, "upload", tab[t].item, NoPhoto)
    /\ line' = [line EXCEPT ![t] = h]
    /\ UNCHANGED phone

(* An upload that nobody waits for any more, and that may yet insert a row. *)
BeforeRow == {"load", "check", "find", "putPhoto", "putThumb", "insert"}

Forgotten(h) ==
    /\ req[h].op = "upload" /\ req[h].pc \in BeforeRow
    /\ \A t \in Tabs : line[t] # h

(* A request nobody waits for any more gets through all the same, if it is  *)
(* not there already.                                                       *)
ReachesLate(h) ==
    /\ \E c \in Captures :
          /\ late[c] <= MaxEvents
          /\ \/ c \in several
             \/ \A g \in Handlers : Forgotten(g) => req[g].client # c
          /\ Receive(h, "upload", c, NoPhoto)
    /\ UNCHANGED <<phone, line>>

SlipHeard(t, status) ==
    /\ Queue!Becomes(t, Queue!Answered(tab[t],
           IF status \in {200, 201, 500} THEN "remove"
           ELSE IF status = 423 THEN "drop" ELSE "fail"))
    /\ UNCHANGED <<late, several, taken, written, store, dropped, faults,
                   reloads>>

(* What the uploader makes of a status: stored; locked; permanent, which is *)
(* any other 4xx; and else a retry.                                         *)
Heard(t, status) ==
    /\ \/ /\ status \in {200, 201} /\ UNCHANGED <<late, several>>
          /\ Queue!Becomes(t, Queue!Answered(tab[t], "remove"))
       \/ /\ status = 423 /\ UNCHANGED <<late, several>>
          /\ Queue!Becomes(t, Queue!Answered(tab[t], "drop"))
       \/ /\ status \in {400, 404} /\ UNCHANGED <<late, several>>
          /\ Queue!Becomes(t, Queue!Answered(tab[t], "fail"))
       \/ /\ status = 500 /\ Queue!GivesUp(tab[t])
          /\ Queue!Becomes(t, Queue!Answered(tab[t], "retry"))
    /\ UNCHANGED <<taken, written, store, dropped, faults, reloads>>

(* The answer arrives, or is lost, or nobody is there to hear it.           *)
Answers(h) ==
    /\ Finish(h)
    /\ \/ \E t \in Tabs : /\ line[t] = h /\ Heard(t, req[h].status)
                          /\ HangsUp(t)
       \/ /\ line' = [t \in Tabs |-> IF line[t] = h THEN Broken ELSE line[t]]
          /\ UNCHANGED phone

-----------------------------------------------------------------------------
(* The server *)

Works(h) ==
    /\ \/ Receive(h, "create", NoCapture, NoPhoto)
       \/ LoadEvent(h)
       \/ CheckNoneRunning(h) \/ CreateEvent(h) \/ SetActiveEvent(h)
       \/ CheckRunning(h) \/ FindDuplicate(h)
       \/ PutPhoto(h) \/ PutThumb(h) \/ ResolveRace(h)
    /\ UNCHANGED <<phone, line>>

(* The row of a tab that waits is noted with it, and one that nobody waits  *)
(* for is not stored again; CaptureQueue speaks of both.                    *)
Inserts(h) ==
    /\ CreatePhoto(h)
    /\ late' = IF Forgotten(h) /\ photos' # photos
                THEN Queue!Spent(req[h].client) ELSE late
    /\ tab' = [t \in Tabs |->
                  IF line[t] = h /\ photos' # photos
                    THEN [tab[t] EXCEPT !.stored = TRUE]
                    ELSE tab[t]]
    /\ UNCHANGED <<several, taken, written, store, dropped, faults, reloads,
                   line>>

ServerDies ==
    /\ Crash
    /\ line' = [t \in Tabs |-> IF line[t] \in Handlers THEN Broken
                                                       ELSE line[t]]
    /\ UNCHANGED phone

ClockTicks == Tick /\ UNCHANGED <<phone, line>>

DeliveryNext ==
    \/ PhoneWaits \/ ServerDies \/ ClockTicks
    \/ \E t \in Tabs : \/ PhoneRuns(t) \/ PhoneReloads(t) \/ PhoneGivesUp(t)
                       \/ TurnedAway(t)
                       \/ \E h \in Handlers : Reaches(h, t)
    \/ \E h \in Handlers : ReachesLate(h) \/ Works(h) \/ Inserts(h) \/ Answers(h)

DeliverySpec == DeliveryInit /\ [][DeliveryNext]_deliveryVars

-----------------------------------------------------------------------------
(* What phone and server owe together *)

(* Every variable has its type. *)
DeliveryTypeOK ==
    /\ TypeOK
    /\ Queue!TypeOK
    /\ line \in [Tabs -> Handlers \cup {OnItsWay, Broken}]

(* Where an upload is that has found its event running. *)
Admitted == {"find", "putPhoto", "putThumb", "insert", "resolve"}

InAlbum(c) == \E p \in photos : p.client = c /\ HasObjects(p)

(* A picture that was taken and written down is never nowhere: it is on the *)
(* phone, or the server has said that the trip was over, or an event's      *)
(* album has it with its picture and thumbnail; wherever the network, the   *)
(* page, IndexedDB, the bucket, Postgres or the server fails (README.md: it *)
(* is written to IndexedDB before the network is touched; upload.go).       *)
DeliveredOrHeld ==
    \A c \in written : c \in Queue!Stored \/ c \in dropped \/ InAlbum(c)

(* In the only tab, a capture that is given up on its first try is in no    *)
(* album, and no handler has let an upload of it past the lock, so none     *)
(* will put it there behind the phone's back (uploader.ts: "The server will *)
(* never take it"), unless the page was reloaded or a write failed          *)
(* meanwhile.  After a try whose answer was lost it need not be so.         *)
RefusedForGood ==
    \A t \in Tabs :
        /\ tab[t].pc = "drop" /\ tab[t].tries = 0
        /\ reloads = 0 /\ "write" \notin faults
        => /\ \A p \in photos : p.client # tab[t].item
           /\ \A h \in Handlers :
                  req[h].op = "upload" /\ req[h].pc \in Admitted =>
                      req[h].client # tab[t].item

(* The handlers are the server that CaptureQueue takes for granted: a row   *)
(* is stored under no event older than the request, an answer is the one    *)
(* to the request that the tab sent last, a 423 means that an event was     *)
(* over since then, and a 200 or 201 means a row; so all that is shown of   *)
(* the phone with that server holds with this one.                          *)
KeepsQueue == Queue!Spec
=============================================================================
