---------------------------- MODULE CaptureQueue ----------------------------
(* The phone's side of an upload: the shutter writes a capture to IndexedDB *)
(* (photoQueue.ts) and the uploader (uploader.ts) drains that store, one    *)
(* capture at a time, with backoff, until the server has answered for each. *)
(*                                                                          *)
(* A tab runs JavaScript: between two awaits nothing interleaves, and at an *)
(* await anything may.  So one action is the code from one await to the     *)
(* next, and "pc" names what the tab's drain is waiting for.  Shutter,      *)
(* timers, the uploader's start and stop, a reload, and the other tabs that *)
(* share the store interleave with it.  The server here is POST             *)
(* /events/current/photos as the phone sees it; PhotoServer has its inside. *)
(*                                                                          *)
(* One unit of time is BASE_BACKOFF_MS.  Instants are kept as what is left  *)
(* until them, so the state space is finite although time is not.           *)
EXTENDS Integers, FiniteSets

CONSTANTS
    Tabs,          \* pages of the app open in one browser
    Captures,      \* the clientIds crypto.randomUUID returns, one per capture
    NoCapture,     \* "no capture"
    TakenAt,       \* when each capture is taken
    MaxBackoff,    \* MAX_BACKOFF_MS in units of BASE_BACKOFF_MS
    MaxAttempts,   \* the attempts from which backoffMs no longer grows
    MayFail,       \* the kinds of IndexedDB request that fail some time (a bound)
    MaxEvents,     \* how many events the trip has (a bound)
    MaxReloads     \* how often a page is reloaded or killed (a bound)

ASSUME CapturesAssumption ==
    /\ NoCapture \notin Captures /\ IsFiniteSet(Captures)
    /\ TakenAt \in [Captures -> Nat]
ASSUME BackoffAssumption ==
    /\ MaxBackoff \in Nat \ {0} /\ MaxAttempts \in Nat \ {0}
    /\ 2 ^ (MaxAttempts - 1) >= MaxBackoff
ASSUME PowersAssumption == \A n \in 1..MaxAttempts : 2 ^ (n - 1) \in Nat
ASSUME BoundsAssumption ==
    MayFail \subseteq {"read", "write"}
        /\ MaxEvents \in Nat \ {0} /\ MaxReloads \in Nat

VARIABLES
    event,     \* the server's current event
    over,      \* whether it is over
    kept,      \* <<event, capture>> pairs the server has stored
    late,      \* for each capture, the first event that may take an upload of
               \* it for which no tab waits any more, or Never
    several,   \* the captures of which there may be more than one such upload
    taken,     \* the captures the shutter has made so far (history)
    written,   \* captures that were written to the store (history)
    store,     \* the IndexedDB object store: an item or Absent per capture
    dropped,   \* captures given up because the server was locked (history)
    tab,       \* each tab's uploader
    faults,    \* the kinds of IndexedDB failure there have been
    reloads    \* how many reloads there have been

vars == <<event, over, kept, late, several, taken, written, store, dropped,
          tab, faults, reloads>>
server == <<event, over, kept, late, several>>
history == <<taken, written>>

-----------------------------------------------------------------------------
(* The data *)

Off == -1                    \* no timer
Absent == [attempts |-> -1]  \* no item under this key

Item == [attempts : 0..MaxAttempts, wait : 0..MaxBackoff, failed : BOOLEAN]

(* Where a drain can be: nowhere, about to read what is due, waiting for    *)
(* the server, for one of the four ways to settle the item it sent, or in   *)
(* the finally block.                                                       *)
Steps == {"idle", "read", "send", "remove", "drop", "fail", "retry",
          "counts", "schedule"}

Todos == SUBSET (Captures \X (0..MaxAttempts))
Timers == {Off} \cup 0..MaxBackoff
Items == Captures \cup {NoCapture}
Tries == 0..MaxAttempts
Shown == Nat \X Nat
Times == (1..MaxEvents) \X BOOLEAN   \* the event of that time, and if over
Begin == <<1, FALSE>>
Never == MaxEvents + 1

Uploader ==
    [mounted : BOOLEAN,                 \* this.started
     pc : Steps,                        \* "idle" when this.draining is null
     again : BOOLEAN,
     todo : Todos,                      \* what is due, with its attempts
     item : Items, tries : Tries,       \* what is being sent
     sent : Times, stored : BOOLEAN,    \* since when, and if it was stored
     timer : Timers,
     storing : SUBSET Captures,         \* enqueue waits for its put,
     counting : SUBSET Captures,        \* or for the counts after it
     shown : Shown]                 \* status.pending, status.failed

Fresh == [mounted |-> FALSE, pc |-> "idle", again |-> FALSE, todo |-> {},
          item |-> NoCapture, tries |-> 0, sent |-> Begin,
          stored |-> FALSE, timer |-> Off, storing |-> {}, counting |-> {},
          shown |-> <<0, 0>>]

Stored == {c \in Captures : store[c] # Absent}
Pending == {c \in Stored : ~store[c].failed}
Counts == <<Cardinality(Pending), Cardinality(Stored \ Pending)>>

(* queue.due *)
SlipDue == {c \in Pending : store[c].wait < 0}
Due == {c \in Pending : store[c].wait = 0}

Lesser(m, n) == IF m <= n THEN m ELSE n

SlipBackoff(attempts) == 2 ^ attempts

(* backoffMs *)
Backoff(attempts) == Lesser(2 ^ (attempts - 1), MaxBackoff)

Init ==
    /\ event = 1 /\ over = FALSE /\ kept = {}
    /\ late = [c \in Captures |-> Never] /\ several = {}
    /\ taken = {} /\ written = {}
    /\ store = [c \in Captures |-> Absent]
    /\ dropped = {}
    /\ tab = [t \in Tabs |-> Fresh]
    /\ faults = {} /\ reloads = 0

-----------------------------------------------------------------------------
(* The drain, as a function of the tab's record *)

(* drain(): start one, or fold the request into the one that runs. *)
Asked(u) == IF u.pc = "idle" THEN [u EXCEPT !.pc = "read"]
                             ELSE [u EXCEPT !.again = TRUE]

Sending(u, i) ==
    [u EXCEPT !.pc = "send", !.todo = @ \ {i}, !.item = i[1], !.tries = i[2],
              !.sent = <<event, over>>]
LoopLeft(u) ==
    [u EXCEPT !.pc = IF u.again THEN "read" ELSE "counts",
              !.item = NoCapture, !.tries = 0]

SlipGoneOn(u) ==
    {[Sending(u, i) EXCEPT !.todo = u.todo] : i \in u.todo}
    \cup {v \in {LoopLeft(u)} : u.todo = {}}

(* The loop goes on: the oldest capture that is left, or another round if   *)
(* one was asked for, or the finally block.                                 *)
GoneOn(u) ==
    {Sending(u, i) :
        i \in {j \in u.todo : \A k \in u.todo : TakenAt[j[1]] <= TakenAt[k[1]]}}
    \cup {v \in {LoopLeft(u)} : u.todo = {}}

(* The loop is left by an exception: only the finally block is still run. *)
Thrown(u) ==
    [u EXCEPT !.pc = "counts", !.todo = {}, !.item = NoCapture, !.tries = 0]

(* A request to IndexedDB fails: each kind once (a bound). *)
Fails(kind) == kind \in MayFail \ faults /\ faults' = faults \cup {kind}

Becomes(t, u) == tab' = [tab EXCEPT ![t] = u]

-----------------------------------------------------------------------------
(* What asks for a drain *)

(* useUploader mounts with the camera screen. *)
Start(t) ==
    /\ ~tab[t].mounted
    /\ Becomes(t, Asked([tab[t] EXCEPT !.mounted = TRUE]))
    /\ UNCHANGED <<server, history, store, dropped, faults, reloads>>

Stop(t) ==
    /\ tab[t].mounted
    /\ Becomes(t, [tab[t] EXCEPT !.mounted = FALSE, !.timer = Off])
    /\ UNCHANGED <<server, history, store, dropped, faults, reloads>>

(* The browser is back online, the tab is visible again, or the sweep. *)
Trigger(t) ==
    /\ tab[t].mounted
    /\ Becomes(t, Asked(tab[t]))
    /\ UNCHANGED <<server, history, store, dropped, faults, reloads>>

RetryTimer(t) ==
    /\ tab[t].timer = 0
    /\ Becomes(t, Asked([tab[t] EXCEPT !.timer = Off]))
    /\ UNCHANGED <<server, history, store, dropped, faults, reloads>>

(* The shutter: enqueue is called and reads the blob's bytes. *)
Shoot(t, c) ==
    /\ tab[t].mounted /\ c \notin taken
    /\ taken' = taken \cup {c}
    /\ Becomes(t, [tab[t] EXCEPT !.storing = @ \cup {c}])
    /\ UNCHANGED <<server, written, store, dropped, faults, reloads>>

(* The put of queue.enqueue.  When it fails the capture is gone. *)
Enqueue(t, c) ==
    /\ c \in tab[t].storing
    /\ \/ /\ store' = [store EXCEPT ![c] =
                          [attempts |-> 0, wait |-> 0, failed |-> FALSE]]
          /\ written' = written \cup {c}
          /\ Becomes(t, [tab[t] EXCEPT !.storing = @ \ {c},
                                       !.counting = @ \cup {c}])
          /\ UNCHANGED faults
       \/ /\ Fails("write")
          /\ Becomes(t, [tab[t] EXCEPT !.storing = @ \ {c}])
          /\ UNCHANGED <<store, written>>
    /\ UNCHANGED <<server, taken, dropped, reloads>>

(* Its refreshCounts, and only then its drain. *)
EnqueueCounts(t, c) ==
    /\ c \in tab[t].counting
    /\ \/ /\ Becomes(t, Asked([tab[t] EXCEPT !.counting = @ \ {c},
                                             !.shown = Counts]))
          /\ UNCHANGED faults
       \/ /\ Fails("read")
          /\ Becomes(t, [tab[t] EXCEPT !.counting = @ \ {c}])
    /\ UNCHANGED <<server, history, store, dropped, reloads>>

-----------------------------------------------------------------------------
(* runDrain *)

(* Each round forgets the requests so far and reads what is due. *)
ReadDue(t) ==
    /\ tab[t].pc = "read"
    /\ \/ /\ \E u \in GoneOn([tab[t] EXCEPT !.again = FALSE,
                              !.todo = {<<c, store[c].attempts>> : c \in Due}]) :
                Becomes(t, u)
          /\ UNCHANGED faults
       \/ /\ Fails("read")
          /\ Becomes(t, Thrown([tab[t] EXCEPT !.again = FALSE]))
    /\ UNCHANGED <<server, history, store, dropped, reloads>>

(* Upload loads the current event and judges its lock once, at some time    *)
(* since the request was sent: the first event it may store under, and      *)
(* whether it may have found one over.                                      *)
First(sent) == IF sent[2] THEN sent[1] + 1 ELSE sent[1]
Refuses(sent) == sent[2] \/ over \/ event > sent[1]

(* The row is inserted, once for a capture in an event.  The answer comes   *)
(* after it, or never.                                                      *)
Store(t) ==
    /\ tab[t].pc = "send" /\ ~tab[t].stored
    /\ \E e \in First(tab[t].sent)..event :
          /\ <<e, tab[t].item>> \notin kept
          /\ kept' = kept \cup {<<e, tab[t].item>>}
    /\ Becomes(t, [tab[t] EXCEPT !.stored = TRUE])
    /\ UNCHANGED <<event, over, late, several, history, store, dropped, faults,
                   reloads>>

(* Of one upload that nobody waits for nothing is left once it is stored.   *)
Spent(c) == IF c \in several THEN late ELSE [late EXCEPT ![c] = Never]

(* What an upload does that nobody waits for any more: its handler runs on. *)
StoreLate ==
    /\ \E c \in Captures : \E e \in late[c]..event :
          /\ <<e, c>> \notin kept
          /\ kept' = kept \cup {<<e, c>>}
          /\ late' = Spent(c)
    /\ UNCHANGED <<event, over, several, history, store, dropped, tab, faults,
                   reloads>>

(* What was stored is not stored again; what was not still may be.          *)
GivesUp(u) ==
    IF u.stored THEN UNCHANGED <<late, several>>
    ELSE /\ late' = [late EXCEPT ![u.item] = Lesser(@, First(u.sent))]
         /\ several' = several
                \cup {c \in {u.item} : late[c] # Never}

Answered(u, pc) == [u EXCEPT !.pc = pc, !.sent = Begin, !.stored = FALSE]

(* The server answers: locked; a 4xx for the request or its session; or     *)
(* stored, now or before.                                                   *)
Reply(t) ==
    /\ tab[t].pc = "send"
    /\ \/ /\ Refuses(tab[t].sent) /\ ~tab[t].stored
          /\ Becomes(t, Answered(tab[t], "drop"))
       \/ ~tab[t].stored /\ Becomes(t, Answered(tab[t], "fail"))
       \/ /\ \E e \in First(tab[t].sent)..event : <<e, tab[t].item>> \in kept
          /\ Becomes(t, Answered(tab[t], "remove"))
    /\ UNCHANGED <<server, history, store, dropped, faults, reloads>>

SlipNoReply(t) ==
    /\ tab[t].pc = "send"
    /\ Becomes(t, Answered(tab[t], "remove"))
    /\ UNCHANGED <<server, history, store, dropped, faults, reloads>>

(* A 5xx, or no answer: what was sent may have been stored all the same, or *)
(* be stored later.                                                         *)
NoReply(t) ==
    /\ tab[t].pc = "send"
    /\ GivesUp(tab[t])
    /\ Becomes(t, Answered(tab[t], "retry"))
    /\ UNCHANGED <<event, over, kept, history, store, dropped, faults, reloads>>

(* Stored, so the phone's copy goes.  When the delete fails the catch block *)
(* takes it for a failed upload.                                            *)
Remove(t) ==
    /\ tab[t].pc = "remove"
    /\ \/ /\ store' = [store EXCEPT ![tab[t].item] = Absent]
          /\ \E u \in GoneOn(tab[t]) : Becomes(t, u)
          /\ UNCHANGED faults
       \/ /\ Fails("write")
          /\ Becomes(t, [tab[t] EXCEPT !.pc = "retry"])
          /\ UNCHANGED store
    /\ UNCHANGED <<server, history, dropped, reloads>>

(* handleFailure, 423: the item goes too. *)
Drop(t) ==
    /\ tab[t].pc = "drop"
    /\ \/ /\ store' = [store EXCEPT ![tab[t].item] = Absent]
          /\ dropped' = dropped \cup {tab[t].item}
          /\ \E u \in GoneOn(tab[t]) : Becomes(t, u)
          /\ UNCHANGED faults
       \/ /\ Fails("write")
          /\ Becomes(t, Thrown(tab[t]))
          /\ UNCHANGED <<store, dropped>>
    /\ UNCHANGED <<server, history, reloads>>

SlipPutBack(t, failed) ==
    /\ store' = [store EXCEPT ![tab[t].item] =
                    [attempts |-> tab[t].tries, failed |-> failed,
                     wait |-> IF failed THEN 0 ELSE Backoff(tab[t].tries + 1)]]
    /\ \E u \in GoneOn(tab[t]) : Becomes(t, u)
    /\ UNCHANGED <<server, history, dropped, faults, reloads>>

(* handleFailure otherwise: the item is put back as the drain had read it,  *)
(* with one attempt more, and either marked or set to wait.                 *)
PutBack(t, failed) ==
    LET attempts == Lesser(tab[t].tries + 1, MaxAttempts) IN
    /\ \/ /\ store' = [store EXCEPT ![tab[t].item] =
                          [attempts |-> attempts, failed |-> failed,
                           wait |-> IF failed THEN 0 ELSE Backoff(attempts)]]
          /\ \E u \in GoneOn(tab[t]) : Becomes(t, u)
          /\ UNCHANGED faults
       \/ /\ Fails("write")
          /\ Becomes(t, Thrown(tab[t]))
          /\ UNCHANGED store
    /\ UNCHANGED <<server, history, dropped, reloads>>

MarkFailed(t) == tab[t].pc = "fail" /\ PutBack(t, TRUE)

Retry(t) == tab[t].pc = "retry" /\ PutBack(t, FALSE)

SlipRefreshCounts(t) ==
    /\ tab[t].pc = "counts"
    /\ Becomes(t, [tab[t] EXCEPT !.timer = Off,
                    !.pc = IF tab[t].mounted THEN "schedule" ELSE "idle"])
    /\ UNCHANGED <<server, history, store, dropped, faults, reloads>>

(* The finally block: refreshCounts, then the start of scheduleNextRetry. *)
RefreshCounts(t) ==
    /\ tab[t].pc = "counts"
    /\ \/ /\ Becomes(t, [tab[t] EXCEPT !.shown = Counts, !.timer = Off,
                !.pc = IF tab[t].mounted THEN "schedule" ELSE "idle"])
          /\ UNCHANGED faults
       \/ /\ Fails("read")
          /\ Becomes(t, [tab[t] EXCEPT !.pc = "idle"])
    /\ UNCHANGED <<server, history, store, dropped, reloads>>

Soonest(waiting) ==
    {delay \in {store[c].wait : c \in waiting} :
        \A c \in waiting : delay <= store[c].wait}
    \cup {delay \in {Off} : waiting = {}}

SlipScheduleNextRetry(t) ==
    /\ tab[t].pc = "schedule"
    /\ \E delay \in Soonest(Pending \ Due) :
          Becomes(t, [tab[t] EXCEPT !.pc = "idle", !.timer = delay])
    /\ UNCHANGED <<server, history, store, dropped, faults, reloads>>

(* The rest of it: a timer for the item that is due first. *)
ScheduleNextRetry(t) ==
    /\ tab[t].pc = "schedule"
    /\ \/ /\ \E delay \in Soonest(Pending) :
                Becomes(t, [tab[t] EXCEPT !.pc = "idle", !.timer = delay])
          /\ UNCHANGED faults
       \/ /\ Fails("read")
          /\ Becomes(t, [tab[t] EXCEPT !.pc = "idle"])
    /\ UNCHANGED <<server, history, store, dropped, reloads>>

-----------------------------------------------------------------------------
(* The world, and the specification *)

(* Time passes for every backoff and every timer. *)
Sooner(n) == IF n > 0 THEN n - 1 ELSE n

Tick ==
    /\ \/ \E c \in Stored : store[c].wait > 0
       \/ \E t \in Tabs : tab[t].timer > 0
    /\ store' = [c \in Captures |->
                    IF c \in Stored THEN [store[c] EXCEPT !.wait = Sooner(@)]
                                    ELSE Absent]
    /\ tab' = [t \in Tabs |-> [tab[t] EXCEPT !.timer = Sooner(@)]]
    /\ UNCHANGED <<server, history, dropped, faults, reloads>>

(* The page is reloaded, or the phone kills it.  What is on its way to the  *)
(* server may still get there.                                              *)
Reload(t) ==
    /\ tab[t] # Fresh /\ reloads < MaxReloads
    /\ reloads' = reloads + 1
    /\ Becomes(t, Fresh)
    /\ IF tab[t].pc = "send" THEN GivesUp(tab[t])
       ELSE UNCHANGED <<late, several>>
    /\ UNCHANGED <<event, over, kept, history, store, dropped, faults>>

EndEvent ==
    /\ ~over /\ over' = TRUE
    /\ UNCHANGED <<event, kept, late, several, history, store, dropped, tab,
                   faults, reloads>>

(* Any ends_at goes, also one that has passed; and of two starts that       *)
(* overlap the second does not see that the first event runs.               *)
NextEvent ==
    /\ event < MaxEvents
    /\ event' = event + 1 /\ over' \in BOOLEAN
    /\ UNCHANGED <<kept, late, several, history, store, dropped, tab, faults,
                   reloads>>

Settle(t) == Remove(t) \/ Drop(t) \/ MarkFailed(t) \/ Retry(t)

Run(t) ==
    \/ ReadDue(t) \/ Settle(t) \/ RefreshCounts(t) \/ ScheduleNextRetry(t)
    \/ \E c \in Captures : Enqueue(t, c) \/ EnqueueCounts(t, c)

User(t) ==
    \/ Start(t) \/ Stop(t) \/ Reload(t)
    \/ \E c \in Captures : Shoot(t, c)

Next ==
    \/ Tick \/ EndEvent \/ NextEvent \/ StoreLate
    \/ \E t \in Tabs : \/ Run(t) \/ User(t) \/ Trigger(t) \/ RetryTimer(t)
                       \/ Store(t) \/ Reply(t) \/ NoReply(t)

Spec == Init /\ [][Next]_vars

(* JavaScript runs on, time passes, and the sweep comes every minute while  *)
(* the camera is mounted.  An upload that is tried again and again is       *)
(* answered some time.  Nothing is asked of the user.                       *)
Fairness ==
    /\ WF_vars(Tick)
    /\ \A t \in Tabs : /\ WF_vars(Run(t)) /\ WF_vars(Trigger(t))
                       /\ WF_vars(NoReply(t) \/ Reply(t)) /\ SF_vars(Reply(t))

FairSpec == Spec /\ Fairness

-----------------------------------------------------------------------------
(* What the queue owes *)

(* Every variable has its type. *)
TypeOK ==
    /\ event \in 1..MaxEvents /\ over \in BOOLEAN
    /\ kept \subseteq (1..MaxEvents) \X Captures
    /\ late \in [Captures -> 1..Never] /\ several \subseteq Captures
    /\ taken \subseteq Captures /\ written \subseteq Captures
    /\ store \in [Captures -> Item \cup {Absent}]
    /\ dropped \subseteq Captures
    /\ tab \in [Tabs -> Uploader]
    /\ faults \subseteq MayFail /\ reloads \in 0..MaxReloads

(* No capture that reached the store is lost without a word from the        *)
(* server: it is in the store, or with the server, or was refused with 423, *)
(* wherever a drain is interrupted, an IndexedDB request fails or a second  *)
(* tab drains the same store (photoQueue.ts: every photo is written to      *)
(* IndexedDB before anything is sent; uploader.ts deletes on an answer).    *)
NothingLost ==
    \A c \in written :
        c \in Stored \/ c \in dropped \/ \E e \in 1..MaxEvents : <<e, c>> \in kept

(* With the only tab, what has left the store stays out of it: no drain     *)
(* puts back an item from a list it had read before, though drains, stops,  *)
(* starts and reloads follow each other in any order (uploader.ts: drain    *)
(* folds a request into the running drain rather than racing it).           *)
StaysGone == [][ \A c \in written : c \notin Stored => c \notin Stored' ]_vars

(* In the only tab, an uploader that rests has a timer for whatever can be  *)
(* retried, and none too late, also for a capture whose request for a drain *)
(* came when the running drain no longer looked, which drain() forgets      *)
(* (uploader.ts: wakes the uploader exactly when the earliest backoff       *)
(* expires).  A read that failed leaves it to the sweep.                    *)
TimerCoversQueue ==
    \A t \in Tabs :
        tab[t].mounted /\ tab[t].pc = "idle" /\ "read" \notin faults =>
            \A c \in Pending \ tab[t].counting :
                tab[t].timer # Off /\ tab[t].timer <= store[c].wait

(* In the only tab, what the camera screen says is waiting, and what it     *)
(* says could not be uploaded, is what the store holds whenever no drain    *)
(* runs and no shutter is on its way.                                       *)
ShownIsStored ==
    \A t \in Tabs :
        /\ tab[t].mounted /\ tab[t].pc = "idle" /\ "read" \notin faults
        /\ tab[t].storing = {} /\ tab[t].counting = {}
        => tab[t].shown = Counts

(* In the only tab, a capture that is given up on its first try was never   *)
(* stored, so that it is lost is then the truth (uploader.ts: "The server   *)
(* will never take it"), unless the page was reloaded or a write failed     *)
(* meanwhile.  After a try whose answer was lost it need not be.            *)
FirstRefusalIsTrue ==
    \A t \in Tabs :
        /\ tab[t].pc = "drop" /\ tab[t].tries = 0
        /\ reloads = 0 /\ "write" \notin faults
        => \A e \in 1..MaxEvents : <<e, tab[t].item>> \notin kept

(* As long as somebody comes back to the camera, no capture waits forever:  *)
(* it is stored, refused, or marked as failed.                              *)
EverySettles ==
    \A c \in Captures :
        []<>(\E t \in Tabs : tab[t].mounted)
            => (c \in Pending ~> c \notin Pending)

(* What photoQueue.ts says of the clientId: a request that succeeded but    *)
(* whose response was lost cannot produce a duplicate photo.                *)
NoSecondCopy ==
    \A c \in Captures, d, e \in 1..MaxEvents :
        <<d, c>> \in kept /\ <<e, c>> \in kept => d = e
=============================================================================
