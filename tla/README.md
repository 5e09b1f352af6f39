# Verification of italy-trip

TLA+ models of italy-trip, TLC runs on small instances, and proofs checked by
TLAPS. The app is a camera for a group trip: while an *event* runs, phones can
only take pictures and nobody can see any; once `ends_at` has passed, uploads
are refused and the album opens. Two promises carry it: **the lock** (nothing of
an event is shown before it is over) and **no capture is lost** (a phone keeps a
picture until the server has it). The models are built around these two, and
around what a phone needs to keep them: a session that stays alive, a gate that
follows the lock, and screens that survive being taken away at any moment.

## The system

| Part | State it keeps | Operations | Hard behaviour | What makes it correct |
|---|---|---|---|---|
| Event handlers `backend/internal/events` | `events` rows, `users.active_event_id` | `Create`, `Current`, `IsOver` | check and insert are separate statements; the second statement may fail alone | one event at a time; a 201 names the current and active event |
| Photo handlers `backend/internal/photos` | `photos` rows, objects in the bucket | `Upload`, `List`, `Original`, `DownloadAll` | six calls per upload, any of which fails, before or after it took effect; concurrent retries; the clock moves under a handler | rows have objects, answers are durable, one row per capture and event, the lock |
| Object storage `backend/internal/storage` | keys | `Put`, `Open`, `PresignGet` | ambiguous failure | (as above) |
| Sessions `backend/internal/users`, `auth`, `middleware` | refresh tokens of one shared user, live, expired or revoked | `Login`, `Refresh`, `RequireAuth` | rotation in separate statements, against lost answers and several tabs | a live session is not taken for theft |
| API client `frontend/app/lib/apiClient.ts` | access token, shared refresh promise | `request`, `postForm`, `refreshToken` | several 401s at once | one refresh for all, one retry, nobody refused early |
| Capture queue `frontend/app/lib/photoQueue.ts` | IndexedDB store | `enqueue`, `due`, `put`, `remove`, `counts` | requests fail; two tabs share it; reloads | nothing leaves it before the server has it |
| Uploader `frontend/app/lib/uploader.ts` | the running drain, `again`, timers, counts | `start`, `stop`, `enqueue`, `drain`, backoff | every `await` interleaves with the shutter, timers, stop, start, a reload | every capture is settled, the timer covers the queue, the screen tells the truth |
| Gate and query cache `routes/gate.tsx`, `hooks/` | cached event, the poll, a start under way | choose the screen, poll, start an event | stale cache, late answers, retries, typed addresses | the album never early, the camera not lost to one failed poll, the screen follows the end |
| Camera `components/CameraView.tsx`, `lib/capture.ts` | stream, phase, facing, preview URL | flip, shoot, review | overlapping `getUserMedia`, each refusal judged by the flag of some render; an encoder that answers a screen that is gone | a refused flip hands back the camera (of requests that overlap it does not, run `flip`), every URL accounted for, buttons come back |
| Slideshow, wake lock `routes/slideshow.tsx`, `lib/wakeLock.ts` | index, timer, image under way, sentinel | play, pause, step | an image or a lock that arrives after a pause, an arrow or an unmount | turns only to what was awaited, index in range, the lock released |
| Boot `backend/cmd`, migrations, seed | schema version, shared user | migrate, seed, serve, exit | order; overlapping boots; an exit between two transactions | a server that serves has its schema and its user |
| Thumbnails `backend/internal/images` | none | `Make`, `FitWithin` | rounding at the boundaries | both sides at least one pixel and within the bound |
| CORS, countdown, formatting, configuration | none | `NormalizeOrigin`, `formatRemaining`, ... | none that interleaves | not modelled |

Parts interact as follows. A phone's shutter writes to the capture queue; the
uploader reads the queue and calls `POST /events/current/photos` through the API
client; `Upload` passes the middleware, asks the event's lock, stores two objects
in the bucket and then one row. The album screens call `List`, `Original` and
`DownloadAll`, which ask the same lock the other way round. `POST /events` makes
a newer row of `events`, and with it changes which event is *current* for all of
them: no request names an event. The gate polls `GET /events/current` and mounts
the camera or the album, which run and are torn down under it; a start of an
event writes the same cached event. Every request goes through the client that
shares one refresh per tab, and every tab of a phone shares a cookie.

## The modules

| Module | Models | |
|---|---|---|
| `SealedAlbum` | what the server promises | abstract specification |
| `PhotoServer` | the handlers, Postgres, the bucket, the clock | implements `SealedAlbum` |
| `PhotoServerProofs` | storage: types, objects, durability, uniqueness | theorems |
| `PhotoServerLockProofs` | the lock, and the refinement | theorems |
| `CaptureQueue` | the uploader over the IndexedDB store, and the server as a phone sees it | |
| `CaptureQueueProofs` | types, nothing is lost; the only tab | theorems |
| `CaptureDelivery` | the phones of `CaptureQueue` in front of the handlers of `PhotoServer` | implements both; composition |
| `CaptureDeliveryProofs` | the handlers are the server the queue takes for granted; nothing is nowhere | theorems |
| `Session` | the client's tokens and the server's rotation of them | |
| `SessionProofs` | types, no false alarm | theorems |
| `LockedScreens` | what the gate promises | abstract specification |
| `Gate` | the gate, the cached event, its poll, starting an event | implements `LockedScreens` |
| `GateProofs` | types, the lock on the screen, the refinement | theorems |
| `Camera`, `Slideshow` | the two screens that have a life of their own | |
| `Screens` | both under `LockedScreens`, in one page | composition |
| `ScreensProofs` | both screens alone, and that they keep their word when composed | theorems |
| `Boot` | migrations, seed and server processes | |
| `Thumbnail` | which pictures are taken, and the sides of a thumbnail | |
| `BackendProofs` | a server that serves is ready; every thumbnail fits | theorems |
| `MCPhotoServer`, `MCCaptureQueue`, `MCCaptureDelivery`, `MCSession`, `MCScreens` | instances for TLC | |

A definition named `Slip...` is a plausible mistake in the definition below it;
no specification uses one. Each property of a passing run is violated when its
slip takes the definition's place, so each can tell the code from a faulty one.

### PhotoServer

`events` are the rows' `ends_at` in the order of `created_at`, so the current
event is the last index; `photos` and `bucket` are the rows and the object keys;
`activeEvent` is the shared user's. `req[h]` is one goroutine: the operation
(`op`), the call it makes next (`pc`), the event it loaded, and what its answer
carries. One action is one call to the database, the bucket or the clock
together with the local work up to the next one, so everything another request
may do in between is explored:

| Action | Code |
|---|---|
| `LoadEvent` | `loadEvent`, and the start of `Create` |
| `CheckRunning`, `CheckUnlocked`, `CheckNoneRunning` | `requireRunning`, `requireUnlocked`, the 409 of `Create` |
| `FindDuplicate`, `PutPhoto`, `PutThumb`, `CreatePhoto`, `ResolveRace` | `Upload` in its order |
| `CreateEvent`, `SetActiveEvent` | the two statements of `Create` |
| `List`; `FindOriginal`, `OpenOriginal`; `ListForZip`, `ZipNext`, `ZipEnd` | the album routes |
| `Tick`, `Crash` | the clock; the process ends and every handler with it |

A `Put` and an `INSERT` may fail *after* they took effect (the answer of the
bucket or of Postgres is lost); that is why an error answer leaves the state in
either of two ways. `revealed` is history: photos whose bytes or signed URL left
the server.

Abstractions. Ids are fresh (`uuid.New`). Signing an URL is local, so `List` is
one step after its query. Requests that fail validation (400, 413) may do so
whatever they contain. A 413 counts as a 400 and a 502 as a 500, since a phone
gives up after the one pair and tries again after the other. The middleware in front answers 401 before any of this
and changes no state modelled here. `Current` and `Me` only read. There is one
server process. `taken_at` belongs to the capture.

### CaptureQueue

JavaScript interleaves only at an `await`, so one action is the code from one
`await` to the next. `store` is the IndexedDB object store; `tab[t]` is one
page's `Uploader`: `pc` is what its drain waits for (`"idle"` when `draining` is
null), `again`, the list `todo` that `due` returned with the attempts as they
were read then, the retry `timer`, `storing` and `counting` for the two awaits
of `enqueue`, and `shown` for the counts in `status`. `mounted` is `started`.

`ReadDue`, `Reply`, `NoReply`, `Remove`, `Drop`, `MarkFailed`, `Retry`,
`RefreshCounts` and `ScheduleNextRetry` are `runDrain` with `send` and
`handleFailure`; `Start`, `Stop`, `Trigger`, `RetryTimer`, `Shoot`, `Enqueue` and
`EnqueueCounts` are what asks for it. Any IndexedDB request may fail: in `send`
the failure is caught and taken for a failed upload, in `handleFailure` it leaves
the loop, and in the `finally` block it leaves that. A page may be reloaded at
any point, and several may share the store.

Reading the store and showing what was read is one step: IndexedDB serialises
the transactions of a tab on one store, and their answers reach it in that order.
A clock read just before a request to IndexedDB is read in the same step, so such
a request takes no time.

Instants are kept as what is left until them, so time needs no bound: a unit is
`BASE_BACKOFF_MS`, and attempts count up to the one from which `backoffMs` is
`MAX_BACKOFF_MS`.

The server is what a phone can know of it. An upload asks for the current event
and its lock once, at some time after it was sent, so it may be stored under the
event of that time or a newer one (`Store`), or be refused if any of these was
over (`Reply`). `tab[t].sent` is the time it was sent and `stored` whether its row
is there; the answer follows, or is lost (`NoReply`). A request that is given up
by timeout, error or reload is not gone: `late` says from which event on it may
still be stored, and `StoreLate` stores it, at any time. `Upload` inserts one row
per request, so this spends it (`Spent`). `several` are the captures that were
given up more than once before one of these uploads was stored: of them there may
be any number on the way, from the least event that any of them may have, which is
more than the code allows. Abstractions: an item's bytes, `lastError` and the
message about lost photos are left out; the connection to IndexedDB is open.

### CaptureDelivery

The two halves together. `phone` are the variables of `CaptureQueue`, the rest are
`PhotoServer`'s, and what the queue calls its server is computed from the rows and
the clock (`Newest`, `NewestIsOver`, `Rows`). The new variable is `line[t]`: the
handler that serves the request of tab `t`, or `OnItsWay` (no handler has it yet,
or there is none), or `Broken` (the handler is done or dead and its answer lost).

| Action | What happens |
|---|---|
| `PhoneRuns`, `PhoneWaits`, `PhoneReloads` | a step of the uploader, time, a page that goes |
| `Reaches` | the request comes to a handler; `Receive` of `PhotoServer` |
| `TurnedAway` | a 4xx before any handler, above all the middleware's 401 |
| `Works`, `Inserts` | the next call of a handler; the insert of the row |
| `Answers` | the handler ends; its answer is heard (`Heard` is what `send` makes of each status) or lost |
| `PhoneGivesUp` | a 5xx of a proxy, a timeout, no network; the handler runs on |
| `ReachesLate` | a request that nobody waits for reaches a handler all the same |
| `ServerDies`, `ClockTicks` | the process ends with every handler; time |

`ReachesLate` brings a request that was given up to a handler, one at a time
(`Forgotten` are the handlers that have one and may still insert its row), unless
the capture is in `several`. It allows more than a network does, since a request
whose handler fails before its row may arrive again. Once its row is there it is
spent (`Inserts`). Only starts of events and uploads are served; the album routes
change nothing that a capture depends on. Where `CaptureQueue` shows a server that may do
something, `CaptureDelivery` shows handlers that do it call by call, and
`KeepsQueue` says that they never do more.

### Session

`row` says of each refresh token whether it is live, expired or revoked;
`cookie` and `token` are each phone's (`localStorage` and the cookie jar are
shared by its tabs); `req[r]` is one call of `request` or `postForm` and
`serve[h]` one `Refresh` or `Login` handler. `Find`, `Alarm`, `Revoke` and
`Create` are the statements of `Refresh` in its order, each of which may fail;
`Login` stores a token as well and shares `Create`. `Answer` delivers the answer
to the tab that called, its cookie first; `Resent` and `GivenUp` are what the
callers of the shared promise do then. `Lose` is a connection that breaks, after
which the handler may run on; `Reload` a page that goes; `ExpireAccess`,
`ExpireRow` and `DropCookie` are time. `Create` merges the read of the user, the
signing and the insert, which have no effect but the last.

`troubled` is history. It becomes true when an answer to a refresh is lost, a
statement fails, a page is reloaded during a refresh, two tabs of one phone call
at once or a login meets a refresh. The server cannot tell a repeated token from
a stolen one, so after any of these the alarm may go off, and in the model it
does; since there is one account, it then ends everybody's session. The
properties are therefore about the time before: requests of one tab may cross as
they like.

### Gate, and LockedScreens

`event`, `ended` and `passed` are the server's: the newest event, those that are
over, and the `POST /events` whose check found none running. `Create` reads,
checks and inserts in separate statements, so `Passes` and `Inserted` are steps
apart, for another phone (`StartPasses`, `EventStarts`) as for this one
(`CreateChecked`, `CreateAnswered`): starts overlap, and a newer event may be over
while an older one still runs. `cache` is react-query's entry for the
current event with its last error, `poll` the fetch under way (`asked`, then
`answered` with what the server said at that moment, then delivered) and
`creating` a `POST /events` from this app. A poll is answered 401 when the session
is over, and also with a token that is good when the middleware cannot load its
user, for whatever reason (`PollRefused`). React renders after every change of
what `Gate` reads, so each action that changes the cache ends in `Renders`, which
is the chain of `Navigate`s in `gate.tsx` as the function `Route`; `Screen` is
what it draws. `SessionEnds` clears the token without a render, since
`localStorage` does not notify React. A poll that fails is tried once more
(`retry: 1`) and leaves the cached data in place, but its error shows.

`LockedScreens` knows the server's events, the screen and the event the app was
last told of (`known`), and says that a screen of an event is turned to only when
one is known, and the album and the slideshow only if *that* event is over. It
lets starts overlap as the server does. `Gate` implements it (`KeepsScreens`),
with the cached event as what is known.

### Camera, Slideshow, Screens

`Camera` has the phases of `CameraView` (`denied` is an `error` here: they differ in
their text and in the button), the life of its stream under `react-webcam`, the
flip with the facing it came from, the shutter whose encoder answers later, and a
count of object URLs that have not been revoked. The facing in `localStorage` is
left open: other tabs, and screens that have gone, write it too.

Requests for the stream overlap: a flip and a return to the page (`StreamAgain`,
whenever there is no live track) ask while one is outstanding. `react-webcam` is
external: it stops the stream of a request that was overtaken, and reports its
refusal all the same, to the handler that its `<Webcam>` was last rendered with.
`asks` counts these requests by the flag their refusal will be judged by and the
facing they asked for: `"stale"` while their `<Webcam>` is there, whose handler is
that of the latest render, and `"flip"` or `"plain"` once it has gone with
`switching` set or not (`Orphaned`). `HandsBack` and `TakesOver` are the two
branches of `handleUserMediaError`, for `StreamRefused` and `LateRefused` alike.

`Slideshow` has the cached list, the index, the effect
that turns (timer, then image), and the wake locks: `asks` are requests of the
running effect, `orphans` those of effects that have been cleaned up. A cancelled
image or an orphan is answered all the same, which is where the hazards are.

`Screens` puts both into one page under `LockedScreens`: a turn of the gate
mounts and unmounts them in the same step, so each may disappear at any of its
awaits. They share nothing but the page's visibility.

Four are history: `proven` (the camera that last ran), `overtaken` (a request was
overtaken since a stream last opened with no other request outstanding), `of` (the
event whose photos the slideshow began with) and `leaked` (URLs made for a camera
screen that had gone, which the code never revokes: the shutter's `await` goes on
after the unmount).

### Boot

goose is external: it reads the version from the row it inserted last and runs
each pending migration in a transaction, without a lock between processes. So
two servers may run a migration twice, and the one that is late takes the version
back while `applied`, what the migrations left behind, stays. A second migration 5
fails on its own column. A second migration 2 works, unless there are two events
by then, and brings back `singleton`, the index that migration 3 drops: under a
process that serves, if the database began at version 1. `FindUser` and
`CreateUser` are the two statements of `SeedSharedUser`. Initially the database is
at any version, with or without the user once there is a table for it: empty, or
as a release or a boot that was cut off left it.

### Thumbnail

`FitWithin` scales in `float64`. Its error is far too small to move a quotient
across a half that it does not hit exactly, so the model computes with integers
and allows both roundings of an exact half: an operator is the set of results
that a build may have. There are no steps, so the module has no run and is only
proved about.

## The runs

| Run | Configuration | Checks | Shows |
|---|---|---|---|
| `serial` | 2 handlers, one of which may start events; 1 capture, 2 ids, 2 events, clock to 2 | `TypeOK`, `RowsHaveObjects`, `AckedIsStored`, `OneCopyPerEvent`, `Sealed`, `OlderEventsAreOver`, `StartedIsActive`, `PagesShowOverEvents`, `KeepsPromise` | with one start at a time the server keeps its promises |
| `overlapLock` | 2 handlers that both may start | `Sealed` violated | overlapping starts: a photo leaves before its event is over |
| `late` | 1 event, 1 capture | `NoLateRows` violated | a row is stored after the end |
| `queue_one` | 1 tab, 2 captures, 2 attempts, 1 reload, a failing read and a failing write; with one capture and no failure, 2 events | `TypeOK`, `NothingLost`, `TimerCoversQueue`, `ShownIsStored`, `FirstRefusalIsTrue`, `StaysGone` | the queue on its own |
| `queue_live` | 1 tab, 2 captures, 1 attempt, a failing write | `EverySettles` under `FairSpec` | nothing waits forever |
| `queue_copy` | 1 tab, 1 capture, 2 events, the second after the end of the first | `NoSecondCopy` violated | the same picture in two events |
| `delivery` | 1 tab, 1 capture, 2 handlers, one of which may start events; 1 event, clock to 1, a reload | `DeliveryTypeOK`, `RefusedForGood`, `DeliveredOrHeld`, `KeepsQueue` | a capture is sent again while the first request for it still runs, or its page has gone |
| `session` | 1 phone, 2 tabs (one with 2 requests, one at the login screen), 2 handlers, 3 tokens | `TypeOK`, `NoFalseAlarm`, `CookieLives`, `DeniedMeansOver` | rotation raises no alarm against an undisturbed phone |
| `gate` | 3 events | `GateTypeOK`, `NeverEarly`, `KeepsScreens`, `CameraStays`, `GateFollows` under `GateFairSpec` | the screen keeps the lock and follows it, though starts overlap |
| `screens` | 2 events, 2 photos, 2 requests for the lock, 1 late capture, 1 overtaken request for the camera | `CameraTypeOK`, `PreviewsAccounted`, `FlipHandsBack`, `CameraComesBack`, `ShowTypeOK`, `ShowInRange`, `LocksReleased`, `TurnsToAwaited`, `ShowGoesOn` | camera and slideshow under a gate that takes them away |
| `flip` | the camera alone, 1 overtaken request | `FlipNeverTakesOver` violated | a refused flip ends in an error after all |
| `boot` | 2 servers | `BackfillFindsUser` violated | an empty database never boots |

Bounds. Two handlers show every race of two requests, and each property of the
server relates at most two of them (two uploads of one capture; a start and a
reader; two starts). One capture is what concurrent retries are about, and it may
be stored in both events; captures do not interact otherwise, and the theorems
are for any number of them. Two events are the least that has an older one, and
three instants let both be running and over in turn. `MaxEvents`, `MaxTime`
and `PhotoIds` bound only how long a trip is. In the queue, two captures show the order of
a drain and a request that comes while another capture is being sent; two
attempts are the first backoff and the capped one; each kind of storage failure
happens once and a page is reloaded once, at any point. `queue_live` is smaller
because liveness costs more; one attempt still has a backoff to wait for, and the
retries go on without end. `queue_one` uses the symmetry of captures, which no
property and no `TakenAt` tells apart (they are of one second). `MCBound` keeps it
small: in the second event, and once a capture has several uploads that nobody
waits for, it follows one capture; and in the second event a store that does not
fail. What an event that ends does to one upload it does to each. What two
tabs do to one store is left to `NoCaptureLost`, for any number of them.
`MCInTurn` keeps starts from overlapping in `queue_copy`, which is about a retry
and needs no such thing.

In `delivery`, two handlers are the least at which a retry meets its predecessor,
and one of them starts the event. A second event and a failing store would make
it too large: that a request arrives, finds its capture or is answered under
another event than it was sent in is left to the theorem `HandlersAreTheServer`.
`MCBound` leaves out what follows a second upload of the capture that nobody waits
for: two handlers serve one that a tab waits for and one that nobody does. And
it has the camera left with its page only, since a drain that goes on without its
camera is followed in `queue_one`.
`MayFail` is about the store of a phone; the calls of a handler fail in the run as
they please. What the screen shows (`shown`) and whose active event is which decide
no step, and no property of `queue_live` and `delivery` is about them, so that
`MCView` leaves them out of the states that are told apart.

In `session` two tabs are the least that can cross and two requests of one tab
the least that share a refresh; a second refresh while the first is not answered
needs two handlers, and a token that is presented, one that is fresh and one in
the cookie are three. A token that nobody holds is used again, so three stand for
any number. Tokens and handlers are symmetric. In `gate` three events are the least at which two
starts overlap after an event that is over; in `screens` two let the known one be
over while the next runs. Two photos are the least that can be turned; two
requests for the wake lock are one that is wanted and one that is not any more.
One request that is overtaken and one that is not (`MaxStale`) are a flip that meets
a return to the page. `MaxAsks`, `MaxLeaks`, `MaxStale`, `MaxPhotos` and `MaxEvents`
bound how much piles up. `MCBound` of `screens` does not follow a camera that has run
together with a list or a request that a slideshow has left behind: they share only
the page, and each is followed without the other. The proofs are for every value of them.

`TimerCoversQueue`, `ShownIsStored`, `FirstRefusalIsTrue` and `StaysGone` are
about the only tab: another tab changes the store under it and the code has no
way to notice. `NothingLost` holds, and is proved, for any number of tabs.

Deadlock is checked in every run: there is always something that may happen (a
request may arrive, the user may mount or leave the camera, a page may be loaded
again).

Fairness (`FairSpec`). The browser runs what is ready (`Run`), time passes, and
the sweep of `setInterval` comes again and again while the camera is mounted
(`Trigger`; its other causes, `online` and `visibilitychange`, are not counted on).
A request ends somehow (`NoReply` or `Reply`, weakly fair: `fetch` settles),
and a request tried again and again is answered some time (strong fairness of
`Reply`): without it the network is down for good and nothing can be promised.
Nothing is asked of the user: `EverySettles` is conditional on somebody coming
back to the camera again and again, since the uploader runs only there.

`GateFairSpec`: the interval of the poll passes (`PollAsks`), a fetch settles
(`PollArrives` or `PollFails`), and a poll that is asked again and again is
answered and delivered some time (strong fairness). `GateFollows` excepts a
session that ends and a user who leaves. The camera's: `getUserMedia` and
`toBlob` settle, weakly fair; nobody comes back to the page faster than that for ever. The slideshow's: `setTimeout` fires, and an image
loads or fails (strong fairness of `ShowLoaded`, because a fetch of the list
cancels the effect; lists are fetched when they are old, which leaves an image
time to load). No liveness is stated for `Session`: its state space is too large
for it, and a request ends whenever its connection does.

## What the violated runs say

- **Two starts at once** (`overlapLock`). `Create` reads, checks and
  inserts in separate statements, and migration 00003 dropped the index that
  allowed a single event. Two overlapping `POST /events` both succeed. The lock
  that every route asks is the newer event's; when that is over while the older
  still runs, `Original`, which looks a photo up by id alone, serves the older
  event's photos.
- **Late rows** (`late`). The guard of `Upload` reads the clock once; decoding,
  two `Put`s and the insert come after it. A photo can be added after the end.
- **A second copy** (`queue_copy`). An upload is stored and its answer lost; the
  event ends, the next one starts, and then comes the retry. It goes to whatever
  event is current; `UNIQUE (event_id, client_id)` cannot see the copy stored
  under the event before.
- **A flip that takes over the screen** (`flip`). While a flip's request is
  outstanding the old track has ended, so a return to the page mounts `<Webcam>`
  anew and asks again. When the camera refuses both, the first refusal hands the
  working camera back and clears `switching`; the second finds it cleared and
  shows the error, while the camera that was handed back is still opening.
  `FlipHandsBack` is what holds: without such an overlap a refused flip never ends
  in an error.
- **An empty database** (`boot`). `main.go` migrates before it seeds, and the
  backfill of migration 00006 fails unless it finds the shared user, which only
  the seed creates. The boot ends with an error and so does every later one
  (`EmptyNeverServes`); the comment of 00006 says that the user is there. The
  shortest trace begins where the first such boot ends, at version 5.

Met on the way and not stated as a property: every album route asks the current
event's lock and none names another event, so photos of a past trip are out of
reach while a new one runs, although the comment on `Create`
(`events/handler.go:74-76`) says that past photos stay reachable. `seed.go:29` says that the seed
brings the shared login in line with the environment on every boot, but it
returns at once for a user that exists, whose password then stays as it was.

## The proofs

All theorems hold for every value of the constants that satisfies the named
assumptions next to them: any handlers, captures, tabs, ids and bounds.

| Theorem | States |
|---|---|
| `TypeCorrect`, `AlbumIsWhole`, `UploadsAreDurable`, `CapturesAreUnique` | `PhotoServer` satisfies `TypeOK`, `RowsHaveObjects`, `AckedIsStored`, `OneCopyPerEvent` |
| `PagesAreSealed` | `PhotoServer` satisfies `PagesShowOverEvents`, however starts overlap |
| `LockHolds`, `OneEventRuns`, `StartsActivate` | `OneStarter` implies `Sealed`, `OlderEventsAreOver`, `StartedIsActive` |
| `PromiseKept` | `OneStarter` implies that `PhotoServer` implements `SealedAlbum` |
| `QueueTypeCorrect`, `NoCaptureLost` | `CaptureQueue` satisfies `TypeOK`, `NothingLost`, for any number of tabs |
| `RetriesAreCovered`, `CountsAreShown`, `FirstRefusalsAreTrue`, `SettledForGood` | `OnlyTab` implies `TimerCoversQueue`, `ShownIsStored`, `FirstRefusalIsTrue`, `StaysGone` |
| `TypeCorrect`, `NoAlarm`, `CookiesLive`, `DeniedLate` (`SessionProofs`) | `Session` satisfies `TypeOK`, `NoFalseAlarm`, `CookieLives`, `DeniedMeansOver` |
| `GateTypeCorrect`, `AlbumIsNeverEarly`, `GateKeepsScreens`, `CameraIsKept` | `Gate` satisfies `GateTypeOK`, `NeverEarly`, `CameraStays` and implements `LockedScreens`, however starts overlap |
| `CameraTypeCorrect`, `EveryPreviewAccounted`, `FlipsHandBack` | `Camera` satisfies its safety properties |
| `ShowTypeCorrect`, `ShowStaysInRange`, `LocksAreReleased`, `ShowTurnsToAwaited` | `Slideshow` satisfies its safety properties |
| `ScreensImplementCamera`, `ScreensImplementShow`, `ScreensKeepTheirWord` | `Screens` implements its parts, and so has what was proved of them |
| `HandlersAreTheServer` | `CaptureDelivery` implements `CaptureQueue` (`KeepsQueue`) |
| `PhonesAreClients` | `CaptureDelivery` implements `PhotoServer` |
| `NothingIsNowhere`, `DeliveryTypes` | `CaptureDelivery` satisfies `DeliveredOrHeld`, `DeliveryTypeOK`, for any number of tabs and handlers |
| `FirstRefusalsAreFinal` | `OnlyTab` implies `RefusedForGood` |
| `ServersAreReady`, `ManyEventsAreServed`, `EmptyNeverServes`, `TakenBackStaysDown` | `Boot` satisfies `ServesWhenReady`, from any database; and `ServesManyEvents`, but for one at version 1; an empty database, and one whose version was taken back, never gets a server |
| `ThumbnailsFit` | `FitWithin` gives sides within any bound, of at least one pixel, the long one exactly the bound if the picture is larger |
| `EveryPictureHasThumbnail` | `Make` refuses exactly the empty and the too large dimensions, and gives all others a thumbnail |

`OneStarter` says that at most one handler serves `POST /events` at a time. It is
an assumption about the deployment (one person starts events), not something the
code ensures: `overlapLock` is the counterexample without it. Only the theorems
about the lock of `PhotoServer` make it; `Gate`, `LockedScreens` and
`CaptureDelivery` let starts overlap. `OnlyTab` says that
the browser has the app open in one tab; `NoCaptureLost` and the theorems about
`CaptureDelivery`, but for `FirstRefusalsAreFinal`, need no such thing.

*Storage.* `RowsHaveObjects` is not inductive: the insert is safe only because
the handler that inserts has put both objects under an id nobody else uses. The
invariant adds, for each upload past a `Put`, which objects are there, that its id
is its own (no row, no other handler), and that an answered upload's row exists.
Objects are never removed and rows never change, so what one handler has
established no other step disturbs. Uniqueness is the constraint's: the invariant
only has to carry it through the insert.

*The lock.* `Sealed` needs to know, of a reader past its check, that its event is
over, and of an `Original` that the photo it will open is of an event that is
over, though it was looked up by id. This is where `OlderEventsAreOver` comes in: if
the current event was over when it was checked, all were. That in turn needs, of
a start past *its* check, that every event is over and no start is between the
check and the insert elsewhere: `OneStarter`. `IsOver` is monotone, since the
clock never goes back and `ends_at` never changes.

*The refinement.* `kept` is the set of event and capture of the rows, `shown`
that of revealed rows. `Keep` needs the uniqueness of captures, `Start` the
invariant of the lock, `Show` that a reader's rows belong to events that are over;
every other step stutters.

*The queue.* `NothingLost` is not inductive: `Remove` deletes an item, and is safe
only because by then the server has it. The invariant adds, for each tab, that
what it is settling is a capture, and that a tab about to remove a capture has an
event under which the server keeps it. This speaks of each tab alone, which is why
the number of tabs does not matter. `PowersAssumption` restates that powers
of two are natural numbers, which the provers do not know; TLC evaluates it.

*The only tab.* `OneInv` has three parts. `OwnInv`: what the drain sends, and what
is left on its list, is in the store with the attempts it was read with, and a
capture being written was not written before; with that, settling an item can
touch only what is still there (`SettledForGood`). `RestInv`: from the start of
`scheduleNextRetry` on, the counts shown are the store's, unless a shutter is
about to refresh them; at rest the timer is no later than any item that no
shutter is about to drain for. The timer and the waits go down together, so the order is kept. `TruthInv`: as
long as no page was reloaded and no write failed, a capture in the store that the
server has, or may yet come to have from a request nobody waits for (`Reached`),
has been tried before, or is being sent and was just stored, or is just being
removed or put back. So an item refused on its first try is not there.

*The delivery.* That the handlers are the queue's server cannot be seen from a
state of the queue: why is a row never stored under an event older than its
request, and why is a 423 only heard when there is one to be heard? Because of
what the handler has loaded and checked since. `LinkInv` says so. For a tab that
waits (`LineInv`): its handler has loaded an event no older than the request was
sent (`SentBefore`), has found it running if it is past its guard, and carries an
answer that fits what it has done; and `stored` is set only once it has. For a
handler nobody waits for any more (`ForgottenInv`): what it may store is covered
by `late` (`Covers`). The two are the same fact before and after the phone gives up,
so the step that gives up passes one into the other. An insert of such a handler
spends `late`, which must not uncover another: of a capture that is not in
`several` no two of them can still store (`SoleInv`). And who lost the race for a
row will find the winner's (`RaceInv`). `LinesApart` keeps a handler to one
tab, and `LateInv` keeps `late` from running ahead of the events. An event that is
over stays over and events only grow (`Grows`), so a fact about what was loaded
holds on while everything else moves.

`DeliveryInv` joins this with the invariants of both halves, which are not proved
again: a step of the composition is a step of `PhotoServer` (`ServerStep`) and of
`CaptureQueue` (`QueueStep`), so `StorageInv`, `AlbumInv` and `QueueInv` are kept
by the lemmas that keep them there. `DeliveredOrHeld` then needs `NothingLost` from
the phone and `RowsHaveObjects` from the server, and `RefusedForGood` needs `OneInv`
from the phone and `ForgottenInv` from the line. The queue of the
model and the queue of its theorems are two instances of one module, which the
prover does not know to be equal; the lemmas `Same...` say it, definition by
definition.

*The session.* `SessionInv` says that a repeated request carries the new token,
which has not expired yet, and that until there is trouble tokens are *placed*: a phone's
cookie and what its handlers hold are of that phone alone, a handler at its
revoke holds a token that is not revoked, and a cookie is revoked only while the
phone's own refresh is about to replace it. The alarm needs a revoked token at
`Find`, and no untroubled phone presents one.

*The gate.* `GateInv` says that everything the app knows is *honest*: an answer
may be old, but when it says of an event that it is over, that event is in `ended`,
since an event that is over stays so. This speaks of the event that is named and not
of the newest, which is why overlapping starts do no harm here. And the path is *locked*: an address
of the album is kept only with a cached event that was said to be over. A render
establishes the second from the first.

*The screens.* `CameraInv` ties the preview's URL to the review, and says
(`ProvenOK`), as long as no request was overtaken since a stream last opened alone,
that none is outstanding behind the screen and where the camera that last ran is
(`before` while flipping, `facing` otherwise). So a refusal of another camera is
that of a flip under way, and is judged by `switching` as it is. `ShowInv` says what the timer
waits for (the photo after the index, of the list as it is), and counts the
locks. Both are proved of the parts alone; `Screens` is then shown to take only
steps of each part or to leave it alone, and the properties carry over.

*Boot.* `ReadyInv`: the version is a number that a late migration takes back, but
the migrations up to it were all run, and so were those before the one a process is
at; a process that finds the schema complete has read the last version. Three more
invariants hold of some states only and are then kept: `Stuck` (no user, and nobody
past the backfill: an empty database never gets further), `Beyond` (migration 2 is
behind every process, so the index stays dropped) and `Wedged` (the version is
before 5, whose column is there: every boot ends at migration 5). `Wedged` is the
harm of overlapping boots, `TakenBackStaysDown`.

*Thumbnails.* `ThumbnailsFit` is for every bound: the long edge rounds to exactly
the bound, the other to at most that, and both to at least one. It is the only
proof with multiplication of variables, which the provers do in small steps only.

Only proved, and in no run: `ServesWhenReady`, `ServesManyEvents`,
`TakenBackStaysDown` and the thumbnails, whose theorems
need no small instance, what crosses two events in `CaptureDelivery`, and whatever
needs two tabs at the queue.

Only model-checked: the liveness properties `EverySettles`, `GateFollows`,
`CameraComesBack` and `ShowGoesOn`, which are beyond the prover, as is everything
that needs `ENABLED`. That the composition of phone and server is live is neither
checked nor proved: `KeepsQueue` is about safety, and `EverySettles` is of the queue
with its own server. What the violated runs show are counterexamples and need no
proof.

## What is not modelled, and the plan

Next would be:

1. Liveness of `Session`: every request ends, once its state space is smaller.
2. `download_all.go`'s `uniqueName`: no two entries of a zip share a name.
3. `RefusedForGood` for later tries: a retry after the end is answered 423 although
   the first try was stored, since the lock is checked before the duplicate. The
   code has no promise there that holds, so there is nothing to prove until it
   does.
4. The session in front of `CaptureDelivery`: `TurnedAway` is any 4xx at any time,
   while `Session` knows when a 401 is due.

Left out for good, because nothing in them interleaves, fails or is remembered:
the photo viewer (`photo.tsx`) and downloads, which keep no state that outlives a
render; `root.tsx` and the routes' layout; CORS, which judges each request by its
own headers; the countdown and the clock, which format a duration; image decoding
and scaling (a library's); styling, configuration, generated code and the build.
