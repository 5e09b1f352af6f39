-------------------------------- MODULE Gate --------------------------------
(* The lock gate (gate.tsx): which screen the app shows for the event it    *)
(* has cached, how the cache follows the server (useEvent.ts, polled once a *)
(* minute), and how an event is started from the app (CreateEventModal.tsx).*)
(* The gate renders in the same step as what it reads changes.              *)
EXTENDS Naturals

CONSTANT MaxEvents       \* events that are ever started (a bound)

ASSUME EventsAssumption == MaxEvents \in Nat

VARIABLES
    event,               \* the server: the number of the current event, the newest
    ended,               \* the events that are over
    passed,              \* the POST /events whose check found none running
    token,               \* the access token, or what the server will say of it
    path,                \* location.pathname
    cache,               \* the query ["event", "current"]
    poll,                \* its fetch, if one is under way
    creating             \* POST /events, from this app

server == <<event, ended, passed>>
gateVars == <<server, token, path, cache, poll, creating>>

Paths == {"/login", "/", "/album", "/slideshow"}
(* Two kinds of 401: a token that could not be refreshed, and a user that   *)
(* the middleware could not load.                                           *)
Unauthorized == {"expired", "userNotFound"}
Errors == {"none", "notFound", "unreachable"} \cup Unauthorized

(* What the server says of its event; event 0 is no event.                  *)
Answer == [event : 0..MaxEvents, over : BOOLEAN]
Nothing == [event |-> 0, over |-> FALSE]
IsOver == event \in ended
Current == [event |-> event, over |-> IsOver]

(* data and the error of the last fetch; data.event = 0 is no data yet.     *)
Cache == [data : Answer, error : Errors]
Empty == [data |-> Nothing, error |-> "none"]
HasData(c) == c.data.event # 0

(* A poll is asked, and answered by data or by an error; again is its retry.*)
Poll == [pc : {"idle", "asked", "answered"}, again : BOOLEAN,
         data : Answer, error : Errors]
NoPoll == [pc |-> "idle", again |-> FALSE, data |-> Nothing, error |-> "none"]
Asked == [NoPoll EXCEPT !.pc = "asked"]

Create == [pc : {"none", "asked", "checked", "stored"}, data : Answer]
NoCreate == [pc |-> "none", data |-> Nothing]

GateInit ==
    /\ event = 0 /\ ended = {} /\ passed = 0
    /\ token = "none" /\ path = "/login"
    /\ cache = Empty /\ poll = NoPoll /\ creating = NoCreate

-----------------------------------------------------------------------------
(* The gate's rendering *)

ToLogin(p, tok, c) == p = "/login" \/ tok = "none" \/ c.error \in Unauthorized
SlipWaits(c) == c.error # "none"
Waits(c) == c.error # "none" \/ ~HasData(c)

SlipRoute(p, tok, c) ==
    IF ToLogin(p, tok, c) THEN "/login"
    ELSE IF ~Waits(c) /\ c.data.over /\ p = "/" THEN "/album" ELSE p

(* Where Navigate takes the app that is at p.                               *)
Route(p, tok, c) ==
    IF ToLogin(p, tok, c) THEN "/login"
    ELSE IF Waits(c) THEN p
    ELSE IF ~c.data.over THEN "/"
    ELSE IF p = "/" THEN "/album" ELSE p

Screen ==
    IF path = "/login" THEN "login"
    ELSE IF cache.error = "notFound" THEN "start"
    ELSE IF Waits(cache) THEN "splash"
    ELSE CASE path = "/" -> "camera"
           [] path = "/album" -> "album"
           [] path = "/slideshow" -> "slideshow"

(* The app is at p, with cache c, and the gate renders.                     *)
Renders(p, c) ==
    /\ cache' = c
    /\ path' = Route(p, token', c)

(* A fetch that has no data yet forgets the error of the one before.        *)
Fetching(c) == IF HasData(c) THEN c ELSE Empty

(* The gate mounts at p and asks, unless a fetch is under way or nobody is  *)
(* logged in.                                                               *)
Mounts(p, c) ==
    IF token' # "none" /\ poll.pc = "idle"
    THEN poll' = Asked /\ Renders(p, Fetching(c))
    ELSE UNCHANGED poll /\ Renders(p, c)

-----------------------------------------------------------------------------
(* The server *)

(* POST /events reads the current event, checks, and inserts in separate    *)
(* statements: a start that has passed its check comes to be however many   *)
(* events others have started by then.                                      *)
NoneRuns == event = 0 \/ IsOver
Passes == NoneRuns /\ event + passed < MaxEvents /\ passed' = passed + 1

Inserted ==
    /\ event' = event + 1 /\ passed' = passed - 1
    /\ ended' \in {ended, ended \cup {event'}}
NotInserted == passed' = passed - 1 /\ UNCHANGED <<event, ended>>

(* Another phone starts an event, or one that has already ended.            *)
StartPasses ==
    /\ Passes
    /\ UNCHANGED <<event, ended, token, path, cache, poll, creating>>

EventStarts ==
    /\ passed > IF creating.pc = "checked" THEN 1 ELSE 0
    /\ Inserted \/ NotInserted
    /\ UNCHANGED <<token, path, cache, poll, creating>>

EventEnds ==
    /\ \E e \in (1..event) \ ended : ended' = ended \cup {e}
    /\ UNCHANGED <<event, passed, token, path, cache, poll, creating>>

(* The session expires; another request of the app may be the one to learn  *)
(* it and clear the token.                                                  *)
SessionEnds ==
    /\ \/ token = "live" /\ token' = "dead"
       \/ token = "dead" /\ token' = "none"
    /\ UNCHANGED <<server, path, cache, poll, creating>>

-----------------------------------------------------------------------------
(* The user *)

(* login.tsx: setToken, and then navigate("/").                             *)
Login ==
    /\ path = "/login"
    /\ token' = "live" /\ Mounts("/", cache)
    /\ UNCHANGED <<server, creating>>

(* A link of the album and of the slideshow, an address, or the way back.   *)
Go(p) ==
    /\ p # path
    /\ UNCHANGED token
    /\ IF path = "/login" THEN Mounts(p, cache)
       ELSE Renders(p, cache) /\ UNCHANGED poll
    /\ UNCHANGED <<server, creating>>

(* The page is loaded again.                                                *)
Reload ==
    /\ UNCHANGED <<server, token>>
    /\ creating' = NoCreate
    /\ IF path # "/login" /\ token # "none"
       THEN poll' = Asked ELSE poll' = NoPoll
    /\ Renders(path, Empty)

(* The query cache drops what nobody has looked at for five minutes.        *)
Collect ==
    /\ path = "/login" /\ poll.pc = "idle" /\ cache' = Empty
    /\ UNCHANGED <<server, token, path, poll, creating>>

-----------------------------------------------------------------------------
(* The poll *)

(* refetchInterval and the focus of the window; and on the camera, when the *)
(* queue has drained, invalidateQueries, which gives up a fetch under way.  *)
PollAsks ==
    /\ path # "/login" /\ token # "none"
    /\ poll.pc = "idle" \/ Screen = "camera"
    /\ poll' = Asked /\ UNCHANGED token /\ Renders(path, Fetching(cache))
    /\ UNCHANGED <<server, creating>>

(* GET /events/current is handled.                                          *)
PollAnswered ==
    /\ poll.pc = "asked"
    /\ poll' = [poll EXCEPT
          !.pc = "answered",
          !.data = IF token = "live" THEN Current ELSE Nothing,
          !.error = IF token # "live" THEN "expired"
                    ELSE IF event = 0 THEN "notFound" ELSE "none"]
    /\ UNCHANGED <<server, token, path, cache, creating>>

(* It is refused with a token that is good: any error of the database while *)
(* the middleware loads the user is a 401, too.                             *)
PollRefused ==
    /\ poll.pc = "asked" /\ token = "live"
    /\ poll' = [poll EXCEPT !.pc = "answered", !.error = "userNotFound"]
    /\ UNCHANGED <<server, token, path, cache, creating>>

SlipPollArrives ==
    /\ poll.pc = "answered" /\ poll.error = "none"
    /\ poll' = NoPoll /\ UNCHANGED token
    /\ Renders(path, [cache EXCEPT !.data =
                         IF HasData(cache) THEN @ ELSE poll.data,
                      !.error = "none"])
    /\ UNCHANGED <<server, creating>>

PollArrives ==
    /\ poll.pc = "answered" /\ poll.error = "none"
    /\ poll' = NoPoll /\ UNCHANGED token
    /\ Renders(path, [data |-> poll.data, error |-> "none"])
    /\ UNCHANGED <<server, creating>>

SlipPollFails ==
    /\ poll.pc # "idle"
    /\ poll' = NoPoll /\ UNCHANGED token
    /\ Renders(path, [cache EXCEPT !.error = "unreachable"])
    /\ UNCHANGED <<server, creating>>

(* The poll fails: it is tried once more, and then data that is cached stays*)
(* but the error shows.  The client has cleared a token it could not        *)
(* refresh, and keeps one that was refused for any other reason.            *)
PollFails ==
    /\ poll.pc # "idle"
    /\ \E error \in Errors \ {"none"} :
          /\ error = poll.error \/ error = "unreachable"
          /\ token' = IF error = "expired" THEN "none" ELSE token
          /\ IF ~poll.again
             THEN poll' = [Asked EXCEPT !.again = TRUE] /\ UNCHANGED <<path, cache>>
             ELSE poll' = NoPoll /\ Renders(path, [cache EXCEPT !.error = error])
    /\ UNCHANGED <<server, creating>>

-----------------------------------------------------------------------------
(* Starting an event from the start screen or the album *)

SlipSubmitEvent ==
    /\ Screen \in {"start", "album"} /\ creating.pc = "none"
    /\ creating' = [creating EXCEPT !.pc = "asked"]
    /\ UNCHANGED token
    /\ Renders(path, [data |-> [event |-> event + 1, over |-> FALSE],
                      error |-> "none"])
    /\ UNCHANGED <<server, poll>>

SubmitEvent ==
    /\ Screen \in {"start", "album"} /\ creating.pc = "none"
    /\ creating' = [creating EXCEPT !.pc = "asked"]
    /\ UNCHANGED <<server, token, path, cache, poll>>

CreateChecked ==
    /\ creating.pc = "asked" /\ token = "live" /\ Passes
    /\ creating' = [creating EXCEPT !.pc = "checked"]
    /\ UNCHANGED <<event, ended, token, path, cache, poll>>

(* The server stores it; or refuses, or nothing comes of it.                *)
CreateAnswered ==
    /\ \/ /\ creating.pc = "checked" /\ Inserted
          /\ creating' = [pc |-> "stored",
                          data |-> [event |-> event', over |-> event' \in ended']]
       \/ creating.pc = "checked" /\ NotInserted /\ creating' = NoCreate
       \/ creating.pc = "asked" /\ UNCHANGED server /\ creating' = NoCreate
    /\ UNCHANGED <<token, path, cache, poll>>

(* setQueryData, wherever the app is by now; or the answer is lost.         *)
Created ==
    /\ creating.pc = "stored" /\ creating' = NoCreate
    /\ UNCHANGED token
    /\ \/ Renders(path, [data |-> creating.data, error |-> "none"])
       \/ UNCHANGED <<path, cache>>
    /\ UNCHANGED <<server, poll>>

-----------------------------------------------------------------------------
(* The specification *)

GateNext ==
    \/ StartPasses \/ EventStarts \/ EventEnds \/ SessionEnds
    \/ Login \/ Reload \/ Collect \/ \E p \in Paths : Go(p)
    \/ PollAsks \/ PollAnswered \/ PollRefused \/ PollArrives \/ PollFails
    \/ SubmitEvent \/ CreateChecked \/ CreateAnswered \/ Created

GateSpec == GateInit /\ [][GateNext]_gateVars

(* The interval passes and the server answers; a poll that is asked again   *)
(* and again gets through some time.                                        *)
GateFairness ==
    /\ WF_gateVars(PollAsks) /\ WF_gateVars(PollArrives \/ PollFails)
    /\ SF_gateVars(PollAnswered) /\ SF_gateVars(PollArrives)

GateFairSpec == GateSpec /\ GateFairness

-----------------------------------------------------------------------------
(* What the gate owes *)

(* Every variable has its type, and no part of the app knows of an event    *)
(* that the server does not have.                                           *)
GateTypeOK ==
    /\ \A a \in {cache.data, poll.data, creating.data} : a.event <= event
    /\ event \in 0..MaxEvents /\ ended \subseteq 1..event
    /\ passed \in 0..(MaxEvents - event)
    /\ token \in {"live", "dead", "none"} /\ path \in Paths
    /\ cache \in Cache /\ poll \in Poll /\ creating \in Create

(* The album and the slideshow are shown for an event that is over on the   *)
(* server, the current one or an older: whatever is cached, late or typed   *)
(* as an address (gate.tsx: "every album route bounces").                   *)
NeverEarly ==
    Screen \in {"album", "slideshow"} => cache.data.event \in ended

(* The screens follow the lock as LockedScreens has it: no screen of an     *)
(* event before one is known, no album of one that may still run, though    *)
(* starts overlap.                                                          *)
Screens == INSTANCE LockedScreens WITH known <- cache.data.event, screen <- Screen
KeepsScreens == Screens!LockedSpec

(* What takes the camera away is the server's word that the event is over,  *)
(* a session that has ended, the user, or a poll that failed twice; one     *)
(* answer lost is not enough (queryClient.ts: retry).                       *)
CameraStays ==
    [][ Screen = "camera" /\ Screen' # "camera"
        => \/ cache'.data.over \/ token' = "none"
           \/ cache'.error # "none" /\ poll.again
           \/ Reload \/ \E p \in Paths : Go(p) ]_gateVars

(* While the session lives and nobody reaches for the login screen, an      *)
(* event that is over takes the camera away, without a reload (useEvent.ts: *)
(* "the app flips from camera to album on its own").                        *)
GateFollows ==
    \A e \in 1..MaxEvents :
       path = "/" /\ token = "live" /\ event = e /\ e \in ended
       ~> path # "/" \/ token # "live" \/ event # e
=============================================================================
