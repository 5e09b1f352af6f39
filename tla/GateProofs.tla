----------------------------- MODULE GateProofs -----------------------------
(* Theorems about Gate, for any number of events.                           *)
EXTENDS Gate, TLAPS

(* What an answer a says of an event was true, and that it is over still    *)
(* is; the server has that event.                                           *)
Honest(a) == a \in Answer /\ a.event <= event /\ (a.over => a.event \in ended)

(* Where an app with cache c may be: an address of the album only for an    *)
(* event that was said to be over.                                          *)
Locked(p, c) ==
    p \in {"/album", "/slideshow"} /\ HasData(c) /\ c.error = "none"
    => c.data.over

ServerOK == /\ event \in 0..MaxEvents /\ ended \subseteq 1..event
            /\ passed \in 0..(MaxEvents - event)
AppOK == /\ token \in {"live", "dead", "none"} /\ path \in Paths
         /\ cache \in Cache /\ Honest(cache.data) /\ Locked(path, cache)
PollOK == /\ poll \in Poll /\ Honest(poll.data)
          /\ poll.pc = "answered" /\ poll.error = "none" => poll.data.event # 0
CreateOK == /\ creating \in Create /\ Honest(creating.data)
            /\ creating.pc = "stored" => creating.data.event # 0
            /\ creating.pc = "checked" => passed # 0

GateInv == ServerOK /\ AppOK /\ PollOK /\ CreateOK

(* Navigate leads to an address of the app, and to the album only by an     *)
(* event that is over.                                                      *)
LEMMA RouteLocks ==
    ASSUME NEW p \in Paths, NEW tok, NEW c \in Cache
    PROVE  Route(p, tok, c) \in Paths /\ Locked(Route(p, tok, c), c)
<1>1. c.data.over \in BOOLEAN
  BY DEF Cache, Answer
<1>2. CASE ToLogin(p, tok, c)
  BY <1>2 DEF Route, Locked, Paths
<1>3. CASE ~ToLogin(p, tok, c) /\ Waits(c)
  <2>1. Route(p, tok, c) = p
    BY <1>3 DEF Route
  <2> QED
    BY <1>3, <2>1 DEF Locked, Waits
<1>4. CASE ~ToLogin(p, tok, c) /\ ~Waits(c)
  <2>1. CASE c.data.over
    <3>1. Route(p, tok, c) = IF p = "/" THEN "/album" ELSE p
      BY <1>4, <2>1 DEF Route
    <3> QED
      BY <2>1, <3>1 DEF Locked, Paths
  <2>2. CASE ~c.data.over
    <3>1. Route(p, tok, c) = "/"
      BY <1>4, <2>2 DEF Route
    <3> QED
      BY <3>1 DEF Locked, Paths
  <2> QED
    BY <2>1, <2>2
<1> QED
  BY <1>2, <1>3, <1>4

(* A render with a cache that says nothing false keeps the app in order.    *)
LEMMA RendersKeeps ==
    ASSUME NEW p \in Paths, NEW c \in Cache, Honest(c.data), Renders(p, c),
           token' \in {"live", "dead", "none"}, UNCHANGED server
    PROVE  AppOK'
<1>1. path' \in Paths /\ Locked(path', c)
  BY RouteLocks DEF Renders
<1>2. cache' = c
  BY DEF Renders
<1> QED
  BY <1>1, <1>2 DEF AppOK, Honest, Locked, server, HasData

(* Events come, and those that are over stay over.                          *)
Moves == event' \in {event, event + 1} /\ ended \subseteq ended'

(* Nothing the app knows becomes false when the server moves on.            *)
LEMMA ServerMoves ==
    ASSUME ServerOK, Moves, NEW a \in Answer, Honest(a)
    PROVE  a.event <= event' /\ (a.over => a.event \in ended')
<1>1. a.event \in Nat /\ event \in Nat
  BY EventsAssumption DEF Answer, ServerOK
<1> QED
  BY <1>1 DEF Honest, Moves

(* So the app and its poll stay in order.                                   *)
LEMMA AppRests ==
    ASSUME ServerOK, AppOK, PollOK, Moves,
           UNCHANGED <<path, cache, poll>>, token' \in {"live", "dead", "none"}
    PROVE  AppOK' /\ PollOK'
<1>1. cache.data \in Answer /\ poll.data \in Answer
  BY DEF AppOK, PollOK, Cache, Poll
<1>2. Honest(cache.data)' /\ Honest(poll.data)'
  BY <1>1, ServerMoves DEF AppOK, PollOK, Honest
<1> QED
  BY <1>2 DEF AppOK, PollOK, Locked, HasData

(* The statements of a start keep the server in order.                      *)
LEMMA StartMoves ==
    ASSUME ServerOK, \/ Passes /\ UNCHANGED <<event, ended>>
                     \/ passed # 0 /\ (Inserted \/ NotInserted)
    PROVE  ServerOK' /\ Moves
<1>0. event \in Nat /\ passed \in Nat /\ MaxEvents \in Nat
      /\ event + passed <= MaxEvents /\ ended \subseteq 1..event
  BY EventsAssumption DEF ServerOK
<1>1. CASE Passes /\ UNCHANGED <<event, ended>>
  BY <1>0, <1>1 DEF Passes, ServerOK, Moves
<1>2. CASE passed # 0 /\ Inserted
  <2>1. ended' \subseteq 1..event' /\ ended \subseteq ended'
    BY <1>0, <1>2 DEF Inserted
  <2> QED
    BY <1>0, <1>2, <2>1 DEF Inserted, ServerOK, Moves
<1>3. CASE passed # 0 /\ NotInserted
  BY <1>0, <1>3 DEF NotInserted, ServerOK, Moves
<1> QED
  BY <1>1, <1>2, <1>3

(* Empty and untouched answers say nothing.                                 *)
LEMMA NothingIsHonest == ServerOK => Honest(Nothing) /\ Nothing \in Answer
BY EventsAssumption DEF ServerOK, Honest, Nothing, Answer

LEMMA EmptyIsHonest == ServerOK => Empty \in Cache /\ Honest(Empty.data)
BY NothingIsHonest DEF Empty, Cache, Errors

LEMMA NoPollIsHonest ==
    ServerOK => /\ NoPoll \in Poll /\ Honest(NoPoll.data)
                /\ Asked \in Poll /\ Honest(Asked.data)
                /\ NoPoll.pc = "idle" /\ Asked.pc = "asked"
BY NothingIsHonest DEF NoPoll, Asked, Poll, Errors

LEMMA NoCreateIsHonest ==
    ServerOK => NoCreate \in Create /\ Honest(NoCreate.data)
                /\ NoCreate.pc = "none"
BY NothingIsHonest DEF NoCreate, Create

(* What did not change while the server did not is as honest as before.     *)
LEMMA Frame ==
    ASSUME UNCHANGED server
    PROVE  /\ ServerOK => ServerOK'
           /\ AppOK /\ UNCHANGED <<token, path, cache>> => AppOK'
           /\ PollOK /\ UNCHANGED poll => PollOK'
           /\ CreateOK /\ UNCHANGED creating => CreateOK'
BY DEF server, ServerOK, AppOK, PollOK, CreateOK, Honest, Locked, HasData

(* Mounting and asking again keep the app and the poll in order.            *)
LEMMA MountKeeps ==
    ASSUME ServerOK, PollOK, NEW p \in Paths, NEW c \in Cache, Honest(c.data),
           Mounts(p, c), token' \in {"live", "dead", "none"}, UNCHANGED server
    PROVE  AppOK' /\ PollOK'
<1>1. Fetching(c) \in Cache /\ Honest(Fetching(c).data)
  BY EmptyIsHonest DEF Fetching
<1>2. CASE poll' = Asked /\ Renders(p, Fetching(c))
  <2>1. AppOK'
    BY <1>1, <1>2, RendersKeeps
  <2>2. PollOK'
    BY <1>2, NoPollIsHonest DEF PollOK, Honest, server
  <2> QED
    BY <2>1, <2>2
<1>3. CASE UNCHANGED poll /\ Renders(p, c)
  BY <1>3, RendersKeeps, Frame
<1> QED
  BY <1>2, <1>3 DEF Mounts

(* The steps of the server itself                                           *)
LEMMA ServerStepKeeps ==
    ASSUME GateInv, StartPasses \/ EventStarts \/ EventEnds \/ SessionEnds
    PROVE  GateInv'
<1> USE DEF GateInv
<1>0. UNCHANGED <<path, cache, poll, creating>> /\ token' \in {"live", "dead", "none"}
  BY DEF AppOK, StartPasses, EventStarts, EventEnds, SessionEnds
<1>1. /\ ServerOK' /\ Moves
      /\ creating.pc = "checked" => passed' # 0
  <2>0. event \in Nat /\ passed \in Nat /\ ended \subseteq 1..event
        /\ (creating.pc = "checked" => passed # 0)
    BY EventsAssumption DEF ServerOK, CreateOK
  <2>1. CASE StartPasses
    BY <2>0, <2>1, StartMoves DEF StartPasses, Passes
  <2>2. CASE EventStarts
    <3>1. passed # 0 /\ (Inserted \/ NotInserted) /\ passed' = passed - 1
          /\ (creating.pc = "checked" => passed > 1)
      BY <2>0, <2>2 DEF EventStarts, Inserted, NotInserted
    <3> QED
      BY <2>0, <3>1, StartMoves
  <2>3. CASE EventEnds
    BY <2>0, <2>3 DEF EventEnds, ServerOK, Moves
  <2>4. CASE SessionEnds
    BY <2>0, <2>4 DEF SessionEnds, server, ServerOK, Moves
  <2> QED
    BY <2>1, <2>2, <2>3, <2>4
<1>2. AppOK' /\ PollOK'
  BY <1>0, <1>1, AppRests
<1>3. CreateOK'
  <2>1. creating.data \in Answer
    BY DEF CreateOK, Create
  <2>2. Honest(creating.data)'
    BY <1>0, <1>1, <2>1, ServerMoves DEF CreateOK, Honest
  <2> QED
    BY <1>0, <1>1, <2>2 DEF CreateOK
<1> QED
  BY <1>1, <1>2, <1>3

(* What the user does                                                       *)
LEMMA UserStepKeeps ==
    ASSUME GateInv, Login \/ Reload \/ Collect \/ \E p \in Paths : Go(p)
    PROVE  GateInv'
<1> USE DEF GateInv
<1>a. cache \in Cache /\ Honest(cache.data) /\ "/" \in Paths /\ path \in Paths
      /\ token \in {"live", "dead", "none"}
  BY DEF AppOK, Paths
<1>1. CASE Login
  BY <1>1, <1>a, MountKeeps, Frame DEF Login, server
<1>2. CASE Reload
  <2>1. UNCHANGED server /\ Renders(path, Empty) /\ UNCHANGED token
        /\ poll' \in {Asked, NoPoll} /\ creating' = NoCreate
    BY <1>2 DEF Reload, server
  <2>2. AppOK'
    BY <2>1, <1>a, EmptyIsHonest, RendersKeeps
  <2>3. PollOK' /\ CreateOK'
    BY <2>1, NoPollIsHonest, NoCreateIsHonest
       DEF PollOK, CreateOK, Honest, server
  <2> QED
    BY <2>1, <2>2, <2>3, Frame
<1>3. CASE Collect
  <2>1. cache' = Empty /\ UNCHANGED <<server, token, path, poll, creating>>
    BY <1>3 DEF Collect
  <2>2. AppOK'
    BY <2>1, <1>a, EmptyIsHonest
       DEF AppOK, Honest, Locked, HasData, Empty, Nothing, server
  <2> QED
    BY <2>1, <2>2, Frame DEF server
<1>4. ASSUME NEW p \in Paths, Go(p) PROVE GateInv'
  <2>1. UNCHANGED <<server, token, creating>>
    BY <1>4 DEF Go
  <2>2. CASE Mounts(p, cache)
    BY <2>1, <2>2, <1>a, MountKeeps, Frame DEF server
  <2>3. CASE Renders(p, cache) /\ UNCHANGED poll
    BY <2>1, <2>3, <1>a, RendersKeeps, Frame DEF server
  <2> QED
    BY <1>4, <2>2, <2>3 DEF Go
<1> QED
  BY <1>1, <1>2, <1>3, <1>4

(* The poll                                                                 *)
LEMMA PollStepKeeps ==
    ASSUME GateInv,
           PollAsks \/ PollAnswered \/ PollRefused \/ PollArrives \/ PollFails
    PROVE  GateInv'
<1> USE DEF GateInv
<1>a. cache \in Cache /\ Honest(cache.data) /\ path \in Paths
      /\ token \in {"live", "dead", "none"} /\ poll \in Poll /\ Honest(poll.data)
  BY DEF AppOK, PollOK
<1>b. UNCHANGED server /\ UNCHANGED creating
  BY DEF PollAsks, PollAnswered, PollRefused, PollArrives, PollFails
<1>1. CASE PollAsks
  <2>1. Fetching(cache) \in Cache /\ Honest(Fetching(cache).data)
    BY <1>a, EmptyIsHonest DEF Fetching
  <2>2. AppOK'
    BY <1>1, <1>a, <1>b, <2>1, RendersKeeps DEF PollAsks
  <2>3. PollOK'
    BY <1>1, <1>b, NoPollIsHonest DEF PollAsks, PollOK, Honest, server
  <2> QED
    BY <1>b, <2>2, <2>3, Frame
<1>2. CASE PollAnswered
  <2>1. Current \in Answer /\ Honest(Current)
    <3>1. event \in 0..MaxEvents /\ event <= event
      BY EventsAssumption DEF ServerOK
    <3>2. Current.event = event /\ Current.over = (event \in ended)
      BY DEF Current, IsOver
    <3>3. Current \in Answer
      BY <3>1 DEF Current, IsOver, Answer
    <3> QED
      BY <3>1, <3>2, <3>3, Zenon DEF Honest
  <2>2. PollOK'
    <3>1. /\ poll'.data \in {Current, Nothing} /\ poll' \in Poll
      BY <1>2, <1>a, <2>1, NothingIsHonest
         DEF PollAnswered, Poll, Errors, Unauthorized
    <3>2. poll'.error = "none" => poll'.data = Current /\ event # 0
      BY <1>2, <1>a DEF PollAnswered, Poll
    <3>3. Honest(poll'.data)
      BY <3>1, <2>1, NothingIsHonest
    <3> QED
      BY <3>1, <3>2, <3>3, <1>b DEF PollOK, Honest, Current, server
  <2> QED
    BY <1>2, <1>b, <2>2, Frame DEF PollAnswered
<1>5. CASE PollRefused
  <2>1. poll' \in Poll /\ poll'.data = poll.data /\ poll'.error = "userNotFound"
    BY <1>5, <1>a DEF PollRefused, Poll, Errors, Unauthorized
  <2>2. PollOK'
    BY <2>1, <1>a, <1>b DEF PollOK, Honest, server
  <2> QED
    BY <1>5, <1>b, <2>2, Frame DEF PollRefused
<1>3. CASE PollArrives
  <2> DEFINE c == [data |-> poll.data, error |-> "none"]
  <2>1. c \in Cache /\ Honest(c.data)
    BY <1>a DEF Cache, Poll, Errors
  <2>2. AppOK'
    BY <1>3, <1>a, <1>b, <2>1, RendersKeeps DEF PollArrives
  <2>3. PollOK'
    BY <1>3, <1>b, NoPollIsHonest DEF PollArrives, PollOK, Honest, server
  <2> QED
    BY <1>b, <2>2, <2>3, Frame
<1>4. CASE PollFails
  <2> PICK error \in Errors \ {"none"} :
        /\ token' = IF error = "expired" THEN "none" ELSE token
        /\ IF ~poll.again
           THEN poll' = [Asked EXCEPT !.again = TRUE] /\ UNCHANGED <<path, cache>>
           ELSE poll' = NoPoll /\ Renders(path, [cache EXCEPT !.error = error])
    BY <1>4 DEF PollFails
  <2>1. token' \in {"live", "dead", "none"}
    BY <1>a
  <2>2. CASE poll' = [Asked EXCEPT !.again = TRUE] /\ UNCHANGED <<path, cache>>
    <3>1. AppOK'
      BY <2>1, <2>2, <1>b DEF AppOK, Honest, server, Locked, HasData
    <3>2. poll' \in Poll /\ poll'.data = Nothing /\ poll'.pc = "asked"
      BY <2>2, NothingIsHonest DEF Asked, NoPoll, Poll, Errors
    <3>3. PollOK'
      BY <3>2, <1>b, NothingIsHonest DEF PollOK, Honest, server
    <3> QED
      BY <1>b, <3>1, <3>3, Frame
  <2>3. CASE poll' = NoPoll /\ Renders(path, [cache EXCEPT !.error = error])
    <3> DEFINE c == [cache EXCEPT !.error = error]
    <3>1. c \in Cache /\ c.data = cache.data
      BY <1>a DEF Cache
    <3>2. AppOK'
      BY <1>a, <1>b, <2>1, <2>3, <3>1, RendersKeeps
    <3>3. PollOK'
      BY <1>b, <2>3, NoPollIsHonest DEF PollOK, Honest, server
    <3> QED
      BY <1>b, <3>2, <3>3, Frame
  <2> QED
    BY <2>2, <2>3
<1> QED
  BY <1>1, <1>2, <1>3, <1>4, <1>5

(* Starting an event from the app                                           *)
LEMMA CreateStepKeeps ==
    ASSUME GateInv, SubmitEvent \/ CreateChecked \/ CreateAnswered \/ Created
    PROVE  GateInv'
<1> USE DEF GateInv
<1>a. cache \in Cache /\ path \in Paths /\ token \in {"live", "dead", "none"}
      /\ creating \in Create /\ Honest(creating.data)
  BY DEF AppOK, CreateOK
<1>1. CASE SubmitEvent
  <2>1. CreateOK'
    BY <1>1, <1>a DEF SubmitEvent, CreateOK, Create, Honest, server
  <2> QED
    BY <1>1, <2>1, Frame DEF SubmitEvent, server
<1>4. CASE CreateChecked
  <2>1. Passes /\ UNCHANGED <<event, ended, token, path, cache, poll>>
        /\ creating' = [creating EXCEPT !.pc = "checked"]
    BY <1>4 DEF CreateChecked
  <2>2. ServerOK' /\ Moves
    BY <2>1, StartMoves
  <2>3. AppOK' /\ PollOK'
    BY <1>a, <2>1, <2>2, AppRests
  <2>4. passed' # 0
    BY <2>1, EventsAssumption DEF Passes, ServerOK
  <2>5. creating' \in Create /\ creating'.data = creating.data
        /\ creating'.pc = "checked"
    BY <1>a, <2>1 DEF Create
  <2>6. CreateOK'
    BY <1>a, <2>1, <2>4, <2>5 DEF CreateOK, Honest
  <2> QED
    BY <2>2, <2>3, <2>6
<1>2. CASE CreateAnswered
  <2>0. UNCHANGED <<token, path, cache, poll>>
    BY <1>2 DEF CreateAnswered
  <2>a. creating.pc = "checked" => passed # 0
    BY DEF CreateOK
  <2>1. CASE creating.pc = "asked" /\ creating' = NoCreate /\ UNCHANGED server
    BY <2>0, <2>1, Frame, NoCreateIsHonest DEF CreateOK, Honest, server
  <2>2. CASE creating.pc = "checked" /\ NotInserted /\ creating' = NoCreate
    <3>1. ServerOK' /\ Moves
      BY <2>2, <2>a, StartMoves
    <3>2. AppOK' /\ PollOK'
      BY <1>a, <2>0, <3>1, AppRests
    <3>3. CreateOK'
      BY <2>2, NoCreateIsHonest DEF NotInserted, CreateOK, Honest
    <3> QED
      BY <3>1, <3>2, <3>3
  <2>3. CASE /\ creating.pc = "checked" /\ Inserted
             /\ creating' = [pc |-> "stored",
                             data |-> [event |-> event', over |-> event' \in ended']]
    <3>1. ServerOK' /\ Moves
      BY <2>3, <2>a, StartMoves
    <3>2. AppOK' /\ PollOK'
      BY <1>a, <2>0, <3>1, AppRests
    <3>3. event' \in 1..MaxEvents
      BY <2>3, <3>1, EventsAssumption DEF Inserted, ServerOK
    <3>4. [event |-> event', over |-> event' \in ended'] \in Answer
      BY <3>3, EventsAssumption DEF Answer
    <3>5. creating' \in Create /\ creating'.pc = "stored"
          /\ creating'.data.event = event'
          /\ (creating'.data.over => event' \in ended')
      BY <2>3, <3>4 DEF Create
    <3>6. CreateOK'
      BY <3>3, <3>5, <3>4, <2>3 DEF CreateOK, Honest
    <3> QED
      BY <3>1, <3>2, <3>6
  <2> QED
    BY <1>2, <2>1, <2>2, <2>3 DEF CreateAnswered
<1>3. CASE Created
  <2>0. UNCHANGED server /\ UNCHANGED <<token, poll>> /\ creating' = NoCreate
    BY <1>3 DEF Created, server
  <2> DEFINE c == [data |-> creating.data, error |-> "none"]
  <2>1. c \in Cache /\ c.data = creating.data
    BY <1>a DEF Cache, Create, Errors
  <2>2. AppOK'
    <3>1. CASE Renders(path, c)
      BY <1>a, <2>0, <2>1, <3>1, RendersKeeps
    <3>2. CASE UNCHANGED <<path, cache>>
      BY <2>0, <3>2, Frame
    <3> QED
      BY <1>3, <3>1, <3>2 DEF Created
  <2>3. CreateOK'
    BY <2>0, NoCreateIsHonest DEF CreateOK, Honest, server
  <2> QED
    BY <2>0, <2>2, <2>3, Frame
<1> QED
  BY <1>1, <1>2, <1>3, <1>4

(* The invariant holds throughout.                                          *)
LEMMA GateInvariant == GateSpec => []GateInv
<1>1. GateInit => GateInv
  <2> SUFFICES ASSUME GateInit PROVE GateInv
    OBVIOUS
  <2>1. ServerOK
    BY EventsAssumption DEF GateInit, ServerOK
  <2>2. AppOK
    BY <2>1, EmptyIsHonest
       DEF GateInit, AppOK, Paths, Locked, HasData, Empty, Nothing
  <2> QED
    BY <2>1, <2>2, NoPollIsHonest, NoCreateIsHonest
       DEF GateInit, GateInv, PollOK, CreateOK
<1>2. GateInv /\ [GateNext]_gateVars => GateInv'
  <2> SUFFICES ASSUME GateInv, [GateNext]_gateVars PROVE GateInv'
    OBVIOUS
  <2>1. CASE UNCHANGED gateVars
    BY <2>1, Frame DEF gateVars, server, GateInv
  <2> QED
    BY <2>1, ServerStepKeeps, UserStepKeeps, PollStepKeeps, CreateStepKeeps
       DEF GateNext
<1> QED
  BY <1>1, <1>2, PTL DEF GateSpec

(* The types, and that the app knows of no event the server does not have.  *)
THEOREM GateTypeCorrect == GateSpec => []GateTypeOK
<1>1. GateInv => GateTypeOK
  BY DEF GateInv, GateTypeOK, ServerOK, AppOK, PollOK, CreateOK, Honest
<1> QED
  BY <1>1, GateInvariant, PTL

(* No screen of the album for an event that still runs.                     *)
THEOREM AlbumIsNeverEarly == GateSpec => []NeverEarly
<1>1. GateInv => NeverEarly
  <2> SUFFICES ASSUME GateInv, Screen \in {"album", "slideshow"}
               PROVE  cache.data.event \in ended
    BY DEF NeverEarly
  <2>1. ~Waits(cache) /\ path \in {"/album", "/slideshow"}
    BY DEF GateInv, AppOK, Paths, Screen
  <2> QED
    BY <2>1 DEF GateInv, AppOK, Honest, Locked, Waits, HasData
<1> QED
  BY <1>1, GateInvariant, PTL

(* What a screen stands for: it is one of the app's, shows an event only    *)
(* when there is one, and the album only by an event that is over.          *)
Stands ==
    /\ Screen \in Screens!AllScreens /\ cache.data.event \in 0..event
    /\ Screen = "camera" => cache.data.event # 0
    /\ Screen \in Screens!Album => cache.data.event \in ended

LEMMA ScreenStands == GateInv => Stands
<1> SUFFICES ASSUME GateInv PROVE Stands
  OBVIOUS
<1>1. cache.data.event \in 0..event
  BY EventsAssumption DEF GateInv, ServerOK, AppOK, Cache, Answer, Honest
<1>2. Screen \in Screens!AllScreens
  BY DEF GateInv, AppOK, Paths, Screen, Screens!AllScreens
<1>3. Screen \in {"camera"} \cup Screens!Album => ~Waits(cache)
  BY DEF Screen, Screens!Album
<1>4. Screen \in Screens!Album => path \in {"/album", "/slideshow"}
  BY DEF GateInv, AppOK, Paths, Screen, Screens!Album
<1> QED
  BY <1>1, <1>2, <1>3, <1>4
     DEF Stands, GateInv, AppOK, Honest, Locked, Waits, HasData

(* A step that leaves the server alone turns the screen as the lock allows. *)
LEMMA AppTurns ==
    ASSUME GateInv', UNCHANGED <<event, ended>>
    PROVE  \E s \in Screens!AllScreens, k \in 0..event : Screens!Turns(s, k)
<1>0. GateInv' => Stands'
  BY ScreenStands, PTL
<1>1. Screen' \in Screens!AllScreens /\ cache'.data.event \in 0..event
  BY <1>0 DEF Stands
<1>2. Screens!Turns(Screen', cache'.data.event)
  BY <1>0 DEF Stands, Screens!Turns, Screens!Album
<1> QED
  BY <1>1, <1>2

(* The gate, with its cache, its poll and its races, implements the lock    *)
(* that LockedScreens promises.                                             *)
THEOREM GateKeepsScreens == GateSpec => KeepsScreens
<1>1. GateInit => Screens!LockedInit
  BY DEF GateInit, Screens!LockedInit, Empty, Nothing, Screen
<1>2. GateInv /\ GateInv' /\ [GateNext]_gateVars
      => [Screens!LockedNext]_(Screens!lockedVars)
  <2> SUFFICES ASSUME GateInv, GateInv', [GateNext]_gateVars
               PROVE  [Screens!LockedNext]_(Screens!lockedVars)
    OBVIOUS
  <2> USE DEF Screens!LockedNext
  <2>1. CASE UNCHANGED gateVars
    BY <2>1, AppTurns DEF gateVars, server
  <2>2. CASE Inserted /\ UNCHANGED <<path, cache>>
    <3>1. event < MaxEvents
      BY <2>2, EventsAssumption DEF Inserted, GateInv, ServerOK
    <3>2. UNCHANGED <<cache, Screen>>
      BY <2>2 DEF Screen
    <3> QED
      BY <2>2, <3>1, <3>2 DEF Inserted, Screens!Starts
  <2>3. CASE EventEnds
    <3>1. UNCHANGED <<cache, Screen>>
      BY <2>3 DEF EventEnds, Screen
    <3> QED
      BY <2>3, <3>1 DEF EventEnds, Screens!Ends
  <2>4. CASE StartPasses \/ EventStarts \/ CreateChecked \/ CreateAnswered
    <3>1. UNCHANGED <<path, cache>> /\ (Inserted \/ UNCHANGED <<event, ended>>)
      BY <2>4 DEF StartPasses, EventStarts, CreateChecked, CreateAnswered,
                  NotInserted, server
    <3> QED
      BY <2>2, <3>1, AppTurns
  <2>5. CASE SessionEnds
    BY <2>5, AppTurns DEF SessionEnds, server
  <2>6. CASE Login \/ Reload \/ Collect \/ \E p \in Paths : Go(p)
    <3>1. UNCHANGED server
      BY <2>6 DEF Login, Reload, Collect, Go, server
    <3> QED
      BY <3>1, AppTurns DEF server
  <2>7. CASE PollAsks \/ PollAnswered \/ PollRefused \/ PollArrives \/ PollFails
    <3>1. UNCHANGED server
      BY <2>7 DEF PollAsks, PollAnswered, PollRefused, PollArrives, PollFails, server
    <3> QED
      BY <3>1, AppTurns DEF server
  <2>8. CASE SubmitEvent \/ Created
    <3>1. UNCHANGED server
      BY <2>8 DEF SubmitEvent, Created, server
    <3> QED
      BY <3>1, AppTurns DEF server
  <2> QED
    BY <2>1, <2>2, <2>3, <2>4, <2>5, <2>6, <2>7, <2>8 DEF GateNext
<1> QED
  BY <1>1, <1>2, GateInvariant, PTL DEF GateSpec, KeepsScreens, Screens!LockedSpec

(* The camera is rendered for an event that was last said to run.           *)
LEMMA CameraRendered ==
    ASSUME NEW c \in Cache, Renders("/", c), HasData(c), c.error = "none",
           ~c.data.over, token' # "none"
    PROVE  Screen' = "camera"
<1>1. cache' = c /\ ~Waits(c) /\ ~ToLogin("/", token', c)
  BY DEF Renders, Waits, ToLogin, Unauthorized
<1>2. path' = "/"
  BY <1>1 DEF Renders, Route
<1> QED
  BY <1>1, <1>2 DEF Screen, Waits, HasData

(* One lost answer never takes the camera away from a running event.        *)
THEOREM CameraIsKept == GateSpec => CameraStays
<1>1. GateInv /\ [GateNext]_gateVars =>
      [ Screen = "camera" /\ Screen' # "camera"
        => \/ cache'.data.over \/ token' = "none"
           \/ cache'.error # "none" /\ poll.again
           \/ Reload \/ \E p \in Paths : Go(p) ]_gateVars
  <2> SUFFICES ASSUME GateInv, GateNext, Screen = "camera", Screen' # "camera",
                      ~cache'.data.over, token' # "none",
                      ~(cache'.error # "none" /\ poll.again),
                      ~Reload, ~(\E p \in Paths : Go(p))
               PROVE  FALSE
    OBVIOUS
  <2>a. path = "/" /\ ~Waits(cache) /\ HasData(cache) /\ cache.error = "none"
    BY DEF GateInv, AppOK, Paths, Screen, Waits
  <2>b. cache \in Cache /\ poll \in Poll /\ creating \in Create
    BY DEF GateInv, AppOK, PollOK, CreateOK
  <2>1. CASE StartPasses \/ EventStarts \/ EventEnds \/ SessionEnds \/ PollAnswered
             \/ PollRefused \/ SubmitEvent \/ CreateChecked \/ CreateAnswered
    <3>1. UNCHANGED <<cache, path>>
      BY <2>1 DEF StartPasses, EventStarts, EventEnds, SessionEnds, PollAnswered,
                  PollRefused, SubmitEvent, CreateChecked, CreateAnswered
    <3> QED
      BY <3>1 DEF Screen, Waits, HasData
  <2>2. CASE Login \/ Collect
    BY <2>2, <2>a DEF Login, Collect
  <2>3. CASE PollAsks
    <3>1. Renders("/", cache)
      BY <2>3, <2>a DEF PollAsks, Fetching
    <3>2. ~cache.data.over
      BY <3>1 DEF Renders
    <3> QED
      BY <3>1, <3>2, <2>a, <2>b, CameraRendered
  <2>4. CASE PollArrives
    <3> DEFINE c == [data |-> poll.data, error |-> "none"]
    <3>1. Renders("/", c) /\ HasData(c) /\ c \in Cache
      BY <2>4, <2>a, <2>b DEF PollArrives, HasData, GateInv, PollOK, Cache,
                              Poll, Errors
    <3>2. ~c.data.over
      BY <3>1 DEF Renders
    <3> QED
      BY <3>1, <3>2, CameraRendered
  <2>5. CASE PollFails
    <3> PICK error \in Errors \ {"none"} :
          IF ~poll.again
          THEN poll' = [Asked EXCEPT !.again = TRUE] /\ UNCHANGED <<path, cache>>
          ELSE poll' = NoPoll /\ Renders(path, [cache EXCEPT !.error = error])
      BY <2>5 DEF PollFails
    <3>1. CASE poll.again
      <4>1. cache' = [cache EXCEPT !.error = error]
        BY <3>1 DEF Renders
      <4> QED
        BY <3>1, <4>1, <2>b DEF Cache
    <3>2. CASE ~poll.again
      BY <3>2 DEF Screen, Waits, HasData
    <3> QED
      BY <3>1, <3>2
  <2>6. CASE Created
    <3> DEFINE c == [data |-> creating.data, error |-> "none"]
    <3>1. CASE Renders("/", c)
      <4>1. HasData(c) /\ c \in Cache
        BY <2>6, <2>b DEF Created, HasData, GateInv, CreateOK, Cache, Create,
                          Errors
      <4>2. ~c.data.over
        BY <3>1 DEF Renders
      <4> QED
        BY <3>1, <4>1, <4>2, CameraRendered
    <3>2. CASE UNCHANGED <<path, cache>>
      BY <3>2 DEF Screen, Waits, HasData
    <3> QED
      BY <2>6, <2>a, <3>1, <3>2 DEF Created
  <2> QED
    BY <2>1, <2>2, <2>3, <2>4, <2>5, <2>6 DEF GateNext
<1> QED
  BY <1>1, GateInvariant, PTL DEF GateSpec, CameraStays
=============================================================================
