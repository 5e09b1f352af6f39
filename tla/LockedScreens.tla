--------------------------- MODULE LockedScreens ---------------------------
(* What the gate promises of the screens: a screen that needs an event is   *)
(* shown only when there is one, and the album only for an event that is    *)
(* over.  known is the event the app was last told of.                      *)
EXTENDS Naturals

CONSTANT MaxEvents       \* events that are ever started (a bound)

VARIABLES
    event,       \* the number of the current event, the newest
    ended,       \* the events that are over
    known, screen

lockedVars == <<event, ended, known, screen>>

AllScreens == {"login", "splash", "start", "camera", "album", "slideshow"}
Album == {"album", "slideshow"}

LockedInit == event = 0 /\ ended = {} /\ known = 0 /\ screen = "login"

(* An event is started, or one that has already ended; two starts that      *)
(* overlap leave an older event running.                                    *)
Starts ==
    /\ event < MaxEvents /\ event' = event + 1
    /\ ended' \in {ended, ended \cup {event'}}
    /\ UNCHANGED <<known, screen>>

Ends ==
    /\ \E e \in 1..event : ended' = ended \cup {e}
    /\ UNCHANGED <<event, known, screen>>

(* The app turns to screen s, knowing of event k.                           *)
Turns(s, k) ==
    /\ s = "camera" => k # 0
    /\ s \in Album => k \in ended
    /\ screen' = s /\ known' = k
    /\ UNCHANGED <<event, ended>>

LockedNext ==
    \/ Starts \/ Ends
    \/ \E s \in AllScreens, k \in 0..event : Turns(s, k)

LockedSpec == LockedInit /\ [][LockedNext]_lockedVars
=============================================================================
