----------------------------- MODULE Slideshow -----------------------------
(* The slideshow (slideshow.tsx) over the cached list of photos             *)
(* (usePhotos.ts): the timer that waits for the next image (preload.ts),    *)
(* and the wake lock (wakeLock.ts), whose request is answered when it may   *)
(* no longer be wanted.                                                     *)
EXTENDS Integers

CONSTANTS MaxPhotos,   \* photos of an event (a bound)
          MaxAsks      \* requests for the lock at a time (a bound)

ASSUME PhotosAssumption == MaxPhotos \in Nat

VARIABLES
    list,    \* the cached photos: whose event they are of, and how many
    show,    \* the mounted slideshow, or Closed
    lock     \* the wake locks of the page

showVars == <<list, show, lock>>

(* turn is the effect that turns to the next photo: off, its setTimeout     *)
(* under way, or its image loading; next is the photo it waits for, and     *)
(* late says that an image of a cancelled effect is still loading.  of is   *)
(* the event whose photos the slideshow began with (history).               *)
Show == [on : BOOLEAN, playing : BOOLEAN, index : 0..MaxPhotos,
         turn : {"off", "timer", "load"}, next : 0..MaxPhotos,
         late : BOOLEAN, of : Nat]

Closed == [on |-> FALSE, playing |-> FALSE, index |-> 0, turn |-> "off",
           next |-> 0, late |-> FALSE, of |-> 0]

(* asks are requests whose answer the running effect waits for, strays those*)
(* of effects that were cleaned up; kept is sentinel.current.               *)
Lock == [visible : BOOLEAN, asks : Nat, orphans : Nat,
         kept : BOOLEAN, live : Nat, strays : Nat]

Requests == lock.asks + lock.orphans

ShowInit ==
    /\ list = [event |-> 0, total |-> 0]
    /\ show = Closed
    /\ lock = [visible |-> TRUE, asks |-> 0, orphans |-> 0,
               kept |-> FALSE, live |-> 0, strays |-> 0]

Running(s) == s.on /\ s.playing

(* The effect runs again: what was under way is cancelled.                  *)
Rearmed(s, total) ==
    LET goes == Running(s) /\ total > 1
    IN  [s EXCEPT !.turn = IF goes THEN "timer" ELSE "off",
                  !.next = IF goes THEN (s.index + 1) % total ELSE 0,
                  !.late = @ \/ s.turn = "load"]

SlipUnlocked == [lock EXCEPT !.orphans = @ + lock.asks, !.asks = 0,
                             !.kept = FALSE, !.live = @ - 1]

(* The clean-up of the lock's effect: the sentinel is released, and a       *)
(* request under way will be when it is answered.                           *)
Unlocked == [lock EXCEPT !.orphans = @ + lock.asks, !.asks = 0,
                         !.kept = FALSE,
                         !.live = IF lock.kept THEN @ - 1 ELSE @]

Asking(l) == [l EXCEPT !.asks = @ + 1]

-----------------------------------------------------------------------------
(* The list, and the ways the gate shows the slideshow and takes it away *)

(* A list is fetched: more photos of the same event, or another event's.    *)
(* URLs are signed anew, so the list always changes.                        *)
ShowPhotos(event, total) ==
    /\ event >= list.event /\ (event = list.event => total >= list.total)
    /\ list' = [event |-> event, total |-> total]
    /\ show' = Rearmed([show EXCEPT !.of = IF @ = 0 /\ show.on THEN event ELSE @],
                       total)
    /\ UNCHANGED lock

(* The cache drops a list nobody shows.                                     *)
ShowForget ==
    /\ ~show.on
    /\ list' = [event |-> 0, total |-> 0]
    /\ UNCHANGED <<show, lock>>

ShowEnter ==
    /\ ~show.on /\ Requests < MaxAsks
    /\ show' = Rearmed([Closed EXCEPT !.on = TRUE, !.playing = TRUE,
                                      !.of = list.event], list.total)
    /\ lock' = Asking(lock)
    /\ UNCHANGED list

ShowLeave ==
    /\ show.on
    /\ show' = Closed /\ lock' = Unlocked
    /\ UNCHANGED list

(* The tab is closed or loaded again.                                       *)
ShowClose ==
    /\ show' = Closed
    /\ list' = [event |-> 0, total |-> 0]
    /\ lock' = [visible |-> lock.visible, asks |-> 0, orphans |-> 0,
                kept |-> FALSE, live |-> 0, strays |-> 0]

-----------------------------------------------------------------------------
(* Turning *)

ShowTimer ==
    /\ show.turn = "timer"
    /\ show' = [show EXCEPT !.turn = "load"]
    /\ UNCHANGED <<list, lock>>

SlipTurned(step) ==
    Rearmed([show EXCEPT !.index = (@ + step + list.total) % (list.total + 1)],
            list.total)

Turned(step) ==
    Rearmed([show EXCEPT !.index = (@ + step + list.total) % list.total],
            list.total)

SlipShowLoaded ==
    /\ show.turn = "load"
    /\ show' = [Turned(1) EXCEPT !.late = show.late, !.turn = "off"]
    /\ UNCHANGED <<list, lock>>

(* whenLoaded resolves, also when the image failed.                         *)
ShowLoaded ==
    /\ show.turn = "load"
    /\ show' = [Turned(1) EXCEPT !.late = show.late]
    /\ UNCHANGED <<list, lock>>

SlipLateLoaded ==
    /\ show.late /\ list.total > 0
    /\ show' = [Turned(1) EXCEPT !.late = FALSE]
    /\ UNCHANGED <<list, lock>>

(* For a cancelled effect it resolves in vain.                              *)
LateLoaded ==
    /\ show.late
    /\ show' = [show EXCEPT !.late = FALSE]
    /\ UNCHANGED <<list, lock>>

(* The arrow keys and the buttons                                           *)
ShowStep ==
    /\ show.on /\ list.total > 0
    /\ \E step \in {1, -1} : show' = Turned(step)
    /\ UNCHANGED <<list, lock>>

(* The space bar and the button: both effects run again.                    *)
ShowToggle ==
    /\ show.on
    /\ show' = Rearmed([show EXCEPT !.playing = ~@], list.total)
    /\ IF show.playing THEN lock' = Unlocked
       ELSE Requests < MaxAsks /\ lock' = Asking(lock)
    /\ UNCHANGED list

-----------------------------------------------------------------------------
(* The wake lock *)

(* The running effect is given its lock, and forgets one it already keeps.  *)
LockGranted ==
    /\ lock.asks > 0 /\ lock.visible
    /\ lock' = [lock EXCEPT !.asks = @ - 1, !.live = @ + 1, !.kept = TRUE,
                            !.strays = IF lock.kept THEN @ + 1 ELSE @]
    /\ UNCHANGED <<list, show>>

SlipOrphanGranted ==
    /\ lock.orphans > 0 /\ lock.visible
    /\ lock' = [lock EXCEPT !.orphans = @ - 1, !.live = @ + 1]
    /\ UNCHANGED <<list, show>>

(* One that was cleaned up releases what it is given.                       *)
OrphanGranted ==
    /\ lock.orphans > 0 /\ lock.visible
    /\ lock' = [lock EXCEPT !.orphans = @ - 1]
    /\ UNCHANGED <<list, show>>

LockRefused ==
    /\ \/ lock.asks > 0
          /\ lock' = [lock EXCEPT !.asks = @ - 1, !.kept = FALSE,
                                  !.strays = IF lock.kept THEN @ + 1 ELSE @]
       \/ lock.orphans > 0 /\ lock' = [lock EXCEPT !.orphans = @ - 1]
    /\ UNCHANGED <<list, show>>

(* The browser takes every lock of a page it hides.                         *)
PageHidden ==
    /\ lock.visible
    /\ lock' = [lock EXCEPT !.visible = FALSE, !.live = 0, !.strays = 0,
                            !.kept = FALSE]
    /\ UNCHANGED <<list, show>>

PageVisible ==
    /\ ~lock.visible
    /\ IF Running(show)
       THEN Requests < MaxAsks /\ lock' = [Asking(lock) EXCEPT !.visible = TRUE]
       ELSE lock' = [lock EXCEPT !.visible = TRUE]
    /\ UNCHANGED <<list, show>>

-----------------------------------------------------------------------------
(* The specification *)

Showing == ShowTimer \/ ShowLoaded \/ LateLoaded \/ ShowStep \/ ShowToggle

Locking == LockGranted \/ OrphanGranted \/ LockRefused
           \/ PageHidden \/ PageVisible

ShowNext ==
    \/ \E event \in Nat \ {0}, total \in 0..MaxPhotos :
          ShowPhotos(event, total)
    \/ ShowForget \/ ShowEnter \/ ShowLeave \/ ShowClose
    \/ Showing \/ Locking

ShowSpec == ShowInit /\ [][ShowNext]_showVars

(* A timer fires and an image loads or fails; a list is fetched again when  *)
(* it is old, so an image has time to load in between.                      *)
ShowFairness == WF_showVars(ShowTimer) /\ SF_showVars(ShowLoaded)

-----------------------------------------------------------------------------
(* What the slideshow owes *)

(* Every variable has its type. *)
ShowTypeOK ==
    /\ list \in [event : Nat, total : 0..MaxPhotos]
    /\ show \in Show /\ lock \in Lock

(* The photo on the screen exists: as long as the list is of the event it   *)
(* was of at the mount, whatever is fetched meanwhile and however the timer *)
(* and the arrows interleave (slideshow.tsx: photos[index]!).               *)
ShowInRange ==
    show.on /\ list.total > 0 /\ list.event = show.of => show.index < list.total

(* Unless a return to the page overtook a request that was still waiting,   *)
(* no lock outlives the playing: a request that is answered after a pause   *)
(* or after the slideshow has gone is given back, and a pause never forgets *)
(* the lock it holds (slideshow.tsx: "Keep the screen on while playing").   *)
LocksReleased ==
    lock.live = lock.strays + (IF lock.kept THEN 1 ELSE 0)
    /\ (lock.kept => Running(show))

(* But for a hand, the photo changes only while playing, and only to the one*)
(* whose image has been awaited: a pause or an arrow is not overtaken by an *)
(* image that was loading (slideshow.tsx: "Without this, each advance       *)
(* flashes white").                                                         *)
TurnsToAwaited ==
    [][ show.on /\ show'.on /\ show'.index # show.index
        => \/ ShowStep
           \/ Running(show) /\ show.turn = "load" /\ show'.index = show.next
      ]_showVars

(* A slideshow that plays and has something to turn to goes on.             *)
ShowGoesOn ==
    \A i \in 0..MaxPhotos :
       Running(show) /\ list.total > 1 /\ show.index = i
       ~> ~(Running(show) /\ list.total > 1 /\ show.index = i)
=============================================================================
