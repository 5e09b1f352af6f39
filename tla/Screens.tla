------------------------------ MODULE Screens ------------------------------
(* The app under the gate: the screen turns as LockedScreens allows, which  *)
(* Gate implements, and mounts and unmounts the camera and the slideshow in *)
(* the same step.  Both live in one page, which is hidden and shown as one. *)
EXTENDS LockedScreens, Camera, Slideshow

screensVars == <<lockedVars, cameraVars, showVars>>

ScreensInit == LockedInit /\ CameraInit /\ ShowInit

(* What a turn mounts and unmounts                                          *)
TurnsCamera ==
    IF (screen = "camera") = (screen' = "camera") THEN UNCHANGED cameraVars
    ELSE CameraEnter \/ CameraLeave

TurnsShow ==
    IF (screen = "slideshow") = (screen' = "slideshow") THEN UNCHANGED showVars
    ELSE ShowEnter \/ ShowLeave

Turn ==
    /\ \E s \in AllScreens, k \in 0..event : Turns(s, k)
    /\ screen' # screen \/ known' # known
    /\ TurnsCamera /\ TurnsShow

LoadAgain ==
    /\ \E s \in {"login", "splash"} : Turns(s, 0)
    /\ CameraClose /\ ShowClose

Server ==
    /\ Starts \/ Ends
    /\ UNCHANGED <<cameraVars, showVars>>

OnCamera ==
    /\ \/ Working /\ (StreamAgain => lock.visible)
       \/ LateEncoded
    /\ UNCHANGED <<lockedVars, showVars>>

(* The list is fetched by the album and the slideshow (usePhotos.ts), of    *)
(* the current event and only when that is over.                            *)
OnShow ==
    /\ \/ /\ screen \in Album /\ event \in ended
          /\ \E total \in 0..MaxPhotos : ShowPhotos(event, total)
       \/ screen \notin Album /\ ShowForget
       \/ Showing \/ Locking
    /\ UNCHANGED <<lockedVars, cameraVars>>

ScreensNext == Turn \/ LoadAgain \/ Server \/ OnCamera \/ OnShow

ScreensSpec ==
    /\ ScreensInit /\ [][ScreensNext]_screensVars
    /\ CameraFairness /\ ShowFairness

=============================================================================
