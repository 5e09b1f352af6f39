------------------------------- MODULE Camera -------------------------------
(* The camera screen (CameraView.tsx): a viewfinder whose stream opens, is  *)
(* refused, or dies; a shutter that encodes a frame (capture.ts); a flip    *)
(* between two cameras; and the review of a capture.  react-webcam asks for *)
(* the stream whenever it is mounted or its constraints change.  A request  *)
(* that was overtaken is answered all the same: a stream that it brings is  *)
(* stopped, but a refusal is reported, to the handler last rendered for the *)
(* <Webcam> that made it.  The facing that is kept in localStorage is left  *)
(* open: every tab and every screen that has gone may write it, or fail to. *)
EXTENDS Naturals

CONSTANTS
    MaxLeaks,    \* captures encoded for a camera screen that has gone (a bound)
    MaxStale     \* requests that may be overtaken at a time (a bound)

VARIABLES
    cam,       \* the state of the mounted screen, or Away
    asks,      \* its requests that were overtaken and are not answered
    urls,      \* object URLs that have not been revoked
    late,      \* captures a screen that has gone is still encoding
    leaked     \* URLs made for such a screen (history)

cameraVars == <<cam, asks, urls, late, leaked>>

Facings == {"user", "environment"}
Other(f) == IF f = "user" THEN "environment" ELSE "user"

Viewing == {"live", "review"}    \* the phases in which <Webcam> is mounted

Cam ==
    [phase : {"away", "unsupported", "error"} \cup Viewing,  \* error: or denied
     stream : {"none", "opening", "live", "ended"},
     facing : Facings, before : Facings,    \* before: facingBeforeSwitch
     switching : BOOLEAN, busy : BOOLEAN, canFlip : BOOLEAN,
     probing : BOOLEAN,                     \* hasMultipleCameras is under way
     proven : Facings \cup {"none"},        \* the camera that last ran (history)
     overtaken : BOOLEAN]                   \* requests have met since (history)

Away == [phase |-> "away", stream |-> "none", facing |-> "environment",
         before |-> "environment", switching |-> FALSE, busy |-> FALSE,
         canFlip |-> FALSE, probing |-> FALSE, proven |-> "none",
         overtaken |-> FALSE]

Mounted == cam.phase # "away"

(* How a refusal will be judged: one of the <Webcam> that is there by the   *)
(* switching of the day, one of a <Webcam> that has gone by that of its last*)
(* render.                                                                  *)
CameraAsks == {"stale", "flip", "plain"} \X Facings
Asks == [CameraAsks -> Nat]
NoAsks == [r \in CameraAsks |-> 0]

Pending == LET of(kind) == asks[<<kind, "user">>] + asks[<<kind, "environment">>]
           IN  of("stale") + of("flip") + of("plain")
               + (IF cam.stream = "opening" THEN 1 ELSE 0)

CameraInit ==
    /\ cam = Away /\ asks = NoAsks
    /\ urls = 0 /\ late = 0 /\ leaked = 0

SlipPreviews(c) == IF c.phase = "away" /\ cam.phase = "review" THEN 1 ELSE 0

(* The effect's clean-up: a phase that is left takes its preview with it. *)
Previews(c) == IF cam.phase = "review" /\ c.phase # "review" THEN 1 ELSE 0

(* With the request of screen c overtaken, if it is not answered; a is asks,*)
(* or what is left of it.                                                   *)
Overtaken(c, a, kind) ==
    IF c.stream # "opening" THEN a
    ELSE [a EXCEPT ![<<kind, c.facing>>] = @ + 1]

(* With the <Webcam> gone, whose last render had this switching.            *)
Orphaned(c, a) ==
    LET kind == IF cam.switching THEN "flip" ELSE "plain"
        was == Overtaken(c, a, "stale")
    IN  [r \in CameraAsks |->
           IF r[1] = "stale" THEN 0
           ELSE IF r[1] = kind THEN was[r] + was[<<"stale", r[2]>>] ELSE was[r]]

(* The screen becomes c; what is not viewed has no stream, and a viewfinder *)
(* that is mounted asks for one.                                            *)
Becomes(c, a) ==
    LET leaves == cam.phase \in Viewing /\ c.phase \notin Viewing IN
    /\ cam' = [c EXCEPT
          !.stream = IF c.phase \notin Viewing THEN "none"
                     ELSE IF cam.phase \in Viewing THEN c.stream ELSE "opening",
          !.overtaken = @ \/ (leaves /\ c.stream = "opening")]
    /\ asks' = IF leaves THEN Orphaned(c, a) ELSE a
    /\ urls' = urls - Previews(c)
               + (IF c.phase = "review" /\ cam.phase # "review" THEN 1 ELSE 0)

-----------------------------------------------------------------------------
(* The mount, and the ways the gate takes the screen away *)

CameraEnter ==
    /\ ~Mounted
    /\ \/ Becomes([Away EXCEPT !.phase = "unsupported"], NoAsks)
       \/ \E f \in Facings :
             Becomes([Away EXCEPT !.phase = "live", !.facing = f, !.before = f],
                     NoAsks)
    /\ UNCHANGED <<late, leaked>>

SlipCameraLeave ==
    /\ Mounted
    /\ cam' = Away /\ asks' = NoAsks /\ urls' = urls - 1
    /\ late' = IF cam.busy THEN late + 1 ELSE late
    /\ UNCHANGED leaked

(* What is being encoded is encoded all the same.                           *)
CameraLeave ==
    /\ Mounted
    /\ cam' = Away /\ asks' = NoAsks /\ urls' = urls - Previews(Away)
    /\ late' = IF cam.busy THEN late + 1 ELSE late
    /\ UNCHANGED leaked

(* The tab is closed or loaded again, and nothing is left but the storage.  *)
CameraClose ==
    /\ cam' = Away /\ asks' = NoAsks
    /\ urls' = 0 /\ late' = 0 /\ leaked' = 0

(* shoot goes on after its await and makes a URL that no effect will ever   *)
(* revoke.                                                                  *)
LateEncoded ==
    /\ late > 0 /\ late' = late - 1
    /\ \/ urls' = urls + 1 /\ leaked' = leaked + 1
       \/ UNCHANGED <<urls, leaked>>
    /\ UNCHANGED <<cam, asks>>

-----------------------------------------------------------------------------
(* The stream *)

(* handleUserMedia *)
StreamOpens ==
    /\ cam.phase \in Viewing /\ cam.stream = "opening"
    /\ Becomes([cam EXCEPT !.stream = "live", !.switching = FALSE,
                           !.proven = cam.facing,
                           !.probing = @ \/ ~cam.canFlip,
                           !.overtaken = asks # NoAsks], asks)
    /\ UNCHANGED <<late, leaked>>

Probed ==
    /\ cam.probing
    /\ \E several \in BOOLEAN :
          Becomes([cam EXCEPT !.probing = FALSE, !.canFlip = several], asks)
    /\ UNCHANGED <<late, leaked>>

(* handleUserMediaError, by a handler that was rendered in the middle of a  *)
(* flip: back to the camera before, for which a viewfinder asks anew.       *)
HandsBack(c, a) ==
    LET anew == cam.phase \in Viewing /\ cam.before # cam.facing IN
    /\ Becomes([c EXCEPT
          !.switching = FALSE, !.facing = cam.before,
          !.stream = IF anew THEN "opening" ELSE @,
          !.overtaken = @ \/ (anew /\ c.stream = "opening")],
          IF anew THEN Overtaken(c, a, "stale") ELSE a)

(* And by any other: to a message.                                          *)
TakesOver(c, a) == Becomes([c EXCEPT !.phase = "error"], a)

SlipStreamRefused ==
    /\ cam.phase \in Viewing /\ cam.stream = "opening"
    /\ TakesOver([cam EXCEPT !.stream = "none", !.switching = FALSE], asks)
    /\ UNCHANGED <<late, leaked>>

StreamRefused ==
    /\ cam.phase \in Viewing /\ cam.stream = "opening"
    /\ IF cam.switching THEN HandsBack([cam EXCEPT !.stream = "none"], asks)
       ELSE TakesOver([cam EXCEPT !.stream = "none"], asks)
    /\ UNCHANGED <<late, leaked>>

(* The answer to a request that was overtaken: a stream, which is stopped,  *)
(* or a refusal.                                                            *)
Answered(r) == [asks EXCEPT ![r] = @ - 1]

LateOpens(r) ==
    /\ asks[r] > 0 /\ asks' = Answered(r)
    /\ UNCHANGED <<cam, urls, late, leaked>>

LateRefused(r) ==
    /\ asks[r] > 0
    /\ IF r[1] = "flip" \/ (r[1] = "stale" /\ cam.switching)
       THEN HandsBack(cam, Answered(r)) ELSE TakesOver(cam, Answered(r))
    /\ UNCHANGED <<late, leaked>>

(* The phone is locked and the track ends.                                  *)
StreamEnds ==
    /\ cam.stream = "live"
    /\ Becomes([cam EXCEPT !.stream = "ended"], asks)
    /\ UNCHANGED <<late, leaked>>

(* onVisible, on return: without a live track the <Webcam> is mounted anew, *)
(* whether the track has ended or there is none yet.                        *)
StreamAgain ==
    /\ cam.phase \in Viewing /\ cam.stream # "live"
    /\ Pending <= MaxStale
    /\ Becomes([cam EXCEPT !.stream = "opening",
                           !.overtaken = @ \/ cam.stream = "opening"],
               Orphaned(cam, asks))
    /\ UNCHANGED <<late, leaked>>

-----------------------------------------------------------------------------
(* The buttons *)

Flip ==
    /\ cam.phase = "live" /\ cam.canFlip /\ ~cam.switching /\ ~cam.busy
    /\ Pending <= MaxStale
    /\ Becomes([cam EXCEPT !.before = cam.facing, !.facing = Other(cam.facing),
                           !.switching = TRUE, !.stream = "opening",
                           !.overtaken = @ \/ cam.stream = "opening"],
               Overtaken(cam, asks, "stale"))
    /\ UNCHANGED <<late, leaked>>

(* A video without a frame makes an error of the press: one whose stream    *)
(* is not there yet, or has only just come.                                 *)
Shoot ==
    /\ cam.phase = "live" /\ ~cam.busy /\ ~cam.switching
    /\ late + leaked < MaxLeaks
    /\ \/ cam.stream # "opening" /\ Becomes([cam EXCEPT !.busy = TRUE], asks)
       \/ cam.stream # "ended" /\ Becomes([cam EXCEPT !.phase = "error"], asks)
    /\ UNCHANGED <<late, leaked>>

SlipEncoded ==
    /\ cam.busy
    /\ \/ Becomes([cam EXCEPT !.busy = FALSE, !.phase = "review"], asks)
       \/ Becomes([cam EXCEPT !.phase = "error"], asks)
    /\ UNCHANGED <<late, leaked>>

(* The await of captureFrame ends, in whatever phase the screen is by now.  *)
Encoded ==
    /\ cam.busy
    /\ \E phase \in {"review", "error"} :
          Becomes([cam EXCEPT !.busy = FALSE, !.phase = phase], asks)
    /\ UNCHANGED <<late, leaked>>

(* retake, or confirm, which hands the capture to the queue *)
Decide ==
    /\ cam.phase = "review"
    /\ Becomes([cam EXCEPT !.phase = "live"], asks)
    /\ UNCHANGED <<late, leaked>>

TryAgain ==
    /\ cam.phase = "error" /\ Pending <= MaxStale
    /\ Becomes([cam EXCEPT !.phase = "live"], asks)
    /\ UNCHANGED <<late, leaked>>

-----------------------------------------------------------------------------
(* The specification *)

Working ==
    \/ StreamOpens \/ Probed \/ StreamRefused \/ StreamEnds \/ StreamAgain
    \/ \E r \in CameraAsks : LateOpens(r) \/ LateRefused(r)
    \/ Flip \/ Shoot \/ Encoded \/ Decide \/ TryAgain

CameraNext ==
    \/ CameraEnter \/ CameraLeave \/ CameraClose
    \/ LateEncoded \/ Working

CameraSpec == CameraInit /\ [][CameraNext]_cameraVars

(* getUserMedia answers some time, for a viewfinder that is not mounted anew*)
(* again and again before, and so does toBlob.                              *)
CameraFairness ==
    /\ WF_cameraVars(StreamOpens \/ StreamRefused)
    /\ WF_cameraVars(Encoded)

-----------------------------------------------------------------------------
(* What the camera owes *)

(* Every variable has its type. *)
CameraTypeOK ==
    /\ cam \in Cam /\ asks \in Asks
    /\ urls \in Nat /\ late \in Nat /\ leaked \in Nat

(* The object URLs that are alive are the one on the screen and those made  *)
(* for a screen that was gone when its capture was encoded: whatever takes  *)
(* a review away, none stays behind and none is revoked while it is shown   *)
(* (CameraView.tsx: "every one is revoked").                                *)
PreviewsAccounted == urls = leaked + (IF cam.phase = "review" THEN 1 ELSE 0)

(* A camera other than the one that last ran is refused.                    *)
FlipRefused ==
    /\ cam.proven # "none"
    /\ \/ StreamRefused /\ cam.facing # cam.proven
       \/ \E r \in CameraAsks : LateRefused(r) /\ r[2] # cam.proven

(* A flip to a camera that refuses to start does not take over the screen,  *)
(* as long as no request was overtaken since a stream last opened alone     *)
(* (CameraView.tsx: a refusal "should hand back the one that was already    *)
(* working, not take over the screen with an error").                       *)
FlipHandsBack ==
    [][ FlipRefused /\ ~cam.overtaken
        => cam'.phase # "error" ]_cameraVars

(* The same whatever was overtaken, which is what the comment says.         *)
FlipNeverTakesOver ==
    [][ FlipRefused => cam'.phase # "error" ]_cameraVars

(* A flip and a shutter press come to an end, so that the buttons do not    *)
(* stay disabled in a viewfinder, whatever the stream does meanwhile.       *)
CameraComesBack ==
    cam.switching \/ cam.busy
    ~> ~cam.busy /\ (cam.switching => cam.phase \notin Viewing)
=============================================================================
