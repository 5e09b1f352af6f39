--------------------------- MODULE ScreensProofs ---------------------------
(* Theorems about the camera, the slideshow, and the app that mounts and    *)
(* unmounts them, for any number of photos, events, captures and requests.  *)
EXTENDS Screens, TLAPS

-----------------------------------------------------------------------------
(* The camera *)

(* What holds of a screen c with overtaken requests a.  As long as none was *)
(* overtaken since a stream last opened alone, the camera that last ran is  *)
(* the one to hand back in a flip, and otherwise the one it is facing with. *)
ProvenOK(c, a) ==
    ~c.overtaken =>
        a = NoAsks /\ c.proven \in {"none", IF c.switching THEN c.before ELSE c.facing}

CamOK(c, a) ==
    /\ c \in Cam /\ a \in Asks
    /\ c.busy => c.phase \notin {"review", "away", "unsupported"}
    /\ ProvenOK(c, a)

CameraInv == CameraTypeOK /\ CamOK(cam, asks) /\ PreviewsAccounted

LEMMA NoAsksOK == NoAsks \in Asks
BY DEF NoAsks, Asks

LEMMA AwayOK == CamOK(Away, NoAsks)
BY NoAsksOK DEF CamOK, ProvenOK, Cam, Away, Facings, Viewing

(* The requests that are overtaken are counted, and only those.             *)
LEMMA OvertakenCounts ==
    ASSUME NEW a \in Asks, NEW c \in Cam, NEW kind \in {"stale", "flip", "plain"}
    PROVE  /\ Overtaken(c, a, kind) \in Asks
           /\ c.stream # "opening" => Overtaken(c, a, kind) = a
<1>1. <<kind, c.facing>> \in CameraAsks
  BY DEF Cam, CameraAsks
<1>2. [a EXCEPT ![<<kind, c.facing>>] = @ + 1] \in Asks
  BY <1>1 DEF Asks
<1> QED
  BY <1>2 DEF Overtaken

LEMMA OrphanedCounts ==
    ASSUME NEW a \in Asks, NEW c \in Cam
    PROVE  /\ Orphaned(c, a) \in Asks
           /\ a = NoAsks /\ c.stream # "opening" => Orphaned(c, a) = NoAsks
<1> DEFINE kind == IF cam.switching THEN "flip" ELSE "plain"
           was == Overtaken(c, a, "stale")
<1>1. was \in Asks /\ (c.stream # "opening" => was = a)
  BY OvertakenCounts
<1>2. Orphaned(c, a) =
        [r \in CameraAsks |->
           IF r[1] = "stale" THEN 0
           ELSE IF r[1] = kind THEN was[r] + was[<<"stale", r[2]>>] ELSE was[r]]
  BY DEF Orphaned
<1> HIDE DEF was, kind
<1>3. \A r \in CameraAsks : was[r] \in Nat /\ was[<<"stale", r[2]>>] \in Nat
  BY <1>1 DEF Asks, CameraAsks
<1>4. Orphaned(c, a) \in Asks
  BY <1>2, <1>3 DEF Asks
<1>5. ASSUME a = NoAsks, c.stream # "opening" PROVE Orphaned(c, a) = NoAsks
  <2>1. \A r \in CameraAsks : was[r] = 0 /\ was[<<"stale", r[2]>>] = 0
    BY <1>1, <1>5 DEF NoAsks, CameraAsks
  <2>2. Orphaned(c, a) = [r \in CameraAsks |-> 0]
    BY <1>2, <2>1
  <2> QED
    BY <2>2 DEF NoAsks
<1> QED
  BY <1>4, <1>5

(* What becomes of a screen in order, field by field.                       *)
LEMMA BecomesFields ==
    ASSUME NEW c \in Cam, NEW a \in Asks, Becomes(c, a)
    PROVE  /\ cam' \in Cam /\ asks' \in Asks
           /\ cam'.phase = c.phase /\ cam'.busy = c.busy
           /\ cam'.switching = c.switching /\ cam'.before = c.before
           /\ cam'.facing = c.facing /\ cam'.proven = c.proven
           /\ ~cam'.overtaken => ~c.overtaken
           /\ ~cam'.overtaken /\ a = NoAsks => asks' = NoAsks
<1> DEFINE leaves == cam.phase \in Viewing /\ c.phase \notin Viewing
<1>1. PICK o \in BOOLEAN :
        o = (c.overtaken \/ (leaves /\ c.stream = "opening"))
  OBVIOUS
<1>2. PICK st \in {"none", "opening", "live", "ended"} :
        st = IF c.phase \notin Viewing THEN "none"
             ELSE IF cam.phase \in Viewing THEN c.stream ELSE "opening"
  BY DEF Cam
<1>3. cam' = [c EXCEPT !.stream = st, !.overtaken = o]
  BY <1>1, <1>2 DEF Becomes
<1>4. /\ cam' \in Cam /\ cam'.overtaken = o
      /\ cam'.phase = c.phase /\ cam'.busy = c.busy
      /\ cam'.switching = c.switching /\ cam'.before = c.before
      /\ cam'.facing = c.facing /\ cam'.proven = c.proven
  BY <1>3 DEF Cam
<1>5. asks' = IF leaves THEN Orphaned(c, a) ELSE a
  BY DEF Becomes
<1> HIDE DEF leaves
<1>6. asks' \in Asks /\ (~o /\ a = NoAsks => asks' = NoAsks)
  BY <1>1, <1>5, OrphanedCounts
<1> QED
  BY <1>1, <1>4, <1>6

(* A screen that is in order stays so when it turns into another, and its   *)
(* preview comes and goes with the review.                                  *)
LEMMA BecomesKeeps ==
    ASSUME CameraInv, NEW c, NEW a, CamOK(c, a), Becomes(c, a),
           UNCHANGED <<late, leaked>>
    PROVE  CameraInv'
<1>1. c \in Cam /\ a \in Asks
  BY DEF CamOK
<1>2. CamOK(cam', asks')
  BY <1>1, BecomesFields DEF CamOK, ProvenOK
<1>3. urls' = leaked + (IF c.phase = "review" THEN 1 ELSE 0)
  BY DEF Becomes, Previews, CameraInv, CameraTypeOK, PreviewsAccounted
<1>4. PreviewsAccounted'
  BY <1>1, <1>3, BecomesFields DEF PreviewsAccounted
<1> QED
  BY <1>1, <1>2, <1>3, <1>4 DEF CameraInv, CameraTypeOK, CamOK

(* Coming and going                                                         *)
LEMMA CameraComesAndGoes ==
    ASSUME CameraInv, CameraEnter \/ CameraLeave \/ CameraClose \/ LateEncoded
    PROVE  CameraInv'
<1> USE DEF CameraInv
<1>1. CASE CameraEnter
  <2>1. UNCHANGED <<late, leaked>>
    BY <1>1 DEF CameraEnter
  <2>2. CASE Becomes([Away EXCEPT !.phase = "unsupported"], NoAsks)
    <3> DEFINE c == [Away EXCEPT !.phase = "unsupported"]
    <3>1. CamOK(c, NoAsks)
      BY NoAsksOK DEF CamOK, ProvenOK, Cam, Away, Facings, Viewing
    <3> HIDE DEF c
    <3> QED
      BY <2>1, <2>2, <3>1, BecomesKeeps DEF c
  <2>3. ASSUME NEW f \in Facings,
               Becomes([Away EXCEPT !.phase = "live", !.facing = f, !.before = f],
                       NoAsks)
        PROVE  CameraInv'
    <3> DEFINE c == [Away EXCEPT !.phase = "live", !.facing = f, !.before = f]
    <3>1. CamOK(c, NoAsks)
      BY NoAsksOK DEF CamOK, ProvenOK, Cam, Away, Facings, Viewing
    <3> QED
      BY <2>1, <2>3, <3>1, BecomesKeeps
  <2> QED
    BY <1>1, <2>2, <2>3 DEF CameraEnter
<1>2. CASE CameraLeave
  BY <1>2, AwayOK
     DEF CameraLeave, Previews, CameraTypeOK, PreviewsAccounted, Away, CamOK
<1>3. CASE CameraClose
  BY <1>3, AwayOK
     DEF CameraClose, CameraTypeOK, PreviewsAccounted, Away, CamOK
<1>4. CASE LateEncoded
  BY <1>4 DEF LateEncoded, CameraTypeOK, PreviewsAccounted, CamOK
<1> QED
  BY <1>1, <1>2, <1>3, <1>4

(* A refusal that hands back the camera before, and one that takes over.    *)
LEMMA HandsBackKeeps ==
    ASSUME CameraInv, NEW c \in Cam, NEW a \in Asks,
           \E st \in {"none", cam.stream} : c = [cam EXCEPT !.stream = st],
           ~c.overtaken => a = NoAsks /\ cam.switching,
           HandsBack(c, a), UNCHANGED <<late, leaked>>
    PROVE  CameraInv'
<1> DEFINE anew == cam.phase \in Viewing /\ cam.before # cam.facing
<1>1. cam \in Cam /\ (cam.busy => cam.phase \notin {"review", "away", "unsupported"})
      /\ ProvenOK(cam, asks)
  BY DEF CameraInv, CamOK
<1>2. /\ c.phase = cam.phase /\ c.busy = cam.busy /\ c.before = cam.before
      /\ c.proven = cam.proven /\ c.overtaken = cam.overtaken
      /\ c.switching = cam.switching
  BY <1>1 DEF Cam
<1>3. PICK o \in BOOLEAN : o = (c.overtaken \/ (anew /\ c.stream = "opening"))
  OBVIOUS
<1>4. PICK st \in {"none", "opening", "live", "ended"} :
        st = IF anew THEN "opening" ELSE c.stream
  BY DEF Cam
<1>5. PICK a2 \in Asks :
        /\ a2 = IF anew THEN Overtaken(c, a, "stale") ELSE a
        /\ ~o /\ a = NoAsks => a2 = NoAsks
  BY <1>3, OvertakenCounts
<1> DEFINE d == [c EXCEPT !.switching = FALSE, !.facing = cam.before,
                          !.stream = st, !.overtaken = o]
<1>6. Becomes(d, a2)
  BY <1>3, <1>4, <1>5 DEF HandsBack
<1>b. /\ o \in BOOLEAN /\ st \in {"none", "opening", "live", "ended"}
      /\ cam.before \in Facings
  BY <1>1, <1>3, <1>4 DEF Cam
<1>7. /\ d \in Cam /\ d.phase = cam.phase /\ d.busy = cam.busy
      /\ d.proven = cam.proven /\ d.overtaken = o /\ ~d.switching
      /\ d.facing = cam.before
  BY <1>2, <1>b DEF Cam
<1> HIDE DEF d, anew
<1>8. CamOK(d, a2)
  BY <1>1, <1>2, <1>3, <1>5, <1>7 DEF CamOK, ProvenOK
<1> QED
  BY <1>6, <1>8, BecomesKeeps

LEMMA TakesOverKeeps ==
    ASSUME CameraInv, NEW c \in Cam, NEW a \in Asks,
           \E st \in {"none", cam.stream} : c = [cam EXCEPT !.stream = st],
           ~c.overtaken => a = NoAsks,
           TakesOver(c, a), UNCHANGED <<late, leaked>>
    PROVE  CameraInv'
<1> DEFINE d == [c EXCEPT !.phase = "error"]
<1>1. CamOK(d, a)
  BY DEF CameraInv, CamOK, ProvenOK, Cam
<1> QED
  BY <1>1, BecomesKeeps DEF TakesOver

(* The answers to the requests                                              *)
LEMMA StreamKeeps ==
    ASSUME CameraInv,
           StreamOpens \/ StreamRefused
           \/ \E r \in CameraAsks : LateOpens(r) \/ LateRefused(r)
    PROVE  CameraInv'
<1> USE DEF CameraInv
<1>a. /\ cam \in Cam /\ asks \in Asks /\ ProvenOK(cam, asks)
      /\ cam.busy => cam.phase \notin {"review", "away", "unsupported"}
  BY DEF CamOK
<1>1. CASE StreamOpens
  <2>1. PICK o \in BOOLEAN, p \in BOOLEAN :
          o = (asks # NoAsks) /\ p = (cam.probing \/ ~cam.canFlip)
    OBVIOUS
  <2> DEFINE c == [cam EXCEPT !.stream = "live", !.switching = FALSE,
                              !.proven = cam.facing, !.probing = p,
                              !.overtaken = o]
  <2>2. Becomes(c, asks) /\ UNCHANGED <<late, leaked>>
    BY <1>1, <2>1 DEF StreamOpens
  <2>3. CamOK(c, asks)
    BY <1>a, <2>1 DEF CamOK, ProvenOK, Cam
  <2> QED
    BY <2>2, <2>3, BecomesKeeps
<1>2. CASE StreamRefused
  <2> DEFINE c == [cam EXCEPT !.stream = "none"]
  <2>1. c \in Cam /\ c.overtaken = cam.overtaken
    BY <1>a DEF Cam
  <2>2. ~c.overtaken => asks = NoAsks
    BY <1>a, <2>1 DEF ProvenOK
  <2>3. UNCHANGED <<late, leaked>>
        /\ IF cam.switching THEN HandsBack(c, asks) ELSE TakesOver(c, asks)
    BY <1>2 DEF StreamRefused
  <2>4. \E st \in {"none", cam.stream} : c = [cam EXCEPT !.stream = st]
    OBVIOUS
  <2> HIDE DEF c
  <2> QED
    BY <1>a, <2>1, <2>2, <2>3, <2>4, HandsBackKeeps, TakesOverKeeps
<1>3. ASSUME NEW r \in CameraAsks, asks[r] > 0
      PROVE  cam.overtaken /\ Answered(r) \in Asks
  BY <1>a, <1>3 DEF ProvenOK, NoAsks, Asks, Answered
<1>4. ASSUME NEW r \in CameraAsks, LateOpens(r) PROVE CameraInv'
  BY <1>3, <1>4 DEF LateOpens, CameraTypeOK, PreviewsAccounted, CamOK, ProvenOK
<1>5. ASSUME NEW r \in CameraAsks, LateRefused(r) PROVE CameraInv'
  <2>1. cam.overtaken /\ Answered(r) \in Asks
    BY <1>3, <1>5 DEF LateRefused
  <2>2. cam = [cam EXCEPT !.stream = cam.stream]
    BY <1>a DEF Cam
  <2>3. UNCHANGED <<late, leaked>>
        /\ (HandsBack(cam, Answered(r)) \/ TakesOver(cam, Answered(r)))
    BY <1>5 DEF LateRefused
  <2> QED
    BY <1>a, <2>1, <2>2, <2>3, HandsBackKeeps, TakesOverKeeps
<1> QED
  BY <1>1, <1>2, <1>4, <1>5

(* The stream and the buttons                                               *)
LEMMA WorkingKeeps ==
    ASSUME CameraInv, Working
    PROVE  CameraInv'
<1> USE DEF CameraInv
<1>a. /\ cam \in Cam /\ asks \in Asks /\ ProvenOK(cam, asks)
      /\ cam.busy => cam.phase \notin {"review", "away", "unsupported"}
  BY DEF CamOK
<1>1. PICK o \in BOOLEAN : o = (cam.overtaken \/ cam.stream = "opening")
  OBVIOUS
<1>2. CASE Probed
  <2> PICK several \in BOOLEAN :
        Becomes([cam EXCEPT !.probing = FALSE, !.canFlip = several], asks)
    BY <1>2 DEF Probed
  <2> DEFINE c == [cam EXCEPT !.probing = FALSE, !.canFlip = several]
  <2>1. CamOK(c, asks)
    BY <1>a DEF CamOK, ProvenOK, Cam
  <2> QED
    BY <1>2, <2>1, BecomesKeeps DEF Probed
<1>3. CASE StreamEnds
  <2> DEFINE c == [cam EXCEPT !.stream = "ended"]
  <2>1. CamOK(c, asks)
    BY <1>a DEF CamOK, ProvenOK, Cam
  <2> QED
    BY <1>3, <2>1, BecomesKeeps DEF StreamEnds
<1>4. CASE StreamAgain
  <2> DEFINE c == [cam EXCEPT !.stream = "opening", !.overtaken = o]
  <2>1. PICK a \in Asks : a = Orphaned(cam, asks) /\ (~o => a = NoAsks)
    BY <1>a, <1>1, OrphanedCounts DEF ProvenOK
  <2>2. CamOK(c, a)
    BY <1>a, <1>1, <2>1 DEF CamOK, ProvenOK, Cam
  <2> QED
    BY <1>1, <1>4, <2>1, <2>2, BecomesKeeps DEF StreamAgain
<1>5. CASE Flip
  <2> DEFINE c == [cam EXCEPT !.before = cam.facing, !.facing = Other(cam.facing),
                              !.switching = TRUE, !.stream = "opening",
                              !.overtaken = o]
  <2>1. PICK a \in Asks : a = Overtaken(cam, asks, "stale") /\ (~o => a = NoAsks)
    BY <1>a, <1>1, OvertakenCounts DEF ProvenOK
  <2>2. CamOK(c, a)
    BY <1>a, <1>1, <1>5, <2>1 DEF CamOK, ProvenOK, Cam, Flip, Other, Facings
  <2> QED
    BY <1>1, <1>5, <2>1, <2>2, BecomesKeeps DEF Flip
<1>6. CASE Shoot
  <2> DEFINE b == [cam EXCEPT !.busy = TRUE]
             e == [cam EXCEPT !.phase = "error"]
  <2>1. CamOK(b, asks) /\ CamOK(e, asks)
    BY <1>a, <1>6 DEF CamOK, ProvenOK, Cam, Shoot
  <2>2. (Becomes(b, asks) \/ Becomes(e, asks)) /\ UNCHANGED <<late, leaked>>
    BY <1>6 DEF Shoot
  <2> HIDE DEF b, e
  <2> QED
    BY <2>1, <2>2, BecomesKeeps
<1>7. CASE Encoded
  <2> PICK phase \in {"review", "error"} :
        Becomes([cam EXCEPT !.busy = FALSE, !.phase = phase], asks)
    BY <1>7 DEF Encoded
  <2> DEFINE c == [cam EXCEPT !.busy = FALSE, !.phase = phase]
  <2>1. CamOK(c, asks)
    BY <1>a DEF CamOK, ProvenOK, Cam, Viewing
  <2> QED
    BY <1>7, <2>1, BecomesKeeps DEF Encoded
<1>8. CASE Decide \/ TryAgain
  <2> DEFINE c == [cam EXCEPT !.phase = "live"]
  <2>1. CamOK(c, asks)
    BY <1>a DEF CamOK, ProvenOK, Cam, Viewing
  <2> QED
    BY <1>8, <2>1, BecomesKeeps DEF Decide, TryAgain
<1> QED
  BY <1>2, <1>3, <1>4, <1>5, <1>6, <1>7, <1>8, StreamKeeps DEF Working

LEMMA CameraInvariant == CameraSpec => []CameraInv
<1>1. CameraInit => CameraInv
  BY AwayOK DEF CameraInit, CameraInv, CameraTypeOK, PreviewsAccounted, CamOK,
                Away
<1>2. CameraInv /\ [CameraNext]_cameraVars => CameraInv'
  <2> SUFFICES ASSUME CameraInv, [CameraNext]_cameraVars PROVE CameraInv'
    OBVIOUS
  <2>1. CASE UNCHANGED cameraVars
    BY <2>1 DEF cameraVars, CameraInv, CameraTypeOK, PreviewsAccounted, CamOK,
                ProvenOK
  <2> QED
    BY <2>1, CameraComesAndGoes, WorkingKeeps DEF CameraNext
<1> QED
  BY <1>1, <1>2, PTL DEF CameraSpec

(* The types of the camera's variables                                      *)
THEOREM CameraTypeCorrect == CameraSpec => []CameraTypeOK
BY CameraInvariant, PTL DEF CameraInv

(* Every object URL that is alive is on the screen or leaked by a capture   *)
(* that outlived it.                                                        *)
THEOREM EveryPreviewAccounted == CameraSpec => []PreviewsAccounted
BY CameraInvariant, PTL DEF CameraInv

(* A refused flip hands the screen back, unless requests have met: whatever *)
(* the shutter, the page's returns and the gate did before.                 *)
THEOREM FlipsHandBack == CameraSpec => FlipHandsBack
<1>1. CameraInv /\ [CameraNext]_cameraVars =>
      [ FlipRefused /\ ~cam.overtaken => cam'.phase # "error" ]_cameraVars
  <2> SUFFICES ASSUME CameraInv, FlipRefused, ~cam.overtaken
               PROVE  cam'.phase # "error"
    OBVIOUS
  <2>1. /\ cam \in Cam /\ asks = NoAsks
        /\ cam.proven \in {"none", IF cam.switching THEN cam.before ELSE cam.facing}
    BY DEF CameraInv, CamOK, ProvenOK
  <2>2. \A r \in CameraAsks : ~LateRefused(r)
    BY <2>1 DEF LateRefused, NoAsks
  <2>3. StreamRefused /\ cam.switching
    BY <2>1, <2>2 DEF FlipRefused
  <2>4. HandsBack([cam EXCEPT !.stream = "none"], asks) /\ cam.phase \in Viewing
    BY <2>3 DEF StreamRefused
  <2>5. cam'.phase = cam.phase
    BY <2>1, <2>4 DEF HandsBack, Becomes, Cam
  <2> QED
    BY <2>4, <2>5 DEF Viewing
<1> QED
  BY <1>1, CameraInvariant, PTL DEF CameraSpec, FlipHandsBack

-----------------------------------------------------------------------------
(* The slideshow *)

(* The photo that a slideshow s is on exists, if the list l is of its event;*)
(* the list only grows until it is another event's.                         *)
PlaceOK(s, l) ==
    /\ s.of <= l.event /\ (s.of = 0 => l.event = 0)
    /\ s.of = l.event => s.index = 0 \/ s.index < l.total

(* A slideshow s over a list l: nothing is under way unless it plays, and   *)
(* what it waits for is the next photo.                                     *)
ShowOK(s, l) ==
    /\ s \in Show /\ l \in [event : Nat, total : 0..MaxPhotos]
    /\ l.event = 0 => l.total = 0
    /\ IF s.on THEN PlaceOK(s, l) ELSE s = Closed
    /\ s.turn # "off" => Running(s) /\ l.total > 1
                         /\ s.next = (s.index + 1) % l.total

(* A lock k of a page whose slideshow is running or not.                    *)
LockOK(k, running) ==
    /\ k \in Lock
    /\ k.live = k.strays + (IF k.kept THEN 1 ELSE 0)
    /\ k.kept \/ k.asks > 0 => running

ShowInv == ShowOK(show, list) /\ LockOK(lock, Running(show))

(* A remainder is smaller than what it is of, which can be added at will.   *)
LEMMA Remainder ==
    ASSUME NEW n \in Nat, n > 0, NEW x \in Int
    PROVE  x % n \in 0..(n - 1) /\ x % n = x - (x \div n) * n /\ x \div n \in Int
OBVIOUS

LEMMA RemainderIsUnique ==
    ASSUME NEW n \in Nat, n > 0, NEW q \in Int, NEW r \in 0..(n - 1)
    PROVE  (q * n + r) % n = r
OBVIOUS

LEMMA RemainderWraps ==
    ASSUME NEW n \in Nat, n > 0, NEW x \in Int
    PROVE  (x + n) % n = x % n
<1>1. PICK q \in Int, r \in 0..(n - 1) : r = x % n /\ x % n = x - q * n
  BY Remainder
<1>2. x + n = (q + 1) * n + r
  <2>1. q * n \in Int /\ (q + 1) * n = q * n + n
    OBVIOUS
  <2> QED
    BY <1>1, <2>1
<1>3. ((q + 1) * n + r) % n = r
  BY RemainderIsUnique
<1> QED
  BY <1>1, <1>2, <1>3

(* An effect that runs again leaves the slideshow in order.                 *)
LEMMA RearmedKeeps ==
    ASSUME NEW s \in Show, NEW l \in [event : Nat, total : 0..MaxPhotos],
           l.event = 0 => l.total = 0, s.on, PlaceOK(s, l)
    PROVE  /\ ShowOK(Rearmed(s, l.total), l)
           /\ Running(Rearmed(s, l.total)) = Running(s)
           /\ Rearmed(s, l.total).index = s.index
<1> DEFINE r == Rearmed(s, l.total)
           goes == Running(s) /\ l.total > 1
<1>1. PICK late2 \in BOOLEAN : late2 = (s.late \/ s.turn = "load")
  OBVIOUS
<1>2. PICK turn2 \in {"off", "timer"} :
        turn2 = IF goes THEN "timer" ELSE "off"
  OBVIOUS
<1>3. PICK next2 \in 0..MaxPhotos :
        next2 = IF goes THEN (s.index + 1) % l.total ELSE 0
  BY Remainder, PhotosAssumption DEF Show
<1>4. r = [s EXCEPT !.turn = turn2, !.next = next2, !.late = late2]
  BY <1>1, <1>2, <1>3 DEF Rearmed
<1>5. r \in Show
  BY <1>4 DEF Show
<1>6. /\ r.on = s.on /\ r.playing = s.playing /\ r.index = s.index
      /\ r.of = s.of /\ r.turn = turn2 /\ r.next = next2
  BY <1>4 DEF Show
<1> HIDE DEF r
<1>7. ShowOK(r, l) /\ Running(r) = Running(s) /\ r.index = s.index
  BY <1>2, <1>3, <1>5, <1>6 DEF ShowOK, PlaceOK, Running
<1> QED
  BY <1>7 DEF r

(* The clean-up of the lock's effect leaves nothing behind.                 *)
LEMMA UnlockedKeeps ==
    ASSUME ShowInv, NEW running \in BOOLEAN
    PROVE  LockOK(Unlocked, running)
<1>1. PICK live2 \in Nat :
        /\ live2 = IF lock.kept THEN lock.live - 1 ELSE lock.live
        /\ live2 = lock.strays
  BY DEF ShowInv, LockOK, Lock
<1>2. PICK orphans2 \in Nat : orphans2 = lock.orphans + lock.asks
  BY DEF ShowInv, LockOK, Lock
<1>3. Unlocked = [lock EXCEPT !.orphans = orphans2, !.asks = 0,
                              !.kept = FALSE, !.live = live2]
  BY <1>1, <1>2 DEF Unlocked
<1>4. /\ Unlocked \in Lock /\ Unlocked.live = live2 /\ ~Unlocked.kept
      /\ Unlocked.asks = 0 /\ Unlocked.strays = lock.strays
  BY <1>3 DEF ShowInv, LockOK, Lock
<1> QED
  BY <1>1, <1>4 DEF LockOK, Lock

(* A turn leaves the slideshow in order, on a photo that exists.            *)
LEMMA TurnedKeeps ==
    ASSUME ShowInv, show.on, list.total > 0, NEW step \in {1, -1}
    PROVE  /\ ShowOK(Turned(step), list)
           /\ Running(Turned(step)) = Running(show)
           /\ Turned(step).index = (show.index + step + list.total) % list.total
<1> DEFINE i == (show.index + step + list.total) % list.total
           s == [show EXCEPT !.index = i]
<1>1. i \in 0..(list.total - 1)
  BY Remainder, PhotosAssumption DEF ShowInv, ShowOK, Show
<1>2. s \in Show
  BY <1>1, PhotosAssumption DEF ShowInv, ShowOK, Show
<1>3. PlaceOK(s, list)
  BY <1>1, <1>2, PhotosAssumption DEF ShowInv, ShowOK, Show, PlaceOK
<1>4. Turned(step) = Rearmed(s, list.total) /\ s.on /\ s.index = i
      /\ Running(s) = Running(show)
  BY <1>2 DEF Turned, Running, ShowInv, ShowOK, Show
<1> HIDE DEF s, i
<1>5. list \in [event : Nat, total : 0..MaxPhotos]
      /\ (list.event = 0 => list.total = 0)
  BY DEF ShowInv, ShowOK
<1>6. /\ ShowOK(Rearmed(s, list.total), list)
      /\ Running(Rearmed(s, list.total)) = Running(s)
      /\ Rearmed(s, list.total).index = s.index
  BY <1>2, <1>3, <1>4, <1>5, RearmedKeeps
<1> QED
  BY <1>4, <1>6 DEF i

(* A slideshow that is not mounted is in order.                             *)
LEMMA ClosedOK ==
    ASSUME NEW l \in [event : Nat, total : 0..MaxPhotos],
           l.event = 0 => l.total = 0
    PROVE  Closed \in Show /\ ShowOK(Closed, l) /\ ~Running(Closed)
<1>1. Closed \in Show
  BY PhotosAssumption DEF Show, Closed
<1> QED
  BY <1>1 DEF ShowOK, Closed, Running

(* A fetch brings more photos of the same event, or another event's.        *)
LEMMA PhotosKeep ==
    ASSUME ShowInv, NEW e \in Nat \ {0}, NEW total \in 0..MaxPhotos,
           ShowPhotos(e, total)
    PROVE  ShowInv'
<1> DEFINE l == [event |-> e, total |-> total]
<1>1. PICK of2 \in Nat : of2 = IF show.of = 0 /\ show.on THEN e ELSE show.of
  BY DEF ShowInv, ShowOK, Show
<1> DEFINE s == [show EXCEPT !.of = of2]
<1>2. /\ s \in Show /\ s.on = show.on /\ s.playing = show.playing
      /\ s.index = show.index /\ s.of = of2 /\ s.turn = show.turn
  BY <1>1 DEF ShowInv, ShowOK, Show
<1>3. l \in [event : Nat, total : 0..MaxPhotos] /\ l.event # 0 /\ l.total = total
  OBVIOUS
<1>4. list' = l /\ show' = Rearmed(s, total) /\ lock' = lock
      /\ e >= list.event /\ (e = list.event => total >= list.total)
  BY <1>1 DEF ShowPhotos
<1>5. CASE show.on
  <2>1. PlaceOK(s, l)
    BY <1>1, <1>2, <1>3, <1>4, <1>5 DEF ShowInv, ShowOK, Show, PlaceOK
  <2> HIDE DEF s, l
  <2>3. ShowOK(Rearmed(s, l.total), l)
        /\ Running(Rearmed(s, l.total)) = Running(s)
    BY <1>2, <1>3, <1>5, <2>1, RearmedKeeps
  <2>4. ShowOK(show', list') /\ Running(show') = Running(show)
    BY <1>2, <1>3, <1>4, <2>3 DEF Running
  <2> QED
    BY <1>4, <2>4 DEF ShowInv
<1>6. CASE ~show.on
  <2>1. show = Closed /\ s = Closed
    BY <1>1, <1>6 DEF ShowInv, ShowOK, Show, Closed
  <2>2. Rearmed(Closed, total) = Closed
    <3>1. ~Running(Closed) /\ (Closed.late \/ Closed.turn = "load") = FALSE
      BY DEF Closed, Running
    <3>2. Rearmed(Closed, total) = [Closed EXCEPT !.turn = "off", !.next = 0,
                                                  !.late = FALSE]
      BY <3>1 DEF Rearmed
    <3> QED
      BY <3>2 DEF Closed
  <2>3. show' = Closed /\ ShowOK(Closed, l)
    BY <1>3, <1>4, <2>1, <2>2, ClosedOK
  <2> QED
    BY <1>4, <2>1, <2>3 DEF ShowInv
<1> QED
  BY <1>5, <1>6

(* The gate shows the slideshow, or takes it away.                          *)
LEMMA ShowComesAndGoes ==
    ASSUME ShowInv, ShowForget \/ ShowEnter \/ ShowLeave \/ ShowClose
    PROVE  ShowInv'
<1>1. list \in [event : Nat, total : 0..MaxPhotos]
      /\ (list.event = 0 => list.total = 0)
  BY DEF ShowInv, ShowOK
<1> DEFINE none == [event |-> 0, total |-> 0]
<1>2. none \in [event : Nat, total : 0..MaxPhotos]
      /\ none.event = 0 /\ none.total = 0
  BY PhotosAssumption
<1>3. CASE ShowForget
  <2>1. show' = Closed /\ show = Closed /\ list' = none /\ lock' = lock
    BY <1>3 DEF ShowForget, ShowInv, ShowOK
  <2> QED
    BY <1>2, <2>1, ClosedOK DEF ShowInv
<1>4. CASE ShowEnter
  <2> DEFINE s == [Closed EXCEPT !.on = TRUE, !.playing = TRUE,
                                 !.of = list.event]
  <2>0. Closed \in Show /\ Closed.index = 0
    BY <1>1, ClosedOK DEF Closed
  <2>1. s \in Show /\ s.on /\ s.playing /\ s.index = 0 /\ s.of = list.event
    <3>1. PICK of2 \in Nat : of2 = list.event
      BY <1>1
    <3> QED
      BY <2>0, <3>1 DEF Show
  <2>2. show' = Rearmed(s, list.total) /\ lock' = Asking(lock) /\ list' = list
    BY <1>4 DEF ShowEnter
  <2> HIDE DEF s
  <2>3. PlaceOK(s, list)
    BY <1>1, <2>1 DEF PlaceOK
  <2>4. ShowOK(show', list') /\ Running(show')
    BY <1>1, <2>1, <2>2, <2>3, RearmedKeeps DEF Running
  <2>5. LockOK(lock', TRUE)
    BY <2>2 DEF Asking, LockOK, Lock, ShowInv
  <2> QED
    BY <2>4, <2>5 DEF ShowInv, LockOK
<1>5. CASE ShowLeave
  <2>1. show' = Closed /\ list' = list /\ lock' = Unlocked
    BY <1>5 DEF ShowLeave
  <2>2. LockOK(Unlocked, FALSE)
    BY UnlockedKeeps
  <2> QED
    BY <1>1, <2>1, <2>2, ClosedOK DEF ShowInv, LockOK
<1>6. CASE ShowClose
  <2>1. show' = Closed /\ list' = none
    BY <1>6 DEF ShowClose
  <2>2. LockOK(lock', FALSE)
    BY <1>6 DEF ShowClose, LockOK, Lock, ShowInv
  <2> QED
    BY <1>2, <2>1, <2>2, ClosedOK DEF ShowInv, LockOK
<1> QED
  BY <1>3, <1>4, <1>5, <1>6

(* A lock that did not change serves a slideshow that runs as it did.       *)
LEMMA ShownKeeps ==
    ASSUME ShowInv, UNCHANGED <<list, lock>>, ShowOK(show', list),
           Running(show') = Running(show)
    PROVE  ShowInv'
BY DEF ShowInv

LEMMA ShowingKeeps ==
    ASSUME ShowInv, Showing
    PROVE  ShowInv'
<1> USE DEF ShowInv
<1>1. CASE ShowTimer
  <2>1. show' = [show EXCEPT !.turn = "load"] /\ UNCHANGED <<list, lock>>
        /\ show.turn = "timer"
    BY <1>1 DEF ShowTimer
  <2>2. /\ show' \in Show /\ show'.on = show.on /\ show'.of = show.of
        /\ show'.playing = show.playing /\ show'.index = show.index
        /\ show'.next = show.next /\ show'.turn = "load"
    BY <2>1 DEF ShowOK, Show
  <2>3. ShowOK(show', list) /\ Running(show') = Running(show)
    BY <2>1, <2>2 DEF ShowOK, PlaceOK, Running
  <2> QED
    BY <2>1, <2>3, ShownKeeps
<1>2. CASE ShowLoaded
  <2>1. show' = [Turned(1) EXCEPT !.late = show.late]
        /\ UNCHANGED <<list, lock>> /\ show.turn = "load"
    BY <1>2 DEF ShowLoaded
  <2>2. show.on /\ list.total > 0
    BY <2>1 DEF ShowOK, Show, Running
  <2>3. ShowOK(Turned(1), list) /\ Running(Turned(1)) = Running(show)
        /\ Turned(1).on
    BY <2>1, <2>2, TurnedKeeps DEF ShowOK, Running
  <2>4. /\ show' \in Show /\ show'.on /\ show'.of = Turned(1).of
        /\ show'.playing = Turned(1).playing /\ show'.index = Turned(1).index
        /\ show'.next = Turned(1).next /\ show'.turn = Turned(1).turn
    BY <2>1, <2>3 DEF ShowOK, Show
  <2>5. ShowOK(show', list) /\ Running(show') = Running(show)
    BY <2>3, <2>4 DEF ShowOK, PlaceOK, Running
  <2> QED
    BY <2>1, <2>5, ShownKeeps
<1>3. CASE LateLoaded
  <2>1. show' = [show EXCEPT !.late = FALSE] /\ UNCHANGED <<list, lock>>
        /\ show.late
    BY <1>3 DEF LateLoaded
  <2>2. show.on
    BY <2>1 DEF ShowOK, Closed
  <2>3. /\ show' \in Show /\ show'.on /\ show'.of = show.of
        /\ show'.playing = show.playing /\ show'.index = show.index
        /\ show'.next = show.next /\ show'.turn = show.turn
    BY <2>1, <2>2 DEF ShowOK, Show
  <2>4. ShowOK(show', list) /\ Running(show') = Running(show)
    BY <2>2, <2>3 DEF ShowOK, PlaceOK, Running
  <2> QED
    BY <2>1, <2>4, ShownKeeps
<1>4. CASE ShowStep
  <2>1. PICK step \in {1, -1} : show' = Turned(step)
    BY <1>4 DEF ShowStep
  <2>2. show.on /\ list.total > 0 /\ UNCHANGED <<list, lock>>
    BY <1>4 DEF ShowStep
  <2>3. ShowOK(show', list) /\ Running(show') = Running(show)
    BY <2>1, <2>2, TurnedKeeps
  <2> QED
    BY <2>2, <2>3, ShownKeeps
<1>5. CASE ShowToggle
  <2>1. PICK playing2 \in BOOLEAN : playing2 = ~show.playing
    OBVIOUS
  <2> DEFINE s == [show EXCEPT !.playing = playing2]
  <2>2. s \in Show /\ s.on /\ s.playing = playing2 /\ PlaceOK(s, list)
    BY <1>5, <2>1 DEF ShowToggle, ShowOK, Show, PlaceOK
  <2>3. show' = Rearmed(s, list.total) /\ list' = list
    BY <1>5, <2>1 DEF ShowToggle
  <2> HIDE DEF s
  <2>4. ShowOK(show', list) /\ Running(show') = Running(s)
    BY <2>2, <2>3, RearmedKeeps DEF ShowOK
  <2>5. CASE show.playing
    <3>1. lock' = Unlocked /\ LockOK(Unlocked, Running(show'))
      <4>1. Running(show') \in BOOLEAN
        BY DEF Running
      <4> QED
        BY <1>5, <2>5, <4>1, UnlockedKeeps DEF ShowToggle
    <3> QED
      BY <2>3, <2>4, <3>1
  <2>6. CASE ~show.playing
    <3>1. lock' = Asking(lock) /\ Running(show')
      BY <1>5, <2>1, <2>2, <2>4, <2>6 DEF ShowToggle, Running
    <3>2. LockOK(lock', TRUE)
      BY <3>1 DEF Asking, LockOK, Lock
    <3> QED
      BY <2>3, <2>4, <3>1, <3>2 DEF LockOK
  <2> QED
    BY <2>5, <2>6
<1> QED
  BY <1>1, <1>2, <1>3, <1>4, <1>5 DEF Showing

LEMMA LockingKeeps ==
    ASSUME ShowInv, Locking
    PROVE  ShowInv'
<1>1. UNCHANGED <<list, show>>
  BY DEF Locking, LockGranted, OrphanGranted, LockRefused, PageHidden, PageVisible
<1>2. lock \in Lock /\ lock.live = lock.strays + (IF lock.kept THEN 1 ELSE 0)
      /\ (lock.kept \/ lock.asks > 0 => Running(show))
  BY DEF ShowInv, LockOK
<1>3. CASE LockGranted
  <2>1. PICK strays2 \in Nat :
          strays2 = IF lock.kept THEN lock.strays + 1 ELSE lock.strays
    BY <1>2 DEF Lock
  <2>2. PICK asks2 \in Nat, live2 \in Nat :
          asks2 = lock.asks - 1 /\ live2 = lock.live + 1
    BY <1>2, <1>3 DEF LockGranted, Lock
  <2>3. lock' = [lock EXCEPT !.asks = asks2, !.live = live2, !.kept = TRUE,
                             !.strays = strays2]
    BY <1>3, <2>1, <2>2 DEF LockGranted
  <2>4. lock' \in Lock
    BY <1>2, <2>3 DEF Lock
  <2>5. lock'.live = live2 /\ lock'.strays = strays2 /\ lock'.kept
    BY <1>2, <2>3 DEF Lock
  <2>6. Running(show) /\ live2 = strays2 + 1
    BY <1>2, <1>3, <2>1, <2>2 DEF LockGranted, Lock
  <2> QED
    BY <1>1, <2>4, <2>5, <2>6 DEF ShowInv, LockOK
<1>4. CASE OrphanGranted
  <2>1. PICK orphans2 \in Nat : orphans2 = lock.orphans - 1
    BY <1>2, <1>4 DEF OrphanGranted, Lock
  <2>2. lock' = [lock EXCEPT !.orphans = orphans2]
    BY <1>4, <2>1 DEF OrphanGranted
  <2>3. LockOK(lock', Running(show))
    BY <1>2, <2>2 DEF LockOK, Lock
  <2> QED
    BY <1>1, <2>3 DEF ShowInv
<1>5. CASE LockRefused
  <2>1. CASE lock.orphans > 0 /\ lock' = [lock EXCEPT !.orphans = @ - 1]
    <3>1. PICK orphans2 \in Nat : orphans2 = lock.orphans - 1
      BY <1>2, <2>1 DEF Lock
    <3>2. lock' = [lock EXCEPT !.orphans = orphans2]
      BY <2>1, <3>1
    <3>3. LockOK(lock', Running(show))
      BY <1>2, <3>2 DEF LockOK, Lock
    <3> QED
      BY <1>1, <3>3 DEF ShowInv
  <2>2. CASE /\ lock.asks > 0
             /\ lock' = [lock EXCEPT !.asks = @ - 1, !.kept = FALSE,
                            !.strays = IF lock.kept THEN @ + 1 ELSE @]
    <3>1. PICK strays2 \in Nat :
            strays2 = IF lock.kept THEN lock.strays + 1 ELSE lock.strays
      BY <1>2 DEF Lock
    <3>2. PICK asks2 \in Nat : asks2 = lock.asks - 1
      BY <1>2, <2>2 DEF Lock
    <3>3. lock' = [lock EXCEPT !.asks = asks2, !.kept = FALSE, !.strays = strays2]
      BY <2>2, <3>1, <3>2
    <3>4. lock' \in Lock
      BY <1>2, <3>3 DEF Lock
    <3>5. lock'.live = lock.live /\ lock'.strays = strays2 /\ ~lock'.kept
      BY <1>2, <3>3 DEF Lock
    <3>6. Running(show) /\ lock.live = strays2
      BY <1>2, <2>2, <3>1 DEF Lock
    <3> QED
      BY <1>1, <3>4, <3>5, <3>6 DEF ShowInv, LockOK
  <2> QED
    BY <1>5, <2>1, <2>2 DEF LockRefused
<1>6. CASE PageHidden
  <2>1. lock' = [lock EXCEPT !.visible = FALSE, !.live = 0, !.strays = 0,
                             !.kept = FALSE]
    BY <1>6 DEF PageHidden
  <2>2. lock' \in Lock
    BY <1>2, <2>1 DEF Lock
  <2>3. lock'.live = 0 /\ lock'.strays = 0 /\ ~lock'.kept /\ lock'.asks = lock.asks
    BY <1>2, <2>1 DEF Lock
  <2> QED
    BY <1>1, <1>2, <2>2, <2>3 DEF ShowInv, LockOK
<1>7. CASE PageVisible
  <2>1. PICK asks2 \in Nat :
          asks2 = IF Running(show) THEN lock.asks + 1 ELSE lock.asks
    BY <1>2 DEF Lock
  <2>2. lock' = [lock EXCEPT !.asks = asks2, !.visible = TRUE]
    BY <1>2, <1>7, <2>1 DEF PageVisible, Asking, Lock
  <2>3. LockOK(lock', Running(show))
    BY <1>2, <2>1, <2>2 DEF LockOK, Lock
  <2> QED
    BY <1>1, <2>3 DEF ShowInv
<1> QED
  BY <1>3, <1>4, <1>5, <1>6, <1>7 DEF Locking

LEMMA ShowInvariant == ShowSpec => []ShowInv
<1>1. ShowInit => ShowInv
  <2> SUFFICES ASSUME ShowInit PROVE ShowInv
    OBVIOUS
  <2>1. ShowOK(show, list)
    BY ClosedOK, PhotosAssumption DEF ShowInit
  <2>2. LockOK(lock, Running(show))
    BY DEF ShowInit, LockOK, Lock
  <2> QED
    BY <2>1, <2>2 DEF ShowInv
<1>2. ShowInv /\ [ShowNext]_showVars => ShowInv'
  <2> SUFFICES ASSUME ShowInv, [ShowNext]_showVars PROVE ShowInv'
    OBVIOUS
  <2>1. CASE UNCHANGED showVars
    BY <2>1 DEF showVars, ShowInv
  <2>2. CASE \E e \in Nat \ {0}, total \in 0..MaxPhotos : ShowPhotos(e, total)
    BY <2>2, PhotosKeep
  <2> QED
    BY <2>1, <2>2, ShowComesAndGoes, ShowingKeeps, LockingKeeps DEF ShowNext
<1> QED
  BY <1>1, <1>2, PTL DEF ShowSpec

(* The types of the slideshow's variables                                   *)
THEOREM ShowTypeCorrect == ShowSpec => []ShowTypeOK
<1>1. ShowInv => ShowTypeOK
  BY DEF ShowInv, ShowOK, LockOK, ShowTypeOK
<1> QED
  BY <1>1, ShowInvariant, PTL

(* The photo on the screen exists, whatever is fetched and however the timer*)
(* and the arrows interleave.                                               *)
THEOREM ShowStaysInRange == ShowSpec => []ShowInRange
<1>1. ShowInv => ShowInRange
  BY DEF ShowInv, ShowOK, PlaceOK, ShowInRange, Show
<1> QED
  BY <1>1, ShowInvariant, PTL

(* No wake lock outlives the playing, but for those a return overtook.      *)
THEOREM LocksAreReleased == ShowSpec => []LocksReleased
<1>1. ShowInv => LocksReleased
  BY DEF ShowInv, LockOK, LocksReleased
<1> QED
  BY <1>1, ShowInvariant, PTL

(* But for a hand, the slideshow turns only to the photo it awaited.        *)
THEOREM ShowTurnsToAwaited == ShowSpec => TurnsToAwaited
<1>1. ShowInv /\ ShowNext =>
      ( show.on /\ show'.on /\ show'.index # show.index
        => \/ ShowStep
           \/ Running(show) /\ show.turn = "load" /\ show'.index = show.next )
  <2> SUFFICES ASSUME ShowInv, ShowNext, show.on, show'.on,
                      show'.index # show.index, ~ShowStep
               PROVE  Running(show) /\ show.turn = "load"
                      /\ show'.index = show.next
    OBVIOUS
  <2> USE DEF ShowInv, ShowOK
  <2>1. CASE ShowLoaded
    <3>1. show' = [Turned(1) EXCEPT !.late = show.late] /\ show.turn = "load"
      BY <2>1 DEF ShowLoaded
    <3>2. list.total > 1 /\ Running(show)
          /\ show.next = (show.index + 1) % list.total
      BY <3>1
    <3>3. list.total \in Nat /\ list.total > 0 /\ show.index \in Int
      BY <3>2, PhotosAssumption DEF Show
    <3>4. /\ ShowOK(Turned(1), list)
          /\ Turned(1).index = (show.index + 1 + list.total) % list.total
      BY <3>3, TurnedKeeps
    <3>5. show'.index = Turned(1).index
      BY <3>1, <3>4 DEF Show
    <3>6. (show.index + 1 + list.total) % list.total
          = (show.index + 1) % list.total
      <4>1. \A x \in Int : (x + list.total) % list.total = x % list.total
        BY <3>3, RemainderWraps
      <4>2. show.index + 1 \in Int
        BY <3>3
      <4> QED
        BY <4>1, <4>2
    <3> QED
      BY <3>1, <3>2, <3>4, <3>5, <3>6
  <2>2. CASE \E e \in Nat \ {0}, total \in 0..MaxPhotos : ShowPhotos(e, total)
    BY <2>2 DEF ShowPhotos, Rearmed, Show
  <2>3. CASE ShowForget \/ ShowEnter \/ ShowLeave \/ ShowClose
    BY <2>3 DEF ShowForget, ShowEnter, ShowLeave, ShowClose, Closed
  <2>4. CASE ShowTimer \/ LateLoaded
    BY <2>4 DEF ShowTimer, LateLoaded, Show
  <2>5. CASE ShowToggle
    BY <2>5 DEF ShowToggle, Rearmed, Show
  <2>6. CASE Locking
    BY <2>6 DEF Locking, LockGranted, OrphanGranted, LockRefused, PageHidden,
                PageVisible
  <2> QED
    BY <2>1, <2>2, <2>3, <2>4, <2>5, <2>6 DEF ShowNext, Showing
<1> QED
  BY <1>1, ShowInvariant, PTL DEF ShowSpec, TurnsToAwaited

-----------------------------------------------------------------------------
(* The app *)

(* Events are numbered from 1, and only one that was started is over.       *)
LockedInv == event \in Nat /\ ended \subseteq 1..event

LEMMA EventsAreNumbered == ScreensSpec => []LockedInv
<1>1. ScreensInit => LockedInv
  BY DEF ScreensInit, LockedInit, LockedInv
<1>2. LockedInv /\ [ScreensNext]_screensVars => LockedInv'
  <2> SUFFICES ASSUME LockedInv, [ScreensNext]_screensVars PROVE LockedInv'
    OBVIOUS
  <2>1. CASE Turn \/ LoadAgain \/ OnCamera \/ OnShow \/ UNCHANGED screensVars
    <3>1. UNCHANGED <<event, ended>>
      BY <2>1 DEF Turn, LoadAgain, Turns, OnCamera, OnShow, screensVars, lockedVars
    <3> QED
      BY <3>1 DEF LockedInv
  <2>2. CASE Starts
    <3>1. event' = event + 1 /\ ended' \subseteq ended \cup {event + 1}
      BY <2>2 DEF Starts
    <3> QED
      BY <3>1 DEF LockedInv
  <2>3. CASE Ends
    <3>1. event' = event /\ ended' \subseteq ended \cup 1..event
      BY <2>3 DEF Ends
    <3> QED
      BY <3>1 DEF LockedInv
  <2> QED
    BY <2>1, <2>2, <2>3 DEF ScreensNext, Server
<1> QED
  BY <1>1, <1>2, PTL DEF ScreensSpec

(* The camera that the gate mounts and unmounts is a camera.                *)
THEOREM ScreensImplementCamera == ScreensSpec => CameraSpec
<1>1. ScreensInit => CameraInit
  BY DEF ScreensInit
<1>2. [ScreensNext]_screensVars => [CameraNext]_cameraVars
  <2> SUFFICES ASSUME [ScreensNext]_screensVars PROVE [CameraNext]_cameraVars
    OBVIOUS
  <2>1. CASE Turn \/ LoadAgain
    BY <2>1 DEF Turn, TurnsCamera, LoadAgain, CameraNext
  <2>2. CASE OnCamera
    BY <2>2 DEF OnCamera, CameraNext
  <2>3. CASE Server \/ OnShow \/ UNCHANGED screensVars
    BY <2>3 DEF Server, OnShow, screensVars
  <2> QED
    BY <2>1, <2>2, <2>3 DEF ScreensNext
<1> QED
  BY <1>1, <1>2, PTL DEF ScreensSpec, CameraSpec

(* So is the slideshow, to which a list comes only of an event that is over.*)
THEOREM ScreensImplementShow == ScreensSpec => ShowSpec
<1>1. ScreensInit => ShowInit
  BY DEF ScreensInit
<1>2. LockedInv /\ [ScreensNext]_screensVars => [ShowNext]_showVars
  <2> SUFFICES ASSUME LockedInv, [ScreensNext]_screensVars
               PROVE  [ShowNext]_showVars
    OBVIOUS
  <2>1. CASE Turn \/ LoadAgain
    BY <2>1 DEF Turn, TurnsShow, LoadAgain, ShowNext
  <2>2. CASE OnShow
    <3>1. event \in ended => event \in Nat \ {0}
      BY DEF LockedInv
    <3> QED
      BY <2>2, <3>1 DEF OnShow, ShowNext
  <2>3. CASE Server \/ OnCamera \/ UNCHANGED screensVars
    BY <2>3 DEF Server, OnCamera, screensVars
  <2> QED
    BY <2>1, <2>2, <2>3 DEF ScreensNext
<1> QED
  BY <1>1, <1>2, EventsAreNumbered, PTL DEF ScreensSpec, ShowSpec

(* What the camera and the slideshow owe, they owe however the gate, the    *)
(* server and the page take them away.                                      *)
THEOREM ScreensKeepTheirWord ==
    ScreensSpec => /\ [](PreviewsAccounted /\ ShowInRange /\ LocksReleased)
                   /\ FlipHandsBack /\ TurnsToAwaited
<1> QED
  BY ScreensImplementCamera, ScreensImplementShow, EveryPreviewAccounted,
     FlipsHandBack, ShowStaysInRange, LocksAreReleased, ShowTurnsToAwaited, PTL
=============================================================================
