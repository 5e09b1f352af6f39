------------------------- MODULE MCCaptureDelivery -------------------------
(* CaptureDelivery on small instances, for TLC. *)
EXTENDS CaptureDelivery

(* All captures of one second. *)
MCTakenAt == [c \in Captures |-> 1]

(* What the screen says, and whose active event is which, decide no step    *)
(* here, so states that differ in them alone need not be told apart.        *)
MCPhone == <<late, several, taken, written, store, dropped, faults, reloads,
             [t \in Tabs |-> [tab[t] EXCEPT !.shown = <<0, 0>>]]>>

(* Two handlers serve no more than one upload that a tab waits for and one  *)
(* that nobody does; and the camera is left with its page only.             *)
MCBound ==
    /\ several = {}
    /\ \A t \in Tabs : tab[t].mounted \/ tab[t] = Queue!Fresh

MCView == <<now, events, photos, bucket, req, line, MCPhone>>
=============================================================================
