----------------------------- MODULE MCScreens ------------------------------
(* Screens on a small instance, for TLC. *)
EXTENDS Screens

(* What a slideshow leaves behind, and a camera that has run, share nothing *)
(* but the page, and are not followed together.                             *)
MCBound == cam.proven # "none" => list.total = 0 /\ Requests = 0
=============================================================================
