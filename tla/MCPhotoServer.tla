--------------------------- MODULE MCPhotoServer ---------------------------
(* PhotoServer on small instances, for TLC. *)
EXTENDS PhotoServer

(* All captures of one second, the tie the album breaks by id. *)
MCTakenAt == [c \in Captures |-> 1]
=============================================================================
