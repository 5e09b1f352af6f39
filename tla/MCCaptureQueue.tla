--------------------------- MODULE MCCaptureQueue ---------------------------
(* CaptureQueue on small instances, for TLC. *)
EXTENDS CaptureQueue, TLC

(* All captures of one second: a drain may take them in any order. *)
MCTakenAt == [c \in Captures |-> 1]

(* Tabs are alike, and so are captures. *)
MCSymmetry == Permutations(Tabs) \cup Permutations(Captures)

(* What the screen says decides nothing that a tab does, so states that     *)
(* differ in it alone need not be told apart where no property is about it; *)
(* nor does an upload of what is stored already, where there is one event.  *)
MCView == <<event, over, kept, {c \in Captures : late[c] = 1} \ {k[2] : k \in kept},
            history, store, dropped, faults, reloads,
            [t \in Tabs |-> [tab[t] EXCEPT !.shown = <<0, 0>>]]>>

(* Across two events, and for a second upload that nobody waits for, one    *)
(* capture is enough; across two events also a store that does not fail.    *)
MCBound ==
    /\ event > 1 \/ several # {} => Cardinality(taken) < 2
    /\ event > 1 => faults = {}

(* One event after the other. *)
MCInTurn == event' # event => over
=============================================================================
