---------------------------- MODULE SealedAlbum ----------------------------
(* What the trip promises, whatever the handlers, the database and the      *)
(* bucket do to keep it.  Events are started one after the other; a capture *)
(* is kept at most once in an event; nothing of an event is shown before    *)
(* the event is over, and what was kept stays kept.  PhotoServer, the model *)
(* of the handlers, implements this specification as long as two events are *)
(* not being started at the same time.                                      *)
EXTENDS Naturals, Sequences

CONSTANTS
    Captures,     \* what phones photograph, each named by its client_id
    MaxTime,      \* the last instant of the clock (a bound)
    MaxEvents     \* how many events are ever started (a bound)

VARIABLES
    now,     \* the server's clock
    ends,    \* when each event ends, in the order they were started
    kept,    \* <<event, capture>> pairs that are stored
    shown    \* the kept pairs whose picture has left the server

vars == <<now, ends, kept, shown>>

Over(e) == ends[e] <= now

Init ==
    /\ now = 0
    /\ ends = << >>
    /\ kept = {}
    /\ shown = {}

Tick ==
    /\ now < MaxTime
    /\ now' = now + 1
    /\ UNCHANGED <<ends, kept, shown>>

(* A new event begins only when the latest one is over. *)
Start ==
    /\ Len(ends) < MaxEvents
    /\ \A e \in DOMAIN ends : Over(e)
    /\ \E t \in 0..MaxTime : ends' = Append(ends, t)
    /\ UNCHANGED <<now, kept, shown>>

(* A capture is kept under an event that was started, and once only. *)
Keep ==
    /\ \E e \in DOMAIN ends, c \in Captures :
          /\ <<e, c>> \notin kept
          /\ kept' = kept \cup {<<e, c>>}
    /\ UNCHANGED <<now, ends, shown>>

(* Pictures of events that are over may be shown, any number at a time. *)
Show ==
    /\ shown' \in SUBSET kept
    /\ shown \subseteq shown'
    /\ \A k \in shown' \ shown : Over(k[1])
    /\ UNCHANGED <<now, ends, kept>>

Next == Tick \/ Start \/ Keep \/ Show

Spec == Init /\ [][Next]_vars
=============================================================================
