------------------------- MODULE CaptureQueueProofs -------------------------
(* Theorems about CaptureQueue, for any number of tabs and captures and any *)
(* backoff.                                                                 *)
EXTENDS CaptureQueue, FiniteSetTheorems, TLAPS

(* The inductive invariant.  NothingLost alone does not say why a Remove is *)
(* safe: by then the server has the capture that the tab is settling.       *)

Settling == {"send", "remove", "drop", "fail", "retry"}

TabInv(t) ==
    /\ tab[t].pc \in Settling => tab[t].item \in Captures
    /\ tab[t].pc = "remove" =>
           \E e \in 1..MaxEvents : <<e, tab[t].item>> \in kept

QueueInv ==
    /\ TypeOK
    /\ NothingLost
    /\ \A t \in Tabs : TabInv(t)

-----------------------------------------------------------------------------
(* The operators on a tab's record *)

LEMMA Values ==
    /\ {} \in Todos /\ NoCapture \in Items /\ 0 \in Tries
    /\ Off \in Timers /\ <<0, 0>> \in Shown
    /\ \A c \in Captures : c \in Items
    /\ \A s \in Todos : \A i : s \ {i} \in Todos
    /\ \A s \in Todos : \A i \in s : i[1] \in Captures /\ i[2] \in Tries
    /\ Begin \in Times
<1>1. {} \in Todos /\ \A s \in Todos : \A i : s \ {i} \in Todos
    BY DEF Todos
<1>2. \A s \in Todos : \A i \in s : i[1] \in Captures /\ i[2] \in Tries
    BY DEF Todos, Tries
<1>3. NoCapture \in Items /\ \A c \in Captures : c \in Items
    BY DEF Items
<1>4. 0 \in Tries /\ Off \in Timers /\ <<0, 0>> \in Shown
    BY BackoffAssumption DEF Tries, Timers, Shown
<1>5. Begin \in Times
    <2>1. 1 \in 1..MaxEvents
        BY BoundsAssumption
    <2> QED
        BY <2>1 DEF Times, Begin
<1> QED
    BY <1>1, <1>2, <1>3, <1>4, <1>5

LEMMA NowIsTime == TypeOK => <<event, over>> \in Times
<1>1. TypeOK => event \in 1..MaxEvents
    BY DEF TypeOK
<1>2. TypeOK => over \in BOOLEAN
    BY DEF TypeOK
<1> QED
    BY <1>1, <1>2 DEF Times

(* The times of an upload are events that there are, or the next.           *)
LEMMA FirstType ==
    ASSUME NEW sent \in Times
    PROVE  First(sent) \in 1..Never
<1>1. sent[1] \in 1..MaxEvents
    BY DEF Times
<1> QED
    BY <1>1, BoundsAssumption DEF First, Never

LEMMA FreshType == Fresh \in Uploader
BY Values DEF Fresh, Uploader, Steps

LEMMA AskedType ==
    ASSUME NEW u \in Uploader
    PROVE  /\ Asked(u) \in Uploader
           /\ Asked(u).pc \in {u.pc, "read"} /\ Asked(u).item = u.item
BY DEF Asked, Uploader, Steps

LEMMA ThrownType ==
    ASSUME NEW u \in Uploader
    PROVE  Thrown(u) \in Uploader /\ Thrown(u).pc = "counts"
BY Values DEF Thrown, Uploader, Steps

LEMMA GoneOnForms ==
    ASSUME NEW u, NEW v \in GoneOn(u)
    PROVE  \/ u.todo = {} /\ v = LoopLeft(u)
           \/ \E i \in u.todo : v = Sending(u, i)
BY DEF GoneOn

LEMMA GoneOnFields ==
    ASSUME TypeOK, NEW u \in Uploader, NEW v \in GoneOn(u)
    PROVE  /\ v \in Uploader /\ v.storing = u.storing
           /\ \/ v.pc \in {"read", "counts"} /\ v.todo = {}
              \/ \E i \in u.todo :
                    /\ v.pc = "send" /\ v.item = i[1] /\ v.tries = i[2]
                    /\ v.todo = u.todo \ {i}
<1>1. CASE u.todo = {} /\ v = LoopLeft(u)
    BY <1>1, Values DEF LoopLeft, Uploader, Steps
<1>2. ASSUME NEW i \in u.todo, v = Sending(u, i)
      PROVE  /\ v \in Uploader /\ v.storing = u.storing
             /\ v.pc = "send" /\ v.item = i[1] /\ v.tries = i[2]
             /\ v.todo = u.todo \ {i}
    <2>1. u.todo \in Todos /\ i[1] \in Captures /\ i[2] \in Tries
        BY Values DEF Uploader
    <2>2. u.todo \ {i} \in Todos /\ i[1] \in Items
        BY <2>1, Values
    <2> QED
        BY <1>2, <2>1, <2>2, NowIsTime DEF Sending, Uploader, Steps
<1> QED
    BY <1>1, <1>2, GoneOnForms

LEMMA GoneOnType ==
    ASSUME TypeOK, NEW u \in Uploader, NEW v \in GoneOn(u)
    PROVE  /\ v \in Uploader
           /\ v.pc \in {"send", "read", "counts"}
           /\ v.pc = "send" => v.item \in Captures
<1>1. \A i \in u.todo : i[1] \in Captures
    BY Values DEF Uploader
<1> QED
    BY <1>1, GoneOnFields

LEMMA CountsType == Counts \in Shown
<1>1. IsFiniteSet(Pending) /\ IsFiniteSet(Stored \ Pending)
    BY CapturesAssumption, FS_Subset DEF Pending, Stored
<1> QED
    BY <1>1, FS_CardinalityType DEF Counts, Shown

LEMMA BackoffType ==
    ASSUME NEW n \in Tries
    PROVE  /\ Lesser(n + 1, MaxAttempts) \in 1..MaxAttempts
           /\ Backoff(Lesser(n + 1, MaxAttempts)) \in 0..MaxBackoff
<1>1. Lesser(n + 1, MaxAttempts) \in 1..MaxAttempts
    BY BackoffAssumption DEF Lesser, Tries
<1>2. ASSUME NEW m \in 1..MaxAttempts PROVE Backoff(m) \in 0..MaxBackoff
    <2>1. 2 ^ (m - 1) \in Nat
        BY PowersAssumption
    <2> QED
        BY <2>1, BackoffAssumption DEF Backoff, Lesser
<1> QED
    BY <1>1, <1>2

LEMMA SoonestType ==
    ASSUME TypeOK, NEW delay \in Soonest(Pending)
    PROVE  delay \in Timers
BY DEF Soonest, Timers, TypeOK, Item, Pending, Stored, Absent

-----------------------------------------------------------------------------
(* What steps have in common *)

LEMMA BecomesType ==
    ASSUME TypeOK, NEW t \in Tabs, NEW u \in Uploader, Becomes(t, u)
    PROVE  /\ tab' \in [Tabs -> Uploader] /\ tab'[t] = u
           /\ \A s \in Tabs \ {t} : tab'[s] = tab[s]
BY DEF TypeOK, Becomes

LEMMA ItemsAreThere ==
    ASSUME NEW i \in Item
    PROVE  i # Absent
BY DEF Item, Absent

(* A step that leaves the store alone. *)
LEMMA StoreStands ==
    ASSUME QueueInv, NEW t \in Tabs, NEW u \in Uploader, Becomes(t, u),
           UNCHANGED <<event, over, taken, written, store, dropped>>,
           kept \subseteq kept', kept' \subseteq (1..MaxEvents) \X Captures,
           late' \in [Captures -> 1..Never], several' \subseteq Captures,
           faults' \subseteq MayFail, reloads' \in 0..MaxReloads,
           u.pc \in Settling => u.item \in Captures,
           u.pc = "remove" => \E e \in 1..MaxEvents : <<e, u.item>> \in kept'
    PROVE  QueueInv'
<1>1. /\ tab' \in [Tabs -> Uploader] /\ tab'[t] = u
      /\ \A s \in Tabs \ {t} : tab'[s] = tab[s]
    BY BecomesType DEF QueueInv
<1>2. TypeOK'
    BY <1>1 DEF QueueInv, TypeOK
<1>3. NothingLost'
    BY DEF QueueInv, NothingLost, Stored
<1>4. \A s \in Tabs : TabInv(s)'
    BY <1>1 DEF QueueInv, TabInv
<1> QED
    BY <1>2, <1>3, <1>4 DEF QueueInv

(* A step that gives one key of the store a new item, or takes it away. *)
LEMMA StoreMoves ==
    ASSUME QueueInv, NEW t \in Tabs, NEW u \in Uploader, Becomes(t, u),
           u.pc \in Settling \ {"remove"} => u.item \in Captures,
           u.pc # "remove",
           NEW c \in Captures, NEW i \in Item \cup {Absent},
           store' = [store EXCEPT ![c] = i],
           i = Absent => \/ c \in dropped'
                         \/ \E e \in 1..MaxEvents : <<e, c>> \in kept,
           written' \subseteq written \cup {c}, i \notin Item => written' = written,
           dropped \subseteq dropped', dropped' \subseteq Captures,
           UNCHANGED <<event, over, kept, late, several, taken, reloads>>,
           faults' \subseteq MayFail
    PROVE  QueueInv'
<1>1. /\ tab' \in [Tabs -> Uploader] /\ tab'[t] = u
      /\ \A s \in Tabs \ {t} : tab'[s] = tab[s]
    BY BecomesType DEF QueueInv
<1>2. TypeOK'
    BY <1>1 DEF QueueInv, TypeOK
<1>3. NothingLost'
    <2>1. \A d \in Captures \ {c} : store'[d] = store[d]
        BY DEF QueueInv, TypeOK
    <2>2. store'[c] = i
        BY DEF QueueInv, TypeOK
    <2>3. \A d \in written' \ {c} : d \in written /\ d \in Captures
        BY DEF QueueInv, TypeOK
    <2>4. ASSUME NEW d \in written'
          PROVE  \/ store'[d] # Absent \/ d \in dropped'
                 \/ \E e \in 1..MaxEvents : <<e, d>> \in kept
        BY <2>1, <2>2, <2>3 DEF QueueInv, NothingLost, Stored
    <2>5. written' \subseteq Captures
        BY <1>2 DEF TypeOK
    <2> QED
        BY <2>4, <2>5 DEF NothingLost, Stored
<1>4. \A s \in Tabs : TabInv(s)'
    BY <1>1 DEF QueueInv, TabInv, Settling
<1> QED
    BY <1>2, <1>3, <1>4 DEF QueueInv

-----------------------------------------------------------------------------
(* The actions keep the invariant *)

LEMMA TabType ==
    ASSUME QueueInv, NEW t \in Tabs
    PROVE  tab[t] \in Uploader /\ TabInv(t)
BY DEF QueueInv, TypeOK

LEMMA AskingKeeps ==
    ASSUME QueueInv, NEW t \in Tabs, Start(t) \/ Trigger(t) \/ RetryTimer(t)
    PROVE  QueueInv'
<1>1. PICK u \in Uploader :
          /\ Becomes(t, Asked(u)) /\ u.pc = tab[t].pc /\ u.item = tab[t].item
    <2>1. CASE Start(t)
        <3> DEFINE w == [tab[t] EXCEPT !.mounted = TRUE]
        <3>1. w \in Uploader /\ w.pc = tab[t].pc /\ w.item = tab[t].item
            BY TabType DEF Uploader
        <3>2. Becomes(t, Asked(w))
            BY <2>1 DEF Start
        <3> HIDE DEF w
        <3> QED
            BY <3>1, <3>2
    <2>2. CASE Trigger(t)
        BY <2>2, TabType DEF Trigger
    <2>3. CASE RetryTimer(t)
        <3> DEFINE w == [tab[t] EXCEPT !.timer = Off]
        <3>1. w \in Uploader /\ w.pc = tab[t].pc /\ w.item = tab[t].item
            BY TabType, Values DEF Uploader
        <3>2. Becomes(t, Asked(w))
            BY <2>3 DEF RetryTimer
        <3> HIDE DEF w
        <3> QED
            BY <3>1, <3>2
    <2> QED
        BY <2>1, <2>2, <2>3
<1>2. /\ Asked(u) \in Uploader
      /\ Asked(u).pc \in {u.pc, "read"} /\ Asked(u).item = u.item
    BY AskedType
<1>3. /\ UNCHANGED <<event, over, kept, late, several, taken, written, store, dropped>>
      /\ UNCHANGED <<faults, reloads>>
    BY DEF Start, Trigger, RetryTimer, server, history
<1> DEFINE v == Asked(u)
<1>4. /\ v.pc \in Settling => v.item \in Captures
      /\ v.pc = "remove" => \E e \in 1..MaxEvents : <<e, v.item>> \in kept
    BY <1>1, <1>2, TabType DEF TabInv, Settling
<1> HIDE DEF v
<1> QED
    BY <1>1, <1>2, <1>3, <1>4, StoreStands DEF v, QueueInv, TypeOK

LEMMA StopKeeps ==
    ASSUME QueueInv, NEW t \in Tabs, Stop(t)
    PROVE  QueueInv'
<1> DEFINE v == [tab[t] EXCEPT !.mounted = FALSE, !.timer = Off]
<1>1. v \in Uploader /\ v.pc = tab[t].pc /\ v.item = tab[t].item
    BY TabType, Values DEF Uploader
<1>2. /\ UNCHANGED <<event, over, kept, late, several, taken, written, store, dropped>>
      /\ UNCHANGED <<faults, reloads>> /\ Becomes(t, v)
    BY DEF Stop, server, history
<1> HIDE DEF v
<1> QED
    BY <1>1, <1>2, TabType, StoreStands DEF TabInv, QueueInv, TypeOK

LEMMA ShootKeeps ==
    ASSUME QueueInv, NEW t \in Tabs, NEW c \in Captures, Shoot(t, c)
    PROVE  QueueInv'
<1> DEFINE v == [tab[t] EXCEPT !.storing = @ \cup {c}]
<1>1. v \in Uploader /\ v.pc = tab[t].pc /\ v.item = tab[t].item
    BY TabType DEF Uploader
<1>2. /\ UNCHANGED <<event, over, kept, late, several, written, store, dropped>>
      /\ UNCHANGED <<faults, reloads>> /\ Becomes(t, v)
      /\ taken' = taken \cup {c}
    BY DEF Shoot, server
<1> HIDE DEF v
<1>3. /\ tab' \in [Tabs -> Uploader] /\ tab'[t] = v
      /\ \A s \in Tabs \ {t} : tab'[s] = tab[s]
    BY <1>1, <1>2, BecomesType DEF QueueInv
<1>4. TypeOK'
    BY <1>2, <1>3 DEF QueueInv, TypeOK
<1>5. NothingLost'
    BY <1>2 DEF QueueInv, NothingLost, Stored
<1>6. \A s \in Tabs : TabInv(s)'
    BY <1>1, <1>2, <1>3 DEF QueueInv, TabInv
<1> QED
    BY <1>4, <1>5, <1>6 DEF QueueInv

LEMMA FailsType ==
    ASSUME TypeOK, NEW kind, Fails(kind)
    PROVE  faults' \subseteq MayFail
BY DEF TypeOK, Fails

LEMMA EnqueueKeeps ==
    ASSUME QueueInv, NEW t \in Tabs, NEW c \in Captures, Enqueue(t, c)
    PROVE  QueueInv'
<1>1. TypeOK /\ tab[t] \in Uploader /\ TabInv(t)
    BY TabType DEF QueueInv
<1>2. UNCHANGED <<event, over, kept, late, several, taken, dropped, reloads>>
    BY DEF Enqueue, server
<1>3. CASE /\ Fails("write") /\ UNCHANGED <<store, written>>
           /\ Becomes(t, [tab[t] EXCEPT !.storing = @ \ {c}])
    <2> DEFINE v == [tab[t] EXCEPT !.storing = @ \ {c}]
    <2>1. v \in Uploader /\ v.pc = tab[t].pc /\ v.item = tab[t].item
        BY <1>1 DEF Uploader
    <2>2. Becomes(t, v) /\ faults' \subseteq MayFail
        BY <1>1, <1>3, FailsType
    <2> HIDE DEF v
    <2> QED
        BY <1>1, <1>2, <1>3, <2>1, <2>2, StoreStands DEF TabInv, TypeOK
<1>4. CASE /\ store' = [store EXCEPT ![c] =
                          [attempts |-> 0, wait |-> 0, failed |-> FALSE]]
           /\ written' = written \cup {c} /\ UNCHANGED faults
           /\ Becomes(t, [tab[t] EXCEPT !.storing = @ \ {c},
                                        !.counting = @ \cup {c}])
    <2> DEFINE v == [tab[t] EXCEPT !.storing = @ \ {c},
                                   !.counting = @ \cup {c}]
               i == [attempts |-> 0, wait |-> 0, failed |-> FALSE]
    <2>1. v \in Uploader /\ v.pc = tab[t].pc /\ v.item = tab[t].item
        BY <1>1 DEF Uploader
    <2>2. i \in Item
        BY BackoffAssumption DEF Item
    <2>3. Becomes(t, v) /\ store' = [store EXCEPT ![c] = i]
        BY <1>4
    <2>4. i # Absent
        BY <2>2, ItemsAreThere
    <2> HIDE DEF v, i
    <2>5. /\ tab' \in [Tabs -> Uploader] /\ tab'[t] = v
          /\ \A s \in Tabs \ {t} : tab'[s] = tab[s]
        BY <1>1, <2>1, <2>3, BecomesType
    <2>6. TypeOK'
        BY <1>1, <1>2, <1>4, <2>2, <2>3, <2>5 DEF TypeOK
    <2>7. NothingLost'
        <3>1. \A d \in Captures : store'[d] = IF d = c THEN i ELSE store[d]
            BY <1>1, <2>3 DEF TypeOK
        <3> QED
            BY <1>1, <1>2, <1>4, <2>4, <3>1 DEF QueueInv, TypeOK, NothingLost, Stored
    <2>8. \A s \in Tabs : TabInv(s)'
        BY <1>2, <2>1, <2>5 DEF QueueInv, TabInv
    <2> QED
        BY <2>6, <2>7, <2>8 DEF QueueInv
<1> QED
    BY <1>3, <1>4 DEF Enqueue

LEMMA EnqueueCountsKeeps ==
    ASSUME QueueInv, NEW t \in Tabs, NEW c \in Captures, EnqueueCounts(t, c)
    PROVE  QueueInv'
<1>1. TypeOK /\ tab[t] \in Uploader /\ TabInv(t)
    BY TabType DEF QueueInv
<1>2. UNCHANGED <<event, over, kept, late, several, taken, written, store, dropped, reloads>>
    BY DEF EnqueueCounts, server, history
<1>3. CASE /\ Fails("read")
           /\ Becomes(t, [tab[t] EXCEPT !.counting = @ \ {c}])
    <2> DEFINE v == [tab[t] EXCEPT !.counting = @ \ {c}]
    <2>1. v \in Uploader /\ v.pc = tab[t].pc /\ v.item = tab[t].item
        BY <1>1 DEF Uploader
    <2>2. Becomes(t, v) /\ faults' \subseteq MayFail
        BY <1>1, <1>3, FailsType
    <2> HIDE DEF v
    <2> QED
        BY <1>1, <1>2, <2>1, <2>2, StoreStands DEF TabInv, TypeOK
<1>4. CASE /\ Becomes(t, Asked([tab[t] EXCEPT !.counting = @ \ {c},
                                              !.shown = Counts]))
           /\ UNCHANGED faults
    <2> DEFINE u == [tab[t] EXCEPT !.counting = @ \ {c}, !.shown = Counts]
               v == Asked(u)
    <2>1. u \in Uploader /\ u.pc = tab[t].pc /\ u.item = tab[t].item
        BY <1>1, CountsType DEF Uploader
    <2>2. Becomes(t, v)
        BY <1>4
    <2> HIDE DEF u
    <2>3. v \in Uploader /\ v.pc \in {u.pc, "read"} /\ v.item = u.item
        BY <2>1, AskedType
    <2> HIDE DEF v
    <2>4. /\ v.pc \in Settling => v.item \in Captures
          /\ v.pc = "remove" => \E e \in 1..MaxEvents : <<e, v.item>> \in kept
        BY <1>1, <2>1, <2>3 DEF TabInv, Settling
    <2> QED
        BY <1>1, <1>2, <1>4, <2>2, <2>3, <2>4, StoreStands DEF TypeOK
<1> QED
    BY <1>3, <1>4 DEF EnqueueCounts

LEMMA ReadDueKeeps ==
    ASSUME QueueInv, NEW t \in Tabs, ReadDue(t)
    PROVE  QueueInv'
<1>1. TypeOK /\ tab[t] \in Uploader
    BY TabType DEF QueueInv
<1>2. UNCHANGED <<event, over, kept, late, several, taken, written, store, dropped, reloads>>
    BY DEF ReadDue, server, history
<1>3. PICK v \in Uploader :
          /\ Becomes(t, v) /\ v.pc \in {"send", "read", "counts"}
          /\ v.pc = "send" => v.item \in Captures
          /\ faults' \subseteq MayFail
    <2>1. CASE Fails("read") /\ Becomes(t, Thrown([tab[t] EXCEPT !.again = FALSE]))
        <3> DEFINE u == [tab[t] EXCEPT !.again = FALSE]
        <3>1. u \in Uploader
            BY <1>1 DEF Uploader
        <3>2. Becomes(t, Thrown(u)) /\ faults' \subseteq MayFail
            BY <1>1, <2>1, FailsType
        <3> HIDE DEF u
        <3>3. Thrown(u) \in Uploader /\ Thrown(u).pc = "counts"
            BY <3>1, ThrownType
        <3> QED
            BY <3>2, <3>3
    <2>2. CASE /\ \E u \in GoneOn([tab[t] EXCEPT !.again = FALSE,
                            !.todo = {<<c, store[c].attempts>> : c \in Due}]) :
                     Becomes(t, u)
               /\ UNCHANGED faults
        <3> DEFINE todo == {<<c, store[c].attempts>> : c \in Due}
                   u == [tab[t] EXCEPT !.again = FALSE, !.todo = todo]
        <3>1. todo \in Todos
            BY <1>1 DEF Due, Pending, Stored, Todos, TypeOK, Item, Absent
        <3> HIDE DEF todo
        <3>2. u \in Uploader
            BY <1>1, <3>1 DEF Uploader
        <3>3. \E v \in GoneOn(u) : Becomes(t, v)
            BY <2>2 DEF todo
        <3> HIDE DEF u
        <3>4. PICK v \in GoneOn(u) : Becomes(t, v)
            BY <3>3
        <3>5. /\ v \in Uploader /\ v.pc \in {"send", "read", "counts"}
              /\ v.pc = "send" => v.item \in Captures
            BY <1>1, <3>2, GoneOnType
        <3> QED
            BY <1>1, <2>2, <3>4, <3>5 DEF TypeOK
    <2> QED
        BY <2>1, <2>2 DEF ReadDue
<1> QED
    BY <1>1, <1>2, <1>3, StoreStands DEF TypeOK, Settling

(* What a tab that has its answer is.                                       *)
LEMMA AnsweredFields ==
    ASSUME NEW u \in Uploader, NEW pc \in Steps
    PROVE  LET v == Answered(u, pc) IN
           /\ v \in Uploader /\ v.pc = pc /\ v.item = u.item
           /\ v.todo = u.todo /\ v.tries = u.tries /\ v.storing = u.storing
BY Values DEF Answered, Uploader

LEMMA ReplyKeeps ==
    ASSUME QueueInv, NEW t \in Tabs, Reply(t)
    PROVE  QueueInv'
<1>1. TypeOK /\ tab[t] \in Uploader /\ tab[t].item \in Captures
    BY TabType DEF QueueInv, TabInv, Settling, Reply
<1>2. UNCHANGED <<event, over, kept, late, several, taken, written, store, dropped,
                  faults, reloads>>
    BY DEF Reply, server, history
<1>3. PICK p \in {"drop", "fail", "remove"} :
          /\ Becomes(t, Answered(tab[t], p))
          /\ p = "remove" =>
                 \E e \in First(tab[t].sent)..event : <<e, tab[t].item>> \in kept
    BY DEF Reply
<1> DEFINE v == Answered(tab[t], p)
<1>4. v \in Uploader /\ v.pc = p /\ v.item = tab[t].item /\ Becomes(t, v)
    BY <1>1, <1>3, AnsweredFields DEF Steps
<1> HIDE DEF v
<1>5. v.pc = "remove" => \E e \in 1..MaxEvents : <<e, v.item>> \in kept'
    BY <1>1, <1>2, <1>3, <1>4 DEF TypeOK
<1> QED
    BY <1>1, <1>2, <1>4, <1>5, StoreStands DEF TypeOK

(* An upload that is given up may be stored from its first event on.        *)
LEMMA GivesUpType ==
    ASSUME TypeOK, NEW u \in Uploader, u.item \in Captures, GivesUp(u)
    PROVE  /\ late' \in [Captures -> 1..Never] /\ several' \subseteq Captures
           /\ \A c \in Captures : c # u.item => late'[c] = late[c]
<1>1. u.sent \in Times
    BY DEF Uploader
<1>2. First(u.sent) \in 1..Never /\ late[u.item] \in 1..Never
    BY <1>1, FirstType DEF TypeOK
<1>3. Lesser(late[u.item], First(u.sent)) \in 1..Never
    BY <1>2 DEF Lesser
<1>4. CASE u.stored
    BY <1>4 DEF GivesUp, TypeOK
<1>5. CASE ~u.stored
    <2>1. late' = [late EXCEPT ![u.item] = Lesser(@, First(u.sent))]
        BY <1>5 DEF GivesUp
    <2>2. several' = several \cup {c \in {u.item} : late[c] # Never}
        BY <1>5 DEF GivesUp
    <2>3. several' \subseteq Captures
        BY <2>2 DEF TypeOK
    <2> QED
        BY <1>3, <2>1, <2>3 DEF TypeOK
<1> QED
    BY <1>4, <1>5

(* What an upload that is stored late leaves of the account of them.        *)
LEMMA SpentType ==
    ASSUME TypeOK, NEW c \in Captures
    PROVE  /\ Spent(c) \in [Captures -> 1..Never]
           /\ \A d \in Captures : d # c => Spent(c)[d] = late[d]
<1>1. Never \in 1..Never
    BY BoundsAssumption DEF Never
<1> QED
    BY <1>1 DEF Spent, TypeOK

LEMMA NoReplyKeeps ==
    ASSUME QueueInv, NEW t \in Tabs, NoReply(t)
    PROVE  QueueInv'
<1>1. TypeOK /\ tab[t] \in Uploader /\ tab[t].item \in Captures
    BY TabType DEF QueueInv, TabInv, Settling, NoReply
<1>2. /\ UNCHANGED <<event, over, kept, taken, written, store, dropped, faults,
                     reloads>>
      /\ late' \in [Captures -> 1..Never] /\ several' \subseteq Captures
    BY <1>1, GivesUpType DEF NoReply, history
<1> DEFINE v == Answered(tab[t], "retry")
<1>3. v \in Uploader /\ v.pc = "retry" /\ v.item = tab[t].item /\ Becomes(t, v)
    BY <1>1, AnsweredFields DEF Steps, NoReply
<1> HIDE DEF v
<1> QED
    BY <1>1, <1>2, <1>3, StoreStands DEF TypeOK

(* The server keeps one more capture, for a tab that waits or for nobody.   *)
LEMMA StoreKeeps ==
    ASSUME QueueInv, NEW t \in Tabs, Store(t)
    PROVE  QueueInv'
<1>1. TypeOK /\ tab[t] \in Uploader /\ tab[t].item \in Captures
    BY TabType DEF QueueInv, TabInv, Settling, Store
<1>2. UNCHANGED <<event, over, late, several, taken, written, store, dropped, faults,
                  reloads>>
    BY DEF Store, history
<1> DEFINE v == [tab[t] EXCEPT !.stored = TRUE]
<1>3. v \in Uploader /\ v.pc = "send" /\ v.item = tab[t].item /\ Becomes(t, v)
    BY <1>1 DEF Uploader, Store
<1> HIDE DEF v
<1>4. kept \subseteq kept' /\ kept' \subseteq (1..MaxEvents) \X Captures
    <2>1. First(tab[t].sent) \in 1..Never
        BY <1>1, FirstType DEF Uploader
    <2>2. PICK e \in First(tab[t].sent)..event :
              kept' = kept \cup {<<e, tab[t].item>>}
        BY DEF Store
    <2>3. event \in 1..MaxEvents
        BY <1>1 DEF TypeOK
    <2>4. e \in 1..MaxEvents
        BY <2>1, <2>3, BoundsAssumption DEF Never
    <2> QED
        BY <1>1, <2>2, <2>4 DEF TypeOK
<1> QED
    BY <1>1, <1>2, <1>3, <1>4, StoreStands DEF TypeOK

LEMMA StoreLateKeeps ==
    ASSUME QueueInv, StoreLate
    PROVE  QueueInv'
<1>1. UNCHANGED <<event, over, several, taken, written, store, dropped, tab,
                  faults, reloads>>
    BY DEF StoreLate, history
<1>2. PICK c \in Captures :
          /\ \E e \in late[c]..event : kept' = kept \cup {<<e, c>>}
          /\ late' = Spent(c)
    BY DEF StoreLate
<1>3. kept \subseteq kept' /\ kept' \subseteq (1..MaxEvents) \X Captures
    <2>1. PICK e \in late[c]..event : kept' = kept \cup {<<e, c>>}
        BY <1>2
    <2>2. late[c] \in 1..Never /\ event \in 1..MaxEvents
        BY DEF QueueInv, TypeOK
    <2>3. e \in 1..MaxEvents
        BY <2>2, BoundsAssumption DEF Never
    <2> QED
        BY <2>1, <2>3 DEF QueueInv, TypeOK
<1>4. late' \in [Captures -> 1..Never]
    BY <1>2, SpentType DEF QueueInv
<1>5. TypeOK'
    BY <1>1, <1>3, <1>4 DEF QueueInv, TypeOK
<1> QED
    BY <1>1, <1>3, <1>5 DEF QueueInv, NothingLost, Stored, TabInv

(* How a settled item lets the loop go on. *)
LEMMA GoingOn ==
    ASSUME QueueInv, NEW t \in Tabs, \E u \in GoneOn(tab[t]) : Becomes(t, u)
    PROVE  \E u \in Uploader :
               /\ Becomes(t, u) /\ u.pc # "remove"
               /\ u.pc \in Settling \ {"remove"} => u.item \in Captures
<1>1. tab[t] \in Uploader
    BY TabType
<1>2. PICK u \in GoneOn(tab[t]) : Becomes(t, u)
    OBVIOUS
<1>3. /\ u \in Uploader /\ u.pc \in {"send", "read", "counts"}
      /\ u.pc = "send" => u.item \in Captures
    BY <1>1, GoneOnType DEF QueueInv
<1> QED
    BY <1>2, <1>3 DEF Settling

LEMMA ThrowingKeeps ==
    ASSUME QueueInv, NEW t \in Tabs, Fails("write"), Becomes(t, Thrown(tab[t])),
           UNCHANGED <<event, over, kept, late, several, taken, written, store, dropped, reloads>>
    PROVE  QueueInv'
<1>1. TypeOK /\ tab[t] \in Uploader /\ faults' \subseteq MayFail
    BY TabType, FailsType DEF QueueInv
<1>2. Thrown(tab[t]) \in Uploader /\ Thrown(tab[t]).pc = "counts"
    BY <1>1, ThrownType
<1> QED
    BY <1>1, <1>2, StoreStands DEF TypeOK, Settling

LEMMA RemoveKeeps ==
    ASSUME QueueInv, NEW t \in Tabs, Remove(t)
    PROVE  QueueInv'
<1>1. /\ TypeOK /\ tab[t] \in Uploader /\ tab[t].item \in Captures
      /\ \E e \in 1..MaxEvents : <<e, tab[t].item>> \in kept
    BY TabType DEF QueueInv, TabInv, Settling, Remove
<1>2. UNCHANGED <<event, over, kept, late, several, taken, written, dropped, reloads>>
    BY DEF Remove, server, history
<1>3. CASE /\ Fails("write") /\ UNCHANGED store
           /\ Becomes(t, [tab[t] EXCEPT !.pc = "retry"])
    <2> DEFINE v == [tab[t] EXCEPT !.pc = "retry"]
    <2>1. v \in Uploader /\ v.pc = "retry" /\ v.item = tab[t].item
        BY <1>1 DEF Uploader, Steps
    <2>2. Becomes(t, v) /\ faults' \subseteq MayFail
        BY <1>1, <1>3, FailsType
    <2> HIDE DEF v
    <2> QED
        BY <1>1, <1>2, <1>3, <2>1, <2>2, StoreStands DEF TypeOK
<1>4. CASE /\ store' = [store EXCEPT ![tab[t].item] = Absent]
           /\ \E u \in GoneOn(tab[t]) : Becomes(t, u)
           /\ UNCHANGED faults
    <2>1. PICK u \in Uploader :
              /\ Becomes(t, u) /\ u.pc # "remove"
              /\ u.pc \in Settling \ {"remove"} => u.item \in Captures
        BY <1>4, GoingOn
    <2> QED
        BY <1>1, <1>2, <1>4, <2>1, StoreMoves DEF TypeOK
<1> QED
    BY <1>3, <1>4 DEF Remove

LEMMA DropKeeps ==
    ASSUME QueueInv, NEW t \in Tabs, Drop(t)
    PROVE  QueueInv'
<1>1. TypeOK /\ tab[t].item \in Captures
    BY TabType DEF QueueInv, TabInv, Settling, Drop
<1>2. UNCHANGED <<event, over, kept, late, several, taken, written, reloads>>
    BY DEF Drop, server, history
<1>3. CASE /\ Fails("write") /\ Becomes(t, Thrown(tab[t]))
           /\ UNCHANGED <<store, dropped>>
    BY <1>2, <1>3, ThrowingKeeps
<1>4. CASE /\ store' = [store EXCEPT ![tab[t].item] = Absent]
           /\ dropped' = dropped \cup {tab[t].item}
           /\ \E u \in GoneOn(tab[t]) : Becomes(t, u)
           /\ UNCHANGED faults
    <2>1. PICK u \in Uploader :
              /\ Becomes(t, u) /\ u.pc # "remove"
              /\ u.pc \in Settling \ {"remove"} => u.item \in Captures
        BY <1>4, GoingOn
    <2>2. dropped \subseteq dropped' /\ dropped' \subseteq Captures
        BY <1>1, <1>4 DEF TypeOK
    <2> QED
        BY <1>1, <1>2, <1>4, <2>1, <2>2, StoreMoves DEF TypeOK
<1> QED
    BY <1>3, <1>4 DEF Drop

LEMMA PutBackKeeps ==
    ASSUME QueueInv, NEW t \in Tabs, MarkFailed(t) \/ Retry(t)
    PROVE  QueueInv'
<1>1. PICK failed \in BOOLEAN : PutBack(t, failed)
    BY DEF MarkFailed, Retry
<1>2. TypeOK /\ tab[t] \in Uploader /\ tab[t].item \in Captures
    BY TabType DEF QueueInv, TabInv, Settling, MarkFailed, Retry
<1>3. UNCHANGED <<event, over, kept, late, several, taken, written, dropped, reloads>>
    BY <1>1 DEF PutBack, server, history
<1> DEFINE attempts == Lesser(tab[t].tries + 1, MaxAttempts)
           i == [attempts |-> attempts, failed |-> failed,
                 wait |-> IF failed THEN 0 ELSE Backoff(attempts)]
<1>4. CASE /\ Fails("write") /\ Becomes(t, Thrown(tab[t])) /\ UNCHANGED store
    BY <1>3, <1>4, ThrowingKeeps
<1>5. CASE /\ store' = [store EXCEPT ![tab[t].item] = i]
           /\ \E u \in GoneOn(tab[t]) : Becomes(t, u)
           /\ UNCHANGED faults
    <2>1. PICK u \in Uploader :
              /\ Becomes(t, u) /\ u.pc # "remove"
              /\ u.pc \in Settling \ {"remove"} => u.item \in Captures
        BY <1>5, GoingOn
    <2>2. attempts \in 1..MaxAttempts /\ Backoff(attempts) \in 0..MaxBackoff
        BY <1>2, BackoffType DEF Uploader
    <2> HIDE DEF attempts
    <2>3. i \in Item
        BY <2>2, BackoffAssumption DEF Item
    <2>4. i # Absent
        BY <2>3, ItemsAreThere
    <2>5. store' = [store EXCEPT ![tab[t].item] = i]
        BY <1>5 DEF attempts
    <2> HIDE DEF i
    <2> QED
        BY <1>2, <1>3, <1>5, <2>1, <2>3, <2>4, <2>5, StoreMoves DEF TypeOK
<1> QED
    BY <1>1, <1>4, <1>5 DEF PutBack

LEMMA RefreshCountsKeeps ==
    ASSUME QueueInv, NEW t \in Tabs, RefreshCounts(t)
    PROVE  QueueInv'
<1>1. TypeOK /\ tab[t] \in Uploader
    BY TabType DEF QueueInv
<1>2. UNCHANGED <<event, over, kept, late, several, taken, written, store, dropped, reloads>>
    BY DEF RefreshCounts, server, history
<1>3. PICK v \in Uploader : Becomes(t, v) /\ v.pc \in {"schedule", "idle"}
    <2> DEFINE w == [tab[t] EXCEPT !.shown = Counts, !.timer = Off,
                         !.pc = IF tab[t].mounted THEN "schedule" ELSE "idle"]
               x == [tab[t] EXCEPT !.pc = "idle"]
    <2>1. w \in Uploader /\ w.pc \in {"schedule", "idle"}
        BY <1>1, CountsType, Values DEF Uploader, Steps
    <2>2. x \in Uploader /\ x.pc = "idle"
        BY <1>1 DEF Uploader, Steps
    <2>3. Becomes(t, w) \/ Becomes(t, x)
        BY DEF RefreshCounts
    <2> HIDE DEF w, x
    <2> QED
        BY <2>1, <2>2, <2>3
<1>4. faults' \subseteq MayFail
    BY <1>1, FailsType DEF RefreshCounts, TypeOK
<1> QED
    BY <1>1, <1>2, <1>3, <1>4, StoreStands DEF TypeOK, Settling

LEMMA ScheduleNextRetryKeeps ==
    ASSUME QueueInv, NEW t \in Tabs, ScheduleNextRetry(t)
    PROVE  QueueInv'
<1>1. TypeOK /\ tab[t] \in Uploader
    BY TabType DEF QueueInv
<1>2. UNCHANGED <<event, over, kept, late, several, taken, written, store, dropped, reloads>>
    BY DEF ScheduleNextRetry, server, history
<1>3. PICK delay \in Timers \cup {tab[t].timer} :
          Becomes(t, [tab[t] EXCEPT !.pc = "idle", !.timer = delay])
    <2>1. CASE Becomes(t, [tab[t] EXCEPT !.pc = "idle"])
        <3>1. [tab[t] EXCEPT !.pc = "idle"]
                  = [tab[t] EXCEPT !.pc = "idle", !.timer = tab[t].timer]
            BY <1>1 DEF Uploader
        <3> QED
            BY <2>1, <3>1
    <2>2. CASE \E delay \in Soonest(Pending) :
                   Becomes(t, [tab[t] EXCEPT !.pc = "idle", !.timer = delay])
        BY <1>1, <2>2, SoonestType
    <2> QED
        BY <2>1, <2>2 DEF ScheduleNextRetry
<1> DEFINE v == [tab[t] EXCEPT !.pc = "idle", !.timer = delay]
<1>4. v \in Uploader /\ v.pc = "idle" /\ Becomes(t, v)
    BY <1>1, <1>3 DEF Uploader, Steps
<1> HIDE DEF v
<1>5. faults' \subseteq MayFail
    BY <1>1, FailsType DEF ScheduleNextRetry, TypeOK
<1> QED
    BY <1>1, <1>2, <1>4, <1>5, StoreStands DEF TypeOK, Settling

LEMMA TickKeeps ==
    ASSUME QueueInv, Tick
    PROVE  QueueInv'
<1>1. TypeOK /\ UNCHANGED <<event, over, kept, late, several, taken, written, dropped,
                            faults, reloads>>
    BY DEF Tick, server, history, QueueInv
<1>2. store' \in [Captures -> Item \cup {Absent}]
      /\ \A c \in Captures : store'[c] = Absent <=> store[c] = Absent
    <2>1. ASSUME NEW c \in Stored
          PROVE  [store[c] EXCEPT !.wait = Sooner(@)] \in Item
        <3>1. store[c] \in Item
            BY <1>1, <2>1 DEF TypeOK, Stored
        <3>2. Sooner(store[c].wait) \in 0..MaxBackoff
            BY <3>1, BackoffAssumption DEF Item, Sooner
        <3> QED
            BY <3>1, <3>2 DEF Item
    <2>2. ASSUME NEW c \in Captures
          PROVE  /\ store'[c] \in Item \cup {Absent}
                 /\ store'[c] = Absent <=> store[c] = Absent
        <3>1. CASE c \in Stored
            <4> DEFINE i == [store[c] EXCEPT !.wait = Sooner(@)]
            <4>1. i \in Item /\ store'[c] = i
                BY <2>1, <3>1 DEF Tick
            <4> HIDE DEF i
            <4>2. i # Absent
                BY <4>1, ItemsAreThere
            <4> QED
                BY <3>1, <4>1, <4>2 DEF Stored
        <3>2. CASE c \notin Stored
            BY <3>2 DEF Tick, Stored
        <3> QED
            BY <3>1, <3>2
    <2>3. \E f : store' = [c \in Captures |-> f[c]]
        <3>1. store' = [c \in Captures |-> store'[c]]
            BY DEF Tick
        <3> QED
            BY <3>1
    <2> QED
        BY <2>2, <2>3
<1>3. tab' \in [Tabs -> Uploader]
      /\ \A t \in Tabs : tab'[t].pc = tab[t].pc /\ tab'[t].item = tab[t].item
    <2>1. ASSUME NEW t \in Tabs
          PROVE  LET u == [tab[t] EXCEPT !.timer = Sooner(@)] IN
                 u \in Uploader /\ u.pc = tab[t].pc /\ u.item = tab[t].item
        <3>1. tab[t] \in Uploader /\ tab[t].timer \in Timers
            BY TabType DEF Uploader
        <3>2. Sooner(tab[t].timer) \in Timers
            BY <3>1, BackoffAssumption DEF Sooner, Timers, Off
        <3> QED
            BY <3>1, <3>2 DEF Uploader
    <2> QED
        BY <2>1 DEF Tick
<1>4. TypeOK'
    BY <1>1, <1>2, <1>3 DEF TypeOK
<1>5. NothingLost'
    BY <1>1, <1>2 DEF QueueInv, NothingLost, Stored
<1>6. \A t \in Tabs : TabInv(t)'
    BY <1>1, <1>3 DEF QueueInv, TabInv
<1> QED
    BY <1>4, <1>5, <1>6 DEF QueueInv

LEMMA ReloadKeeps ==
    ASSUME QueueInv, NEW t \in Tabs, Reload(t)
    PROVE  QueueInv'
<1>1. TypeOK /\ TabInv(t)
    BY TabType DEF QueueInv
<1>2. /\ UNCHANGED <<event, over, kept, taken, written, store, dropped, faults>>
      /\ Becomes(t, Fresh) /\ reloads' \in 0..MaxReloads
    BY <1>1, BoundsAssumption DEF Reload, history, TypeOK
<1>3. late' \in [Captures -> 1..Never] /\ several' \subseteq Captures
    BY <1>1, TabType, GivesUpType DEF Reload, TypeOK, TabInv, Settling
<1>4. Fresh \in Uploader /\ Fresh.pc = "idle"
    BY FreshType DEF Fresh
<1> QED
    BY <1>1, <1>2, <1>3, <1>4, StoreStands DEF TypeOK, Settling

LEMMA EventsKeep ==
    ASSUME QueueInv, EndEvent \/ NextEvent
    PROVE  QueueInv'
<1>1. UNCHANGED <<kept, late, several, taken, written, store, dropped, tab, faults,
                  reloads>>
    BY DEF EndEvent, NextEvent, history
<1>2. event' \in 1..MaxEvents /\ over' \in BOOLEAN
    <2>1. event \in 1..MaxEvents /\ over \in BOOLEAN
        BY DEF QueueInv, TypeOK
    <2>2. \/ event' = event
          \/ event < MaxEvents /\ event' = event + 1
        BY DEF EndEvent, NextEvent
    <2>3. over' \in BOOLEAN
        BY DEF EndEvent, NextEvent
    <2> QED
        BY <2>1, <2>2, <2>3, BoundsAssumption
<1> QED
    BY <1>1, <1>2 DEF QueueInv, TypeOK, NothingLost, Stored, TabInv

LEMMA InitQueueInv == Init => QueueInv
<1> SUFFICES ASSUME Init PROVE QueueInv
    OBVIOUS
<1>1. \A t \in Tabs : tab[t] = Fresh
    BY DEF Init
<1>2. TypeOK
    <2>1. event \in 1..MaxEvents /\ reloads \in 0..MaxReloads
        BY BoundsAssumption DEF Init
    <2>2. /\ over \in BOOLEAN /\ kept \subseteq (1..MaxEvents) \X Captures
          /\ written \subseteq Captures /\ dropped \subseteq Captures
          /\ faults \subseteq MayFail
        BY DEF Init
    <2>6. Never \in 1..Never
        BY BoundsAssumption DEF Never
    <2>3. taken \subseteq Captures
        BY DEF Init
    <2>4. store \in [Captures -> Item \cup {Absent}]
        BY DEF Init
    <2>5. tab \in [Tabs -> Uploader]
        BY FreshType DEF Init
    <2> QED
        BY <2>1, <2>2, <2>3, <2>4, <2>5, <2>6 DEF TypeOK, Init
<1>3. NothingLost /\ \A t \in Tabs : TabInv(t)
    BY <1>1 DEF Init, NothingLost, TabInv, Fresh, Settling
<1> QED
    BY <1>2, <1>3 DEF QueueInv

LEMMA QueueInvStep == QueueInv /\ [Next]_vars => QueueInv'
<1> SUFFICES ASSUME QueueInv, [Next]_vars PROVE QueueInv'
    OBVIOUS
<1>1. CASE Tick
    BY <1>1, TickKeeps
<1>2. CASE EndEvent \/ NextEvent
    BY <1>2, EventsKeep
<1>3. ASSUME NEW t \in Tabs, Run(t) PROVE QueueInv'
    BY <1>3, ReadDueKeeps, RemoveKeeps, DropKeeps, PutBackKeeps,
       RefreshCountsKeeps, ScheduleNextRetryKeeps, EnqueueKeeps,
       EnqueueCountsKeeps DEF Run, Settle
<1>4. ASSUME NEW t \in Tabs, User(t) PROVE QueueInv'
    BY <1>4, AskingKeeps, StopKeeps, ReloadKeeps, ShootKeeps DEF User
<1>5. ASSUME NEW t \in Tabs, Trigger(t) \/ RetryTimer(t) PROVE QueueInv'
    BY <1>5, AskingKeeps
<1>6. ASSUME NEW t \in Tabs, Store(t) \/ Reply(t) \/ NoReply(t) PROVE QueueInv'
    BY <1>6, StoreKeeps, ReplyKeeps, NoReplyKeeps
<1>7. CASE UNCHANGED vars
    BY <1>7 DEF vars, QueueInv, TypeOK, NothingLost, Stored, TabInv
<1>8. CASE StoreLate
    BY <1>8, StoreLateKeeps
<1> QED
    BY <1>1, <1>2, <1>3, <1>4, <1>5, <1>6, <1>7, <1>8 DEF Next

LEMMA QueueInvHolds == Spec => []QueueInv
BY InitQueueInv, QueueInvStep, PTL DEF Spec

-----------------------------------------------------------------------------
(* The theorems *)

(* Every variable of the phone's queue has its type: in particular no item  *)
(* is written to the store without its fields, and no backoff is negative   *)
(* or above MAX_BACKOFF_MS, however many tabs drain the store.              *)
THEOREM QueueTypeCorrect == Spec => []TypeOK
<1>1. QueueInv => TypeOK
    BY DEF QueueInv
<1> QED
    BY <1>1, QueueInvHolds, PTL

(* A capture that was written to IndexedDB stays there until the server has *)
(* it or has refused it with 423, with any number of tabs draining the same *)
(* store, and wherever a page is reloaded or an IndexedDB request fails     *)
(* (runDrain and handleFailure of uploader.ts).                             *)
THEOREM NoCaptureLost == Spec => []NothingLost
<1>1. QueueInv => NothingLost
    BY DEF QueueInv
<1> QED
    BY <1>1, QueueInvHolds, PTL
-----------------------------------------------------------------------------
(* The only tab.  No other drains its store, so what its drain has read is  *)
(* what the store holds.                                                    *)

OnlyTab == \A s, t \in Tabs : s = t

(* What is sent, or waits to be, is in the store as it was read; a capture  *)
(* that is being written was not written before.                            *)
HasRead(i) == i[1] \in Stored /\ i[2] = store[i[1]].attempts

OwnInv(t) ==
    /\ tab[t].pc \in Settling => HasRead(<<tab[t].item, tab[t].tries>>)
    /\ tab[t].pc \notin Settling => tab[t].todo = {}
    /\ \A i \in tab[t].todo : HasRead(i) /\ i[1] # tab[t].item
    /\ tab[t].storing \subseteq taken \ written
    /\ Stored \subseteq written /\ written \subseteq taken

(* ShownIsStored and TimerCoversQueue, from the finally block on.           *)
RestInv(t) ==
    "read" \notin faults =>
        /\ /\ \/ tab[t].pc = "schedule"
              \/ tab[t].pc = "idle" /\ tab[t].mounted
           /\ tab[t].counting = {}
           => tab[t].shown = Counts
        /\ tab[t].mounted /\ tab[t].pc = "idle" =>
              \A c \in Pending \ tab[t].counting :
                  tab[t].timer # Off /\ tab[t].timer <= store[c].wait

(* What the server has, or may yet come to have without the tab's knowing,  *)
(* of what is still in the store has been tried before, or has just been    *)
(* stored, or is about to be removed or put back.                           *)
Reached(c) ==
    late[c] <= MaxEvents \/ \E e \in 1..MaxEvents : <<e, c>> \in kept

TruthInv(t) ==
    reloads = 0 /\ "write" \notin faults =>
        \A c \in Captures :
            Reached(c) =>
                /\ c \in written
                /\ c \in Stored =>
                       \/ store[c].attempts > 0
                       \/ tab[t].pc = "send" /\ tab[t].stored /\ tab[t].item = c
                       \/ tab[t].pc \in {"remove", "retry"} /\ tab[t].item = c

OneInv(t) == OwnInv(t) /\ RestInv(t) /\ TruthInv(t)

LEMMA AskedFields ==
    ASSUME NEW u \in Uploader
    PROVE  LET v == Asked(u) IN
           /\ v \in Uploader /\ v.pc # "idle"
           /\ v.pc = u.pc \/ (u.pc = "idle" /\ v.pc = "read")
           /\ v.mounted = u.mounted /\ v.todo = u.todo /\ v.item = u.item
           /\ v.tries = u.tries /\ v.timer = u.timer /\ v.storing = u.storing
           /\ v.counting = u.counting /\ v.shown = u.shown
           /\ v.stored = u.stored
<1>1. CASE u.pc = "idle"
    <2>1. Asked(u) = [u EXCEPT !.pc = "read"]
        BY <1>1 DEF Asked
    <2> QED
        BY <1>1, <2>1 DEF Uploader, Steps
<1>2. CASE u.pc # "idle"
    <2> DEFINE v == [u EXCEPT !.again = TRUE]
    <2>1. Asked(u) = v
        BY <1>2 DEF Asked
    <2>2. /\ v \in Uploader /\ v.pc = u.pc
          /\ v.mounted = u.mounted /\ v.todo = u.todo /\ v.item = u.item
          /\ v.tries = u.tries /\ v.timer = u.timer /\ v.storing = u.storing
          /\ v.counting = u.counting /\ v.shown = u.shown
          /\ v.stored = u.stored
        BY DEF Uploader
    <2> HIDE DEF v
    <2> QED
        BY <1>2, <2>1, <2>2
<1> QED
    BY <1>1, <1>2

LEMMA ThrownFields ==
    ASSUME NEW u \in Uploader
    PROVE  LET v == Thrown(u) IN
           v \in Uploader /\ v.pc = "counts" /\ v.todo = {} /\ v.storing = u.storing
BY Values DEF Thrown, Uploader, Steps

LEMMA SameStore ==
    ASSUME store' = store
    PROVE  /\ Stored' = Stored /\ Pending' = Pending /\ Counts' = Counts
           /\ \A i : HasRead(i)' <=> HasRead(i)
BY DEF Stored, Pending, Counts, HasRead

LEMMA SameReach ==
    ASSUME UNCHANGED <<kept, late>>
    PROVE  \A c : Reached(c)' <=> Reached(c)
BY DEF Reached

(* A step that leaves the store, and what the drain has read of it, alone,  *)
(* or forgets what it has read.                                             *)
LEMMA OwnStands ==
    ASSUME QueueInv, NEW t \in Tabs, OwnInv(t), NEW v \in Uploader, Becomes(t, v),
           UNCHANGED <<store, written>>,
           \/ v.pc \notin Settling /\ v.todo = {}
           \/ /\ v.pc \in Settling <=> tab[t].pc \in Settling
              /\ v.todo = tab[t].todo /\ v.item = tab[t].item
              /\ v.tries = tab[t].tries,
           taken \subseteq taken', v.storing \subseteq tab[t].storing \cup (taken' \ taken)
    PROVE  OwnInv(t)' /\ tab'[t] = v
<1>1. tab'[t] = v
    BY BecomesType DEF QueueInv
<1> QED
    BY <1>1, SameStore DEF OwnInv

(* The loop goes on with what is left to be sent.                           *)
LEMMA OwnGoesOn ==
    ASSUME QueueInv, NEW t \in Tabs, OwnInv(t), NEW u \in Uploader,
           NEW v \in GoneOn(u), Becomes(t, v), u.storing = tab[t].storing,
           \A i \in u.todo : HasRead(i)',
           Stored' \subseteq written', UNCHANGED <<taken, written>>
    PROVE  OwnInv(t)' /\ tab'[t] = v /\ v.pc \in {"send", "read", "counts"}
<1>1. /\ v \in Uploader /\ v.storing = u.storing
      /\ \/ v.pc \in {"read", "counts"} /\ v.todo = {}
         \/ \E i \in u.todo :
               /\ v.pc = "send" /\ v.item = i[1] /\ v.tries = i[2]
               /\ v.todo = u.todo \ {i}
    BY GoneOnFields DEF QueueInv
<1>2. tab'[t] = v
    BY <1>1, BecomesType DEF QueueInv
<1>3. CASE v.pc \in {"read", "counts"} /\ v.todo = {}
    BY <1>1, <1>2, <1>3 DEF OwnInv, Settling
<1>4. ASSUME NEW i \in u.todo, v.pc = "send", v.item = i[1], v.tries = i[2],
             v.todo = u.todo \ {i}
      PROVE  OwnInv(t)'
    <2>1. \A j \in u.todo : j = <<j[1], j[2]>>
        BY DEF Uploader, Todos
    <2>2. \A j \in v.todo : HasRead(j)' /\ j[1] # i[1]
        BY <1>4, <2>1 DEF HasRead
    <2>3. HasRead(<<v.item, v.tries>>)'
        BY <1>4, <2>1
    <2> QED
        BY <1>1, <1>2, <1>4, <2>2, <2>3 DEF OwnInv, Settling
<1> QED
    BY <1>1, <1>2, <1>3, <1>4

LEMMA AskingOne ==
    ASSUME QueueInv, NEW t \in Tabs, OneInv(t),
           Start(t) \/ Trigger(t) \/ RetryTimer(t)
    PROVE  OneInv(t)'
<1>1. PICK u \in Uploader :
          /\ Becomes(t, Asked(u)) /\ u.pc = tab[t].pc /\ u.item = tab[t].item
          /\ u.todo = tab[t].todo /\ u.tries = tab[t].tries
          /\ u.storing = tab[t].storing /\ u.counting = tab[t].counting
          /\ u.shown = tab[t].shown /\ u.stored = tab[t].stored
    <2>1. CASE Start(t)
        <3> DEFINE w == [tab[t] EXCEPT !.mounted = TRUE]
        <3>1. /\ w \in Uploader /\ w.pc = tab[t].pc /\ w.item = tab[t].item
              /\ w.todo = tab[t].todo /\ w.tries = tab[t].tries
              /\ w.storing = tab[t].storing /\ w.counting = tab[t].counting
              /\ w.shown = tab[t].shown /\ w.stored = tab[t].stored
            BY TabType DEF Uploader
        <3>2. Becomes(t, Asked(w))
            BY <2>1 DEF Start
        <3> HIDE DEF w
        <3> QED
            BY <3>1, <3>2
    <2>2. CASE Trigger(t)
        BY <2>2, TabType DEF Trigger
    <2>3. CASE RetryTimer(t)
        <3> DEFINE w == [tab[t] EXCEPT !.timer = Off]
        <3>1. /\ w \in Uploader /\ w.pc = tab[t].pc /\ w.item = tab[t].item
              /\ w.todo = tab[t].todo /\ w.tries = tab[t].tries
              /\ w.storing = tab[t].storing /\ w.counting = tab[t].counting
              /\ w.shown = tab[t].shown /\ w.stored = tab[t].stored
            BY TabType, Values DEF Uploader
        <3>2. Becomes(t, Asked(w))
            BY <2>3 DEF RetryTimer
        <3> HIDE DEF w
        <3> QED
            BY <3>1, <3>2
    <2> QED
        BY <2>1, <2>2, <2>3
<1> DEFINE v == Asked(u)
<1>2. /\ v \in Uploader /\ v.pc # "idle"
      /\ v.pc = u.pc \/ (u.pc = "idle" /\ v.pc = "read")
      /\ v.todo = u.todo /\ v.item = u.item /\ v.tries = u.tries
      /\ v.storing = u.storing /\ v.counting = u.counting /\ v.shown = u.shown
      /\ v.stored = u.stored
    BY AskedFields
<1>3. UNCHANGED <<kept, late, several, taken, written, store, faults, reloads>> /\ Becomes(t, v)
    BY <1>1 DEF Start, Trigger, RetryTimer, server, history
<1> HIDE DEF v
<1>4. OwnInv(t)' /\ tab'[t] = v
    BY <1>1, <1>2, <1>3, OwnStands DEF OneInv, Settling
<1>5. RestInv(t)'
    BY <1>1, <1>2, <1>3, <1>4, SameStore DEF OneInv, RestInv
<1>6. TruthInv(t)'
    BY <1>1, <1>2, <1>3, <1>4, SameStore, SameReach DEF OneInv, TruthInv
<1> QED
    BY <1>4, <1>5, <1>6 DEF OneInv

LEMMA StopOne ==
    ASSUME QueueInv, NEW t \in Tabs, OneInv(t), Stop(t)
    PROVE  OneInv(t)'
<1> DEFINE v == [tab[t] EXCEPT !.mounted = FALSE, !.timer = Off]
<1>1. /\ v \in Uploader /\ v.pc = tab[t].pc /\ v.item = tab[t].item
      /\ v.todo = tab[t].todo /\ v.tries = tab[t].tries /\ ~v.mounted
      /\ v.storing = tab[t].storing /\ v.counting = tab[t].counting
      /\ v.shown = tab[t].shown /\ v.stored = tab[t].stored
    BY TabType, Values DEF Uploader
<1>2. UNCHANGED <<kept, late, several, taken, written, store, faults, reloads>> /\ Becomes(t, v)
    BY DEF Stop, server, history
<1> HIDE DEF v
<1>3. OwnInv(t)' /\ tab'[t] = v
    BY <1>1, <1>2, OwnStands DEF OneInv
<1>4. RestInv(t)'
    BY <1>1, <1>2, <1>3, SameStore DEF OneInv, RestInv
<1>5. TruthInv(t)'
    BY <1>1, <1>2, <1>3, SameStore, SameReach DEF OneInv, TruthInv
<1> QED
    BY <1>3, <1>4, <1>5 DEF OneInv

LEMMA ShootOne ==
    ASSUME QueueInv, NEW t \in Tabs, OneInv(t), NEW c \in Captures, Shoot(t, c)
    PROVE  OneInv(t)'
<1> DEFINE v == [tab[t] EXCEPT !.storing = @ \cup {c}]
<1>1. /\ v \in Uploader /\ v.pc = tab[t].pc /\ v.item = tab[t].item
      /\ v.todo = tab[t].todo /\ v.tries = tab[t].tries
      /\ v.mounted = tab[t].mounted /\ v.timer = tab[t].timer
      /\ v.storing = tab[t].storing \cup {c} /\ v.counting = tab[t].counting
      /\ v.shown = tab[t].shown /\ v.stored = tab[t].stored
    BY TabType DEF Uploader
<1>2. /\ UNCHANGED <<kept, late, several, written, store, faults, reloads>> /\ Becomes(t, v)
      /\ taken' = taken \cup {c} /\ c \notin taken
    BY DEF Shoot, server
<1> HIDE DEF v
<1>3. OwnInv(t)' /\ tab'[t] = v
    BY <1>1, <1>2, OwnStands DEF OneInv
<1>4. RestInv(t)'
    BY <1>1, <1>2, <1>3, SameStore DEF OneInv, RestInv
<1>5. TruthInv(t)'
    BY <1>1, <1>2, <1>3, SameStore, SameReach DEF OneInv, TruthInv
<1> QED
    BY <1>3, <1>4, <1>5 DEF OneInv

LEMMA EnqueueOne ==
    ASSUME QueueInv, NEW t \in Tabs, OneInv(t), NEW c \in Captures, Enqueue(t, c)
    PROVE  OneInv(t)'
<1>1. TypeOK /\ tab[t] \in Uploader
    BY TabType DEF QueueInv
<1>2. UNCHANGED <<kept, late, several, taken, reloads>> /\ c \in tab[t].storing
    BY DEF Enqueue, server
<1>3. CASE /\ Fails("write") /\ UNCHANGED <<store, written>>
           /\ Becomes(t, [tab[t] EXCEPT !.storing = @ \ {c}])
    <2> DEFINE v == [tab[t] EXCEPT !.storing = @ \ {c}]
    <2>1. /\ v \in Uploader /\ v.pc = tab[t].pc /\ v.item = tab[t].item
          /\ v.todo = tab[t].todo /\ v.tries = tab[t].tries
          /\ v.mounted = tab[t].mounted /\ v.timer = tab[t].timer
          /\ v.storing = tab[t].storing \ {c} /\ v.counting = tab[t].counting
          /\ v.shown = tab[t].shown /\ v.stored = tab[t].stored
        BY <1>1 DEF Uploader
    <2>2. Becomes(t, v) /\ faults' = faults \cup {"write"}
        BY <1>3 DEF Fails
    <2> HIDE DEF v
    <2>3. OwnInv(t)' /\ tab'[t] = v
        BY <1>2, <1>3, <2>1, <2>2, OwnStands DEF OneInv
    <2>4. RestInv(t)'
        BY <1>3, <2>1, <2>2, <2>3, SameStore DEF OneInv, RestInv
    <2>5. TruthInv(t)'
        BY <2>2 DEF TruthInv
    <2> QED
        BY <2>3, <2>4, <2>5 DEF OneInv
<1>4. CASE /\ store' = [store EXCEPT ![c] =
                          [attempts |-> 0, wait |-> 0, failed |-> FALSE]]
           /\ written' = written \cup {c} /\ UNCHANGED faults
           /\ Becomes(t, [tab[t] EXCEPT !.storing = @ \ {c},
                                        !.counting = @ \cup {c}])
    <2> DEFINE v == [tab[t] EXCEPT !.storing = @ \ {c},
                                   !.counting = @ \cup {c}]
    <2>1. /\ v \in Uploader /\ v.pc = tab[t].pc /\ v.item = tab[t].item
          /\ v.todo = tab[t].todo /\ v.tries = tab[t].tries
          /\ v.mounted = tab[t].mounted /\ v.timer = tab[t].timer
          /\ v.storing = tab[t].storing \ {c}
          /\ v.counting = tab[t].counting \cup {c}
          /\ v.stored = tab[t].stored
        BY <1>1 DEF Uploader
    <2>2. Becomes(t, v)
        BY <1>4
    <2> HIDE DEF v
    <2>3. tab'[t] = v
        BY <1>1, <2>1, <2>2, BecomesType
    <2>4. c \notin written /\ c \in taken /\ c \notin Stored
        BY <1>2 DEF OneInv, OwnInv
    <2>5. \A d \in Captures \ {c} : store'[d] = store[d]
        BY <1>1, <1>4 DEF TypeOK
    <2>6. Stored' \subseteq Stored \cup {c} /\ Pending' \subseteq Pending \cup {c}
        BY <2>5 DEF Stored, Pending
    <2>7. \A i : HasRead(i) => HasRead(i)'
        BY <2>4, <2>5 DEF HasRead, Stored
    <2>8. OwnInv(t)'
        BY <1>2, <1>4, <2>1, <2>3, <2>4, <2>6, <2>7 DEF OneInv, OwnInv
    <2>9. RestInv(t)'
        BY <1>4, <2>1, <2>3, <2>5, <2>6 DEF OneInv, RestInv, Pending, Stored
    <2>10. TruthInv(t)'
        BY <1>2, <1>4, <2>1, <2>3, <2>4, <2>5, <2>6, SameReach DEF OneInv, TruthInv
    <2> QED
        BY <2>8, <2>9, <2>10 DEF OneInv
<1> QED
    BY <1>3, <1>4 DEF Enqueue

LEMMA EnqueueCountsOne ==
    ASSUME QueueInv, NEW t \in Tabs, OneInv(t), NEW c \in Captures,
           EnqueueCounts(t, c)
    PROVE  OneInv(t)'
<1>1. TypeOK /\ tab[t] \in Uploader
    BY TabType DEF QueueInv
<1>2. UNCHANGED <<kept, late, several, taken, written, store, reloads>>
    BY DEF EnqueueCounts, server, history
<1>3. CASE /\ Fails("read")
           /\ Becomes(t, [tab[t] EXCEPT !.counting = @ \ {c}])
    <2> DEFINE v == [tab[t] EXCEPT !.counting = @ \ {c}]
    <2>1. /\ v \in Uploader /\ v.pc = tab[t].pc /\ v.item = tab[t].item
          /\ v.todo = tab[t].todo /\ v.tries = tab[t].tries
          /\ v.storing = tab[t].storing /\ v.stored = tab[t].stored
        BY <1>1 DEF Uploader
    <2>2. Becomes(t, v) /\ faults' = faults \cup {"read"}
        BY <1>3 DEF Fails
    <2> HIDE DEF v
    <2>3. OwnInv(t)' /\ tab'[t] = v
        BY <1>2, <2>1, <2>2, OwnStands DEF OneInv
    <2>4. RestInv(t)'
        BY <2>2 DEF RestInv
    <2>5. TruthInv(t)'
        BY <1>2, <2>1, <2>2, <2>3, SameStore, SameReach DEF OneInv, TruthInv
    <2> QED
        BY <2>3, <2>4, <2>5 DEF OneInv
<1>4. CASE /\ Becomes(t, Asked([tab[t] EXCEPT !.counting = @ \ {c},
                                              !.shown = Counts]))
           /\ UNCHANGED faults
    <2> DEFINE u == [tab[t] EXCEPT !.counting = @ \ {c}, !.shown = Counts]
               v == Asked(u)
    <2>1. /\ u \in Uploader /\ u.pc = tab[t].pc /\ u.item = tab[t].item
          /\ u.todo = tab[t].todo /\ u.tries = tab[t].tries
          /\ u.storing = tab[t].storing /\ u.shown = Counts
          /\ u.stored = tab[t].stored
        BY <1>1, CountsType DEF Uploader
    <2>2. Becomes(t, v)
        BY <1>4
    <2> HIDE DEF u
    <2>3. /\ v \in Uploader /\ v.pc # "idle"
          /\ v.pc = u.pc \/ (u.pc = "idle" /\ v.pc = "read")
          /\ v.todo = u.todo /\ v.item = u.item /\ v.tries = u.tries
          /\ v.storing = u.storing /\ v.shown = u.shown
          /\ v.stored = u.stored
        BY <2>1, AskedFields
    <2> HIDE DEF v
    <2>4. OwnInv(t)' /\ tab'[t] = v
        BY <1>2, <2>1, <2>2, <2>3, OwnStands DEF OneInv, Settling
    <2>5. RestInv(t)'
        BY <1>2, <2>1, <2>3, <2>4, SameStore DEF RestInv
    <2>6. TruthInv(t)'
        BY <1>2, <1>4, <2>1, <2>3, <2>4, SameStore, SameReach DEF OneInv, TruthInv
    <2> QED
        BY <2>4, <2>5, <2>6 DEF OneInv
<1> QED
    BY <1>3, <1>4 DEF EnqueueCounts

LEMMA ReadDueOne ==
    ASSUME QueueInv, NEW t \in Tabs, OneInv(t), ReadDue(t)
    PROVE  OneInv(t)'
<1>1. TypeOK /\ tab[t] \in Uploader /\ tab[t].pc = "read"
    BY TabType DEF QueueInv, ReadDue
<1>2. UNCHANGED <<kept, late, several, taken, written, store, reloads>>
    BY DEF ReadDue, server, history
<1>3. ASSUME NEW v \in Uploader, OwnInv(t)', tab'[t] = v,
             v.pc \in {"send", "read", "counts"},
             UNCHANGED faults \/ faults' = faults \cup {"read"}
      PROVE  OneInv(t)'
    <2>1. RestInv(t)'
        BY <1>3 DEF RestInv
    <2>2. TruthInv(t)'
        BY <1>1, <1>2, <1>3, SameStore, SameReach DEF OneInv, TruthInv
    <2> QED
        BY <1>3, <2>1, <2>2 DEF OneInv
<1>4. CASE Fails("read") /\ Becomes(t, Thrown([tab[t] EXCEPT !.again = FALSE]))
    <2> DEFINE u == [tab[t] EXCEPT !.again = FALSE]
               v == Thrown(u)
    <2>1. u \in Uploader /\ u.storing = tab[t].storing
        BY <1>1 DEF Uploader
    <2>2. Becomes(t, v) /\ faults' = faults \cup {"read"}
        BY <1>4 DEF Fails
    <2> HIDE DEF u
    <2>3. /\ v \in Uploader /\ v.pc = "counts" /\ v.todo = {}
          /\ v.storing = u.storing
        BY <2>1, ThrownFields
    <2> HIDE DEF v
    <2>4. OwnInv(t)' /\ tab'[t] = v
        BY <1>2, <2>1, <2>2, <2>3, OwnStands DEF OneInv, Settling
    <2> QED
        BY <1>3, <2>2, <2>3, <2>4
<1>5. CASE /\ \E u \in GoneOn([tab[t] EXCEPT !.again = FALSE,
                            !.todo = {<<c, store[c].attempts>> : c \in Due}]) :
                     Becomes(t, u)
           /\ UNCHANGED faults
    <2> DEFINE todo == {<<c, store[c].attempts>> : c \in Due}
               u == [tab[t] EXCEPT !.again = FALSE, !.todo = todo]
    <2>1. todo \in Todos
        BY <1>1 DEF Due, Pending, Stored, Todos, TypeOK, Item, Absent
    <2>2. \A i \in todo : HasRead(i)
        BY DEF Due, Pending, HasRead
    <2> HIDE DEF todo
    <2>3. u \in Uploader /\ u.storing = tab[t].storing /\ u.todo = todo
        BY <1>1, <2>1 DEF Uploader
    <2>4. \E v \in GoneOn(u) : Becomes(t, v)
        BY <1>5 DEF todo
    <2> HIDE DEF u
    <2>5. PICK v \in GoneOn(u) : Becomes(t, v)
        BY <2>4
    <2>6. (\A i \in u.todo : HasRead(i)') /\ Stored' \subseteq written'
        BY <1>2, <2>2, <2>3, SameStore DEF OneInv, OwnInv
    <2>7. OwnInv(t)' /\ tab'[t] = v /\ v.pc \in {"send", "read", "counts"}
        BY <1>2, <2>3, <2>5, <2>6, OwnGoesOn DEF OneInv
    <2>8. v \in Uploader
        BY <1>1, <2>3, <2>5, GoneOnFields
    <2> QED
        BY <1>3, <1>5, <2>7, <2>8
<1> QED
    BY <1>4, <1>5 DEF ReadDue

(* A step that lets the server come to have no more than what is sent.      *)
LEMMA TruthMoves ==
    ASSUME QueueInv, NEW t \in Tabs, OneInv(t), tab[t].pc = "send",
           UNCHANGED <<written, store, faults, reloads>>,
           \A c \in Captures : Reached(c)' => Reached(c) \/ c = tab[t].item,
           tab'[t].item = tab[t].item,
           \/ tab'[t].pc = "send" /\ tab'[t].stored
           \/ tab'[t].pc \in {"remove", "retry"}
           \/ ~tab[t].stored /\ \A c \in Captures : Reached(c)' => Reached(c)
    PROVE  TruthInv(t)'
<1> SUFFICES ASSUME reloads = 0, "write" \notin faults, NEW c \in Captures,
                    Reached(c)'
             PROVE  /\ c \in written
                    /\ c \in Stored =>
                          \/ store[c].attempts > 0
                          \/ /\ tab'[t].pc = "send" /\ tab'[t].stored
                             /\ tab'[t].item = c
                          \/ /\ tab'[t].pc \in {"remove", "retry"}
                             /\ tab'[t].item = c
    BY SameStore, SameReach DEF TruthInv, Reached
<1>1. tab[t].item \in written
    BY DEF OneInv, OwnInv, HasRead, Settling
<1>2. CASE Reached(c)
    <2>1. /\ c \in written
          /\ c \in Stored => \/ store[c].attempts > 0
                             \/ tab[t].stored /\ tab[t].item = c
        BY <1>2 DEF OneInv, TruthInv
    <2> QED
        BY <2>1
<1>3. CASE ~Reached(c)
    BY <1>1, <1>3
<1> QED
    BY <1>2, <1>3

LEMMA ReplyOne ==
    ASSUME QueueInv, NEW t \in Tabs, OneInv(t), Reply(t)
    PROVE  OneInv(t)'
<1>1. TypeOK /\ tab[t] \in Uploader /\ tab[t].pc = "send"
    BY TabType DEF QueueInv, Reply
<1>2. UNCHANGED <<kept, late, several, taken, written, store, faults, reloads>>
    BY DEF Reply, server, history
<1>3. PICK p \in {"drop", "fail", "remove"} :
          /\ Becomes(t, Answered(tab[t], p))
          /\ p # "remove" => ~tab[t].stored
    BY DEF Reply
<1> DEFINE v == Answered(tab[t], p)
<1>4. /\ v \in Uploader /\ v.pc = p /\ v.item = tab[t].item
      /\ v.todo = tab[t].todo /\ v.tries = tab[t].tries
      /\ v.storing = tab[t].storing /\ Becomes(t, v)
    BY <1>1, <1>3, AnsweredFields DEF Steps
<1> HIDE DEF v
<1>5. OwnInv(t)' /\ tab'[t] = v
    BY <1>1, <1>2, <1>3, <1>4, OwnStands DEF OneInv, Settling
<1>6. RestInv(t)'
    BY <1>3, <1>4, <1>5 DEF RestInv
<1>7. \A c \in Captures : Reached(c)' => Reached(c)
    BY <1>2 DEF Reached
<1>8. TruthInv(t)'
    BY <1>1, <1>2, <1>3, <1>4, <1>5, <1>7, TruthMoves
<1> QED
    BY <1>5, <1>6, <1>8 DEF OneInv

LEMMA NoReplyOne ==
    ASSUME QueueInv, NEW t \in Tabs, OneInv(t), NoReply(t)
    PROVE  OneInv(t)'
<1>1. /\ TypeOK /\ tab[t] \in Uploader /\ tab[t].pc = "send"
      /\ tab[t].item \in Captures
    BY TabType DEF QueueInv, NoReply, TabInv, Settling
<1>2. UNCHANGED <<kept, taken, written, store, faults, reloads>>
    BY DEF NoReply, history
<1> DEFINE v == Answered(tab[t], "retry")
<1>3. /\ v \in Uploader /\ v.pc = "retry" /\ v.item = tab[t].item
      /\ v.todo = tab[t].todo /\ v.tries = tab[t].tries
      /\ v.storing = tab[t].storing /\ Becomes(t, v)
    BY <1>1, AnsweredFields DEF Steps, NoReply
<1> HIDE DEF v
<1>4. OwnInv(t)' /\ tab'[t] = v
    BY <1>1, <1>2, <1>3, OwnStands DEF OneInv, Settling
<1>5. RestInv(t)'
    BY <1>3, <1>4 DEF RestInv
<1>6. \A c \in Captures : Reached(c)' => Reached(c) \/ c = tab[t].item
    BY <1>1, <1>2, GivesUpType DEF Reached, NoReply
<1>7. TruthInv(t)'
    BY <1>1, <1>2, <1>3, <1>4, <1>6, TruthMoves
<1> QED
    BY <1>4, <1>5, <1>7 DEF OneInv

LEMMA StoreOne ==
    ASSUME QueueInv, NEW t \in Tabs, OneInv(t), Store(t)
    PROVE  OneInv(t)'
<1>1. TypeOK /\ tab[t] \in Uploader /\ tab[t].pc = "send"
    BY TabType DEF QueueInv, Store
<1>2. UNCHANGED <<late, several, taken, written, store, faults, reloads>>
    BY DEF Store, history
<1> DEFINE v == [tab[t] EXCEPT !.stored = TRUE]
<1>3. /\ v \in Uploader /\ v.pc = "send" /\ v.item = tab[t].item
      /\ v.todo = tab[t].todo /\ v.tries = tab[t].tries
      /\ v.storing = tab[t].storing /\ v.stored /\ Becomes(t, v)
    BY <1>1 DEF Uploader, Store
<1> HIDE DEF v
<1>4. OwnInv(t)' /\ tab'[t] = v
    BY <1>1, <1>2, <1>3, OwnStands DEF OneInv, Settling
<1>5. RestInv(t)'
    BY <1>3, <1>4 DEF RestInv
<1>6. \A c \in Captures : Reached(c)' => Reached(c) \/ c = tab[t].item
    BY <1>2 DEF Reached, Store
<1>7. TruthInv(t)'
    BY <1>1, <1>2, <1>3, <1>4, <1>6, TruthMoves
<1> QED
    BY <1>4, <1>5, <1>7 DEF OneInv

LEMMA StoreLateOne ==
    ASSUME QueueInv, NEW t \in Tabs, OneInv(t), StoreLate
    PROVE  OneInv(t)'
<1>1. UNCHANGED <<taken, written, store, tab, faults, reloads>>
    BY DEF StoreLate, history
<1>2. PICK d \in Captures :
          /\ \E e \in late[d]..event : kept' = kept \cup {<<e, d>>}
          /\ late' = Spent(d)
    BY DEF StoreLate
<1>3. ASSUME NEW c \in Captures, Reached(c)'
      PROVE  Reached(c)
    <2>1. PICK e \in late[d]..event : kept' = kept \cup {<<e, d>>}
        BY <1>2
    <2>2. late[d] \in 1..Never /\ event \in 1..MaxEvents
        BY DEF QueueInv, TypeOK
    <2>3. late[d] <= MaxEvents
        BY <2>2, BoundsAssumption DEF Never
    <2>4. c # d => late'[c] = late[c]
        BY <1>2, SpentType DEF QueueInv
    <2> QED
        BY <1>3, <2>1, <2>3, <2>4 DEF Reached
<1>4. OwnInv(t)' /\ RestInv(t)'
    BY <1>1, SameStore DEF OneInv, OwnInv, RestInv
<1>5. TruthInv(t)'
    BY <1>1, <1>3, SameStore DEF OneInv, TruthInv
<1> QED
    BY <1>4, <1>5 DEF OneInv

(* The store changes for the item that was sent, and the loop goes on.      *)
LEMMA SettledOne ==
    ASSUME QueueInv, NEW t \in Tabs, OneInv(t), tab[t].pc \in Settling,
           \E u \in GoneOn(tab[t]) : Becomes(t, u),
           NEW i \in Item \cup {Absent},
           store' = [store EXCEPT ![tab[t].item] = i],
           i # Absent => i.attempts > 0,
           UNCHANGED <<kept, late, several, taken, written, faults, reloads>>
    PROVE  OneInv(t)'
<1>1. TypeOK /\ tab[t] \in Uploader /\ tab[t].item \in Captures
    BY TabType DEF QueueInv, TabInv
<1>2. /\ tab[t].item \in Stored /\ Stored \subseteq written
      /\ \A j \in tab[t].todo : HasRead(j) /\ j[1] # tab[t].item
    BY DEF OneInv, OwnInv, HasRead
<1>3. \A c \in Captures \ {tab[t].item} : store'[c] = store[c]
    BY <1>1 DEF TypeOK
<1>4. store'[tab[t].item] = i
    BY <1>1 DEF TypeOK
<1>5. Stored' \subseteq Stored
    BY <1>2, <1>3 DEF Stored
<1>6. \A j \in tab[t].todo : HasRead(j)'
    BY <1>2, <1>3 DEF HasRead, Stored
<1>7. PICK v \in GoneOn(tab[t]) : Becomes(t, v)
    OBVIOUS
<1>8. OwnInv(t)' /\ tab'[t] = v /\ v.pc \in {"send", "read", "counts"}
    BY <1>1, <1>2, <1>5, <1>6, <1>7, OwnGoesOn DEF OneInv
<1>9. RestInv(t)'
    BY <1>8 DEF RestInv
<1>10. TruthInv(t)'
    <2> SUFFICES ASSUME reloads = 0, "write" \notin faults,
                        NEW c \in Captures, Reached(c)
                 PROVE  /\ c \in written
                        /\ c \in Stored' => store'[c].attempts > 0
        BY DEF TruthInv, Reached
    <2>1. c \in written
        BY DEF OneInv, TruthInv
    <2>2. CASE c = tab[t].item
        BY <1>4, <2>1, <2>2 DEF Stored
    <2>3. CASE c # tab[t].item
        BY <1>3, <1>5, <2>1, <2>3 DEF OneInv, TruthInv
    <2> QED
        BY <2>1, <2>2, <2>3
<1> QED
    BY <1>8, <1>9, <1>10 DEF OneInv

(* A write fails, and the drain goes where it will not look for the item.   *)
LEMMA UnwrittenOne ==
    ASSUME QueueInv, NEW t \in Tabs, OneInv(t), Fails("write"),
           NEW v \in Uploader, Becomes(t, v),
           \/ v.pc = "counts" /\ v.todo = {}
           \/ /\ v.pc = "retry" /\ tab[t].pc \in Settling /\ v.todo = tab[t].todo
              /\ v.item = tab[t].item /\ v.tries = tab[t].tries,
           v.storing = tab[t].storing, UNCHANGED <<taken, written, store>>
    PROVE  OneInv(t)'
<1>1. OwnInv(t)' /\ tab'[t] = v
    BY OwnStands DEF OneInv, Settling
<1>2. RestInv(t)'
    BY <1>1 DEF RestInv
<1>3. TruthInv(t)'
    BY DEF TruthInv, Fails
<1> QED
    BY <1>1, <1>2, <1>3 DEF OneInv

LEMMA RemoveOne ==
    ASSUME QueueInv, NEW t \in Tabs, OneInv(t), Remove(t)
    PROVE  OneInv(t)'
<1>1. TypeOK /\ tab[t] \in Uploader /\ tab[t].pc = "remove"
    BY TabType DEF QueueInv, Remove
<1>2. UNCHANGED <<kept, late, several, taken, written, reloads>>
    BY DEF Remove, server, history
<1>3. CASE /\ Fails("write") /\ UNCHANGED store
           /\ Becomes(t, [tab[t] EXCEPT !.pc = "retry"])
    <2> DEFINE v == [tab[t] EXCEPT !.pc = "retry"]
    <2>1. /\ v \in Uploader /\ v.pc = "retry" /\ v.item = tab[t].item
          /\ v.todo = tab[t].todo /\ v.tries = tab[t].tries
          /\ v.storing = tab[t].storing
        BY <1>1 DEF Uploader, Steps
    <2>2. Becomes(t, v)
        BY <1>3
    <2> HIDE DEF v
    <2> QED
        BY <1>1, <1>2, <1>3, <2>1, <2>2, UnwrittenOne DEF Settling
<1>4. CASE /\ store' = [store EXCEPT ![tab[t].item] = Absent]
           /\ \E u \in GoneOn(tab[t]) : Becomes(t, u)
           /\ UNCHANGED faults
    BY <1>1, <1>2, <1>4, SettledOne DEF Settling
<1> QED
    BY <1>3, <1>4 DEF Remove

LEMMA DropOne ==
    ASSUME QueueInv, NEW t \in Tabs, OneInv(t), Drop(t)
    PROVE  OneInv(t)'
<1>1. TypeOK /\ tab[t] \in Uploader /\ tab[t].pc = "drop"
    BY TabType DEF QueueInv, Drop
<1>2. UNCHANGED <<kept, late, several, taken, written, reloads>>
    BY DEF Drop, server, history
<1>3. CASE /\ Fails("write") /\ Becomes(t, Thrown(tab[t])) /\ UNCHANGED store
    BY <1>1, <1>2, <1>3, ThrownFields, UnwrittenOne
<1>4. CASE /\ store' = [store EXCEPT ![tab[t].item] = Absent]
           /\ \E u \in GoneOn(tab[t]) : Becomes(t, u)
           /\ UNCHANGED faults
    BY <1>1, <1>2, <1>4, SettledOne DEF Settling
<1> QED
    BY <1>3, <1>4 DEF Drop

LEMMA PutBackOne ==
    ASSUME QueueInv, NEW t \in Tabs, OneInv(t), MarkFailed(t) \/ Retry(t)
    PROVE  OneInv(t)'
<1>1. PICK failed \in BOOLEAN : PutBack(t, failed)
    BY DEF MarkFailed, Retry
<1>2. TypeOK /\ tab[t] \in Uploader /\ tab[t].pc \in Settling
    BY TabType DEF QueueInv, Settling, MarkFailed, Retry
<1>3. UNCHANGED <<kept, late, several, taken, written, reloads>>
    BY <1>1 DEF PutBack, server, history
<1> DEFINE attempts == Lesser(tab[t].tries + 1, MaxAttempts)
           i == [attempts |-> attempts, failed |-> failed,
                 wait |-> IF failed THEN 0 ELSE Backoff(attempts)]
<1>4. CASE /\ Fails("write") /\ Becomes(t, Thrown(tab[t])) /\ UNCHANGED store
    BY <1>2, <1>3, <1>4, ThrownFields, UnwrittenOne
<1>5. CASE /\ store' = [store EXCEPT ![tab[t].item] = i]
           /\ \E u \in GoneOn(tab[t]) : Becomes(t, u)
           /\ UNCHANGED faults
    <2>1. attempts \in 1..MaxAttempts /\ Backoff(attempts) \in 0..MaxBackoff
        BY <1>2, BackoffType DEF Uploader
    <2> HIDE DEF attempts
    <2>2. i \in Item /\ i.attempts > 0
        BY <2>1, BackoffAssumption DEF Item
    <2>3. store' = [store EXCEPT ![tab[t].item] = i]
        BY <1>5 DEF attempts
    <2> HIDE DEF i
    <2> QED
        BY <1>2, <1>3, <1>5, <2>2, <2>3, SettledOne
<1> QED
    BY <1>1, <1>4, <1>5 DEF PutBack

LEMMA RefreshCountsOne ==
    ASSUME QueueInv, NEW t \in Tabs, OneInv(t), RefreshCounts(t)
    PROVE  OneInv(t)'
<1>1. TypeOK /\ tab[t] \in Uploader /\ tab[t].pc = "counts"
    BY TabType DEF QueueInv, RefreshCounts
<1>2. UNCHANGED <<kept, late, several, taken, written, store, reloads>>
    BY DEF RefreshCounts, server, history
<1>3. tab[t].todo = {}
    BY <1>1 DEF OneInv, OwnInv, Settling
<1>4. ASSUME NEW v \in Uploader, Becomes(t, v), v.pc \in {"schedule", "idle"},
             v.todo = tab[t].todo, v.storing = tab[t].storing,
             \/ faults' = faults \cup {"read"}
             \/ /\ UNCHANGED faults /\ v.shown = Counts
                /\ v.pc = "schedule" \/ ~v.mounted
      PROVE  OneInv(t)'
    <2>1. OwnInv(t)' /\ tab'[t] = v
        BY <1>2, <1>3, <1>4, OwnStands DEF OneInv, Settling
    <2>2. RestInv(t)'
        BY <1>2, <1>4, <2>1, SameStore DEF RestInv
    <2>3. TruthInv(t)'
        BY <1>1, <1>2, <1>4, <2>1, SameStore, SameReach DEF OneInv, TruthInv
    <2> QED
        BY <2>1, <2>2, <2>3 DEF OneInv
<1>5. CASE Fails("read") /\ Becomes(t, [tab[t] EXCEPT !.pc = "idle"])
    <2> DEFINE v == [tab[t] EXCEPT !.pc = "idle"]
    <2>1. /\ v \in Uploader /\ v.pc = "idle" /\ v.todo = tab[t].todo
          /\ v.storing = tab[t].storing
        BY <1>1 DEF Uploader, Steps
    <2>2. Becomes(t, v) /\ faults' = faults \cup {"read"}
        BY <1>5 DEF Fails
    <2> HIDE DEF v
    <2> QED
        BY <1>4, <2>1, <2>2
<1>6. CASE /\ Becomes(t, [tab[t] EXCEPT !.shown = Counts, !.timer = Off,
                !.pc = IF tab[t].mounted THEN "schedule" ELSE "idle"])
           /\ UNCHANGED faults
    <2> DEFINE v == [tab[t] EXCEPT !.shown = Counts, !.timer = Off,
                       !.pc = IF tab[t].mounted THEN "schedule" ELSE "idle"]
    <2>1. /\ v \in Uploader /\ v.pc \in {"schedule", "idle"}
          /\ v.todo = tab[t].todo /\ v.storing = tab[t].storing
          /\ v.shown = Counts /\ v.mounted = tab[t].mounted
          /\ v.pc = "schedule" \/ ~v.mounted
        BY <1>1, CountsType, Values DEF Uploader, Steps
    <2>2. Becomes(t, v)
        BY <1>6
    <2> HIDE DEF v
    <2> QED
        BY <1>4, <1>6, <2>1, <2>2
<1> QED
    BY <1>5, <1>6 DEF RefreshCounts

LEMMA ScheduleNextRetryOne ==
    ASSUME QueueInv, NEW t \in Tabs, OneInv(t), ScheduleNextRetry(t)
    PROVE  OneInv(t)'
<1>1. TypeOK /\ tab[t] \in Uploader /\ tab[t].pc = "schedule"
    BY TabType DEF QueueInv, ScheduleNextRetry
<1>2. UNCHANGED <<kept, late, several, taken, written, store, reloads>>
    BY DEF ScheduleNextRetry, server, history
<1>3. tab[t].todo = {}
    BY <1>1 DEF OneInv, OwnInv, Settling
<1>4. CASE Fails("read") /\ Becomes(t, [tab[t] EXCEPT !.pc = "idle"])
    <2> DEFINE v == [tab[t] EXCEPT !.pc = "idle"]
    <2>1. /\ v \in Uploader /\ v.pc = "idle" /\ v.todo = tab[t].todo
          /\ v.storing = tab[t].storing
        BY <1>1 DEF Uploader, Steps
    <2>2. Becomes(t, v) /\ faults' = faults \cup {"read"}
        BY <1>4 DEF Fails
    <2> HIDE DEF v
    <2>3. OwnInv(t)' /\ tab'[t] = v
        BY <1>2, <1>3, <2>1, <2>2, OwnStands DEF OneInv, Settling
    <2>4. RestInv(t)'
        BY <2>2 DEF RestInv
    <2>5. TruthInv(t)'
        BY <1>1, <1>2, <2>1, <2>2, <2>3, SameStore, SameReach DEF OneInv, TruthInv
    <2> QED
        BY <2>3, <2>4, <2>5 DEF OneInv
<1>5. ASSUME NEW delay \in Soonest(Pending), UNCHANGED faults,
             Becomes(t, [tab[t] EXCEPT !.pc = "idle", !.timer = delay])
      PROVE  OneInv(t)'
    <2> DEFINE v == [tab[t] EXCEPT !.pc = "idle", !.timer = delay]
    <2>1. /\ v \in Uploader /\ v.pc = "idle" /\ v.todo = tab[t].todo
          /\ v.storing = tab[t].storing /\ v.timer = delay
          /\ v.counting = tab[t].counting /\ v.shown = tab[t].shown
        BY <1>1, SoonestType DEF Uploader, Steps
    <2>2. Becomes(t, v)
        BY <1>5
    <2> HIDE DEF v
    <2>3. OwnInv(t)' /\ tab'[t] = v
        BY <1>2, <1>3, <2>1, <2>2, OwnStands DEF OneInv, Settling
    <2>4. \A c \in Pending : delay # Off /\ delay <= store[c].wait
        <3> SUFFICES ASSUME NEW c \in Pending
                     PROVE  delay # Off /\ delay <= store[c].wait
            OBVIOUS
        <3>1. \A d \in Pending : store[d] \in Item
            BY <1>1 DEF TypeOK, Pending, Stored
        <3>2. /\ delay \in {store[d].wait : d \in Pending}
              /\ \A d \in Pending : delay <= store[d].wait
            BY DEF Soonest
        <3> QED
            BY <3>1, <3>2 DEF Item, Off
    <2>5. RestInv(t)'
        BY <1>1, <1>2, <1>5, <2>1, <2>3, <2>4, SameStore DEF OneInv, RestInv
    <2>6. TruthInv(t)'
        BY <1>1, <1>2, <1>5, <2>1, <2>3, SameStore, SameReach DEF OneInv, TruthInv
    <2> QED
        BY <2>3, <2>5, <2>6 DEF OneInv
<1> QED
    BY <1>4, <1>5 DEF ScheduleNextRetry

LEMMA SoonerCovers ==
    ASSUME NEW m \in Timers, NEW n \in 0..MaxBackoff, m # Off, m <= n
    PROVE  Sooner(m) # Off /\ Sooner(m) <= Sooner(n)
BY BackoffAssumption DEF Sooner, Timers, Off

LEMMA TickOne ==
    ASSUME QueueInv, NEW t \in Tabs, OneInv(t), Tick
    PROVE  OneInv(t)'
<1>1. /\ TypeOK /\ tab[t] \in Uploader
      /\ UNCHANGED <<kept, late, several, taken, written, faults, reloads>>
    BY TabType DEF QueueInv, Tick, server, history
<1>2. ASSUME NEW c \in Captures
      PROVE  /\ c \in Stored' <=> c \in Stored
             /\ c \in Stored => /\ store'[c].attempts = store[c].attempts
                                /\ store'[c].failed = store[c].failed
                                /\ store'[c].wait = Sooner(store[c].wait)
    <2>1. CASE c \in Stored
        <3> DEFINE i == [store[c] EXCEPT !.wait = Sooner(@)]
        <3>1. store[c] \in Item
            BY <1>1, <2>1 DEF TypeOK, Stored
        <3>2. Sooner(store[c].wait) \in 0..MaxBackoff
            BY <3>1, BackoffAssumption DEF Item, Sooner
        <3>3. /\ i \in Item /\ i.attempts = store[c].attempts
              /\ i.failed = store[c].failed /\ i.wait = Sooner(store[c].wait)
            BY <3>1, <3>2 DEF Item
        <3>4. store'[c] = i
            BY <2>1 DEF Tick
        <3> HIDE DEF i
        <3>5. i # Absent
            BY <3>3, ItemsAreThere
        <3> QED
            BY <2>1, <3>3, <3>4, <3>5 DEF Stored
    <2>2. CASE c \notin Stored
        BY <2>2 DEF Tick, Stored
    <2> QED
        BY <2>1, <2>2
<1>3. Stored' = Stored /\ Pending' = Pending
    BY <1>2 DEF Stored, Pending
<1>4. Counts' = Counts
    BY <1>3 DEF Counts
<1>5. \A i : HasRead(i) => HasRead(i)'
    BY <1>2, <1>3 DEF HasRead, Stored
<1> DEFINE v == [tab[t] EXCEPT !.timer = Sooner(@)]
<1>6. /\ v.pc = tab[t].pc /\ v.item = tab[t].item /\ v.todo = tab[t].todo
      /\ v.tries = tab[t].tries /\ v.storing = tab[t].storing
      /\ v.counting = tab[t].counting /\ v.shown = tab[t].shown
      /\ v.mounted = tab[t].mounted /\ v.timer = Sooner(tab[t].timer)
      /\ v.stored = tab[t].stored
    BY <1>1 DEF Uploader
<1>7. tab'[t] = v
    BY DEF Tick
<1> HIDE DEF v
<1>8. OwnInv(t)'
    BY <1>1, <1>3, <1>5, <1>6, <1>7 DEF OneInv, OwnInv
<1>9. RestInv(t)'
    <2> SUFFICES ASSUME "read" \notin faults
                 PROVE  /\ /\ \/ v.pc = "schedule"
                              \/ v.pc = "idle" /\ v.mounted
                           /\ v.counting = {}
                           => v.shown = Counts
                        /\ v.mounted /\ v.pc = "idle" =>
                              \A c \in Pending \ v.counting :
                                 v.timer # Off /\ v.timer <= store'[c].wait
        BY <1>1, <1>3, <1>4, <1>7 DEF RestInv
    <2>1. ASSUME v.mounted, v.pc = "idle", NEW c \in Pending \ v.counting
          PROVE  v.timer # Off /\ v.timer <= store'[c].wait
        <3>1. tab[t].timer # Off /\ tab[t].timer <= store[c].wait
            BY <1>6, <2>1 DEF OneInv, RestInv
        <3>2. tab[t].timer \in Timers /\ store[c].wait \in 0..MaxBackoff
            BY <1>1 DEF TypeOK, Uploader, Item, Pending, Stored
        <3>3. store'[c].wait = Sooner(store[c].wait)
            BY <1>2 DEF Pending, Stored
        <3> QED
            BY <1>6, <3>1, <3>2, <3>3, SoonerCovers
    <2> QED
        BY <1>6, <2>1 DEF OneInv, RestInv
<1>10. TruthInv(t)'
    BY <1>1, <1>2, <1>6, <1>7, SameReach DEF OneInv, TruthInv
<1> QED
    BY <1>8, <1>9, <1>10 DEF OneInv

LEMMA ReloadOne ==
    ASSUME QueueInv, NEW t \in Tabs, OneInv(t), Reload(t)
    PROVE  OneInv(t)'
<1>1. /\ UNCHANGED <<taken, written, store>> /\ Becomes(t, Fresh)
      /\ reloads' = reloads + 1 /\ reloads \in Nat
    BY DEF Reload, history, QueueInv, TypeOK
<1>2. /\ Fresh \in Uploader /\ Fresh.pc = "idle" /\ Fresh.todo = {}
      /\ Fresh.storing = {} /\ ~Fresh.mounted
    BY FreshType DEF Fresh
<1>3. OwnInv(t)' /\ tab'[t] = Fresh
    BY <1>1, <1>2, OwnStands DEF OneInv, Settling
<1>4. RestInv(t)'
    BY <1>2, <1>3 DEF RestInv
<1>5. TruthInv(t)'
    BY <1>1 DEF TruthInv
<1> QED
    BY <1>3, <1>4, <1>5 DEF OneInv

LEMMA StillOne ==
    ASSUME QueueInv, NEW t \in Tabs, OneInv(t),
           UNCHANGED <<kept, late, several, taken, written, store, tab, faults, reloads>>
    PROVE  OneInv(t)'
<1>1. OwnInv(t)'
    BY SameStore DEF OneInv, OwnInv
<1>2. RestInv(t)'
    BY SameStore DEF OneInv, RestInv
<1>3. TruthInv(t)'
    BY SameStore, SameReach DEF OneInv, TruthInv
<1> QED
    BY <1>1, <1>2, <1>3 DEF OneInv

LEMMA OneInvStep ==
    ASSUME OnlyTab, QueueInv, \A t \in Tabs : OneInv(t), [Next]_vars
    PROVE  \A t \in Tabs : OneInv(t)'
<1> SUFFICES ASSUME NEW t \in Tabs PROVE OneInv(t)'
    OBVIOUS
<1>1. OneInv(t) /\ \A s \in Tabs : s = t
    BY DEF OnlyTab
<1>2. CASE Tick
    BY <1>1, <1>2, TickOne
<1>3. CASE EndEvent \/ NextEvent \/ UNCHANGED vars
    BY <1>1, <1>3, StillOne DEF EndEvent, NextEvent, vars, history
<1>4. CASE Run(t)
    BY <1>1, <1>4, ReadDueOne, RemoveOne, DropOne, PutBackOne, RefreshCountsOne,
       ScheduleNextRetryOne, EnqueueOne, EnqueueCountsOne DEF Run, Settle
<1>5. CASE User(t)
    BY <1>1, <1>5, AskingOne, StopOne, ReloadOne, ShootOne DEF User
<1>6. CASE Trigger(t) \/ RetryTimer(t)
    BY <1>1, <1>6, AskingOne
<1>7. CASE Store(t) \/ Reply(t) \/ NoReply(t)
    BY <1>1, <1>7, StoreOne, ReplyOne, NoReplyOne
<1>8. CASE StoreLate
    BY <1>1, <1>8, StoreLateOne
<1> QED
    BY <1>1, <1>2, <1>3, <1>4, <1>5, <1>6, <1>7, <1>8 DEF Next

LEMMA InitOne == Init => \A t \in Tabs : OneInv(t)
<1> SUFFICES ASSUME Init, NEW t \in Tabs PROVE OneInv(t)
    OBVIOUS
<1>1. tab[t] = Fresh /\ Stored = {} /\ kept = {} /\ written = {} /\ taken = {}
    BY DEF Init, Stored
<1>2. Pending = {} /\ ~Fresh.mounted /\ Fresh.pc = "idle" /\ Fresh.todo = {}
      /\ Fresh.storing = {}
    BY <1>1 DEF Pending, Fresh
<1>3. OwnInv(t)
    BY <1>1, <1>2 DEF OwnInv, Settling
<1>4. RestInv(t)
    BY <1>1, <1>2 DEF RestInv
<1>5. TruthInv(t)
    <2>1. \A c \in Captures : ~Reached(c)
        BY <1>1, BoundsAssumption DEF Init, Reached, Never
    <2> QED
        BY <2>1 DEF TruthInv
<1> QED
    BY <1>3, <1>4, <1>5 DEF OneInv

LEMMA OneInvHolds == OnlyTab => (Spec => [](QueueInv /\ \A t \in Tabs : OneInv(t)))
<1> SUFFICES ASSUME OnlyTab
             PROVE  Spec => [](QueueInv /\ \A t \in Tabs : OneInv(t))
    OBVIOUS
<1> DEFINE I == QueueInv /\ \A t \in Tabs : OneInv(t)
<1>1. Init => I
    BY InitQueueInv, InitOne
<1>2. I /\ [Next]_vars => I'
    BY QueueInvStep, OneInvStep
<1> QED
    BY <1>1, <1>2, PTL DEF Spec

(* A phone with one tab open never rests without a timer for what can be    *)
(* retried, whatever drains, stops, starts, shutters and reloads came in    *)
(* between: the retry of a capture does not wait for the next sweep         *)
(* (scheduleNextRetry of uploader.ts).                                      *)
THEOREM RetriesAreCovered == OnlyTab => (Spec => []TimerCoversQueue)
<1> SUFFICES ASSUME OnlyTab PROVE Spec => []TimerCoversQueue
    OBVIOUS
<1>1. (QueueInv /\ \A t \in Tabs : OneInv(t)) => TimerCoversQueue
    BY DEF OneInv, RestInv, TimerCoversQueue
<1> QED
    BY <1>1, OneInvHolds, PTL

(* What the camera screen of the only tab shows is what its store holds,    *)
(* once the uploader rests (refreshCounts of uploader.ts).                  *)
THEOREM CountsAreShown == OnlyTab => (Spec => []ShownIsStored)
<1> SUFFICES ASSUME OnlyTab PROVE Spec => []ShownIsStored
    OBVIOUS
<1>1. (QueueInv /\ \A t \in Tabs : OneInv(t)) => ShownIsStored
    BY DEF OneInv, RestInv, ShownIsStored
<1> QED
    BY <1>1, OneInvHolds, PTL

(* In the only tab, a capture refused with 423 on its first try is not on   *)
(* the server, if no page was reloaded and no write failed (the locked case *)
(* of handleFailure in uploader.ts).                                        *)
THEOREM FirstRefusalsAreTrue == OnlyTab => (Spec => []FirstRefusalIsTrue)
<1> SUFFICES ASSUME OnlyTab PROVE Spec => []FirstRefusalIsTrue
    OBVIOUS
<1>1. (QueueInv /\ \A t \in Tabs : OneInv(t)) => FirstRefusalIsTrue
    <2> SUFFICES ASSUME QueueInv, NEW t \in Tabs, OneInv(t), tab[t].pc = "drop",
                        tab[t].tries = 0, reloads = 0, "write" \notin faults,
                        NEW e \in 1..MaxEvents, <<e, tab[t].item>> \in kept
                 PROVE  FALSE
        BY DEF FirstRefusalIsTrue
    <2>1. /\ tab[t].item \in Stored /\ store[tab[t].item].attempts = 0
          /\ Reached(tab[t].item)
        BY DEF OneInv, OwnInv, HasRead, Settling, Reached
    <2> QED
        BY <2>1 DEF OneInv, TruthInv, Stored
<1> QED
    BY <1>1, OneInvHolds, PTL

(* What has left the only tab's store, stored or refused, never comes back  *)
(* to it: no drain puts back what another one settled (drain of uploader.ts *)
(* folds a second request into the drain that runs).                        *)
THEOREM SettledForGood == OnlyTab => (Spec => StaysGone)
<1> SUFFICES ASSUME OnlyTab PROVE Spec => StaysGone
    OBVIOUS
<1> DEFINE I == QueueInv /\ \A t \in Tabs : OneInv(t)
           Gone == \A c \in written : c \notin Stored => c \notin Stored'
<1>1. I /\ [Next]_vars => [Gone]_vars
    <2> SUFFICES ASSUME I, Next, NEW c \in written, c \notin Stored
                 PROVE  c \notin Stored'
        OBVIOUS
    <2>1. TypeOK /\ c \in Captures
        BY DEF QueueInv, TypeOK
    <2>2. \/ store' = store
          \/ Tick
          \/ \E t \in Tabs, d \in Captures : Enqueue(t, d)
          \/ \E t \in Tabs : Settle(t)
        BY DEF Next, Run, User, EndEvent, NextEvent, Start, Stop, Reload, Shoot,
               Trigger, RetryTimer, Store, StoreLate, Reply, NoReply, ReadDue,
               RefreshCounts, ScheduleNextRetry, EnqueueCounts
    <2>3. CASE store' = store
        BY <2>3 DEF Stored
    <2>4. CASE Tick
        BY <2>1, <2>4 DEF Tick, Stored
    <2>5. ASSUME NEW t \in Tabs, NEW d \in Captures, Enqueue(t, d)
          PROVE  c \notin Stored'
        <3>1. d # c
            BY <2>5 DEF Enqueue, OneInv, OwnInv
        <3> QED
            BY <2>1, <2>5, <3>1 DEF Enqueue, Stored, TypeOK
    <2>6. ASSUME NEW t \in Tabs, Settle(t)
          PROVE  c \notin Stored'
        <3>1. tab[t].item # c
            BY <2>6 DEF Settle, Remove, Drop, MarkFailed, Retry, Settling,
                        OneInv, OwnInv, HasRead
        <3>2. \/ store' = store
              \/ \E i : store' = [store EXCEPT ![tab[t].item] = i]
            BY <2>6 DEF Settle, Remove, Drop, MarkFailed, Retry, PutBack
        <3> QED
            BY <2>1, <3>1, <3>2 DEF Stored, TypeOK
    <2> QED
        BY <2>2, <2>3, <2>4, <2>5, <2>6
<1>2. OnlyTab => (Spec => []I)
    BY OneInvHolds
<1> QED
    BY <1>1, <1>2, PTL DEF Spec, StaysGone
=============================================================================
