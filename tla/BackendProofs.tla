---------------------------- MODULE BackendProofs ----------------------------
(* Two small parts of the backend, proved: what a boot ends in, however     *)
(* boots overlap (Boot), and that every picture has a thumbnail (Thumbnail).*)
EXTENDS Boot, Thumbnail, TLAPS

-----------------------------------------------------------------------------
(* Boot *)

TypeOK ==
    /\ version \in 0..Backfill /\ applied \subseteq 1..Backfill
    /\ singleton \in BOOLEAN /\ user \in BOOLEAN
    /\ proc \in [Servers -> Process]

(* What the proofs carry along: whatever the version says, or the migration *)
(* a process is at, those before it were run.                               *)
ReadyInv ==
    /\ TypeOK
    /\ 1..version \subseteq applied
    /\ \A s \in Servers :
          /\ proc[s].pc = "migrate" => 1..(proc[s].next - 1) \subseteq applied
          /\ proc[s].pc \in {"find", "create", "serving"} => applied = 1..Backfill
          /\ proc[s].pc = "serving" => user

(* Nothing has got past the backfill.                                       *)
Stuck ==
    /\ TypeOK /\ version < Backfill /\ user = FALSE
    /\ \A s \in Servers : proc[s].pc \in {"down", "version", "migrate"}

(* Migration 2 has been run, and no process is at it.                       *)
Beyond ==
    /\ TypeOK /\ version >= 2
    /\ singleton => 3 \notin applied
    /\ \A s \in Servers : proc[s].pc = "migrate" => proc[s].next >= 3

(* Every process that starts is stopped by migration 5.                     *)
Wedged ==
    /\ TypeOK /\ version < 5 /\ 5 \in applied
    /\ \A s \in Servers :
          /\ proc[s].pc \in {"down", "version", "migrate"}
          /\ proc[s].pc = "migrate" => proc[s].next <= 5

(* A server starts down, on one of the databases above.                     *)
LEMMA BootTypes == Init => TypeOK
<1> SUFFICES ASSUME Init PROVE TypeOK
  OBVIOUS
<1>1. version \in 0..Backfill /\ applied \subseteq 1..Backfill
  BY SMT DEF Init, Backfill
<1>2. user \in BOOLEAN /\ singleton \in BOOLEAN
  BY Zenon DEF Init
<1>3. Down \in Process
  BY DEF Down, Process, Backfill
<1> QED
  BY <1>1, <1>2, <1>3 DEF Init, TypeOK

(* The ways a migration goes, as the next state has it.                     *)
MigrateWay(s) == LET n == proc[s].next IN
    /\ proc[s].pc = "migrate" /\ n \in 1..Backfill
    /\ user' = user
    /\ \/ /\ proc' = [proc EXCEPT ![s].pc = "version"]
          /\ version' = n /\ applied' = applied \cup {n}
          /\ n = 5 => n \notin applied
          /\ n = Backfill => user
          /\ singleton' => n = 2 \/ (n # 3 /\ singleton)
       \/ /\ proc' = [proc EXCEPT ![s] = Down] /\ version' = version
          /\ applied' = applied /\ singleton' = singleton

(* It goes no other way, and keeps the types.                               *)
LEMMA MigrateWays ==
    ASSUME TypeOK, NEW s \in Servers, Migrate(s)
    PROVE  TypeOK' /\ MigrateWay(s)
<1> DEFINE n == proc[s].next
<1>1. n \in 1..Backfill /\ proc[s].pc = "migrate" /\ user' = user
  <2>1. n \in 1..Backfill
    BY SMT DEF TypeOK, Process, Backfill
  <2> QED
    BY <2>1, Zenon DEF Migrate
<1>2. CASE Fails(n) /\ Exits(s) /\ UNCHANGED schema
  <2>1. version' = version /\ applied' = applied /\ singleton' = singleton
    BY <1>2 DEF schema
  <2>2. proc' = [proc EXCEPT ![s] = Down] /\ proc' \in [Servers -> Process]
    BY <1>2 DEF Exits, Down, Process, TypeOK, Backfill
  <2>3. TypeOK'
    BY <1>1, <2>1, <2>2, Zenon DEF TypeOK
  <2> QED
    BY <1>1, <2>1, <2>2, <2>3, Zenon DEF MigrateWay
<1>3. CASE /\ Works(n) /\ At(s, "version")
           /\ version' = n /\ applied' = applied \cup {n}
           /\ singleton' = IF n \in {2, 3} THEN n = 2 ELSE singleton
  <2>1. (n = 5 => n \notin applied) /\ (n = Backfill => user)
    BY <1>3, Zenon DEF Works
  <2>2. singleton' \in BOOLEAN
    BY <1>3, Zenon DEF TypeOK
  <2>3. singleton' => n = 2 \/ (n # 3 /\ singleton)
    BY <1>3, Zenon
  <2>4. proc' = [proc EXCEPT ![s].pc = "version"] /\ proc' \in [Servers -> Process]
    BY <1>3 DEF At, Process, TypeOK, Backfill
  <2>5. version' \in 0..Backfill /\ applied' \subseteq 1..Backfill
    <3>1. version' = n /\ applied' = applied \cup {n}
      BY <1>3, Zenon
    <3>2. applied \subseteq 1..Backfill
      BY Zenon DEF TypeOK
    <3>3. n \in 1..Backfill
      BY <1>1, Zenon
    <3>4. 1..Backfill \subseteq 0..Backfill
      BY DEF Backfill
    <3> QED
      BY <3>1, <3>2, <3>3, <3>4, Zenon
  <2>6. TypeOK'
    BY <1>1, <2>2, <2>4, <2>5, Zenon DEF TypeOK
  <2> QED
    BY <1>1, <1>3, <2>1, <2>3, <2>4, <2>6, Zenon DEF MigrateWay
<1> QED
  BY <1>2, <1>3, Zenon DEF Migrate

(* The strengthening of ServesWhenReady is inductive.                       *)
LEMMA Ready == Spec => []ReadyInv
<1>1. Init => ReadyInv
  BY BootTypes DEF Init, ReadyInv, TypeOK, Down, Backfill
<1>2. ReadyInv /\ [Next]_vars => ReadyInv'
  <2> SUFFICES ASSUME ReadyInv, [Next]_vars PROVE ReadyInv'
    OBVIOUS
  <2> USE DEF ReadyInv, TypeOK, Process, Down, At, Exits, Backfill, schema
  <2>1. CASE UNCHANGED vars
    BY <2>1 DEF vars
  <2>2. ASSUME NEW s \in Servers, Boot(s) PROVE ReadyInv'
    BY <2>2 DEF Boot
  <2>3. ASSUME NEW s \in Servers, ReadVersion(s) PROVE ReadyInv'
    BY <2>3 DEF ReadVersion
  <2>4. ASSUME NEW s \in Servers, Migrate(s) PROVE ReadyInv'
    <3>1. TypeOK' /\ MigrateWay(s)
      BY <2>4, MigrateWays DEF ReadyInv
    <3> QED
      BY <3>1 DEF MigrateWay
  <2>5. ASSUME NEW s \in Servers, FindUser(s) PROVE ReadyInv'
    BY <2>5 DEF FindUser
  <2>6. ASSUME NEW s \in Servers, CreateUser(s) PROVE ReadyInv'
    BY <2>6 DEF CreateUser
  <2>7. ASSUME NEW s \in Servers, Exit(s) PROVE ReadyInv'
    BY <2>7 DEF Exit
  <2> QED
    BY <2>1, <2>2, <2>3, <2>4, <2>5, <2>6, <2>7 DEF Next
<1> QED
  BY <1>1, <1>2, PTL DEF Spec

(* For any number of processes, booted and cut off in any order, on any     *)
(* database, a server that serves has the schema and the user, though a     *)
(* late migration may take the version back under it.                       *)
THEOREM ServersAreReady == Spec => []ServesWhenReady
<1>1. ReadyInv => ServesWhenReady
  BY DEF ReadyInv, ServesWhenReady
<1> QED
  BY <1>1, Ready, PTL

LEMMA StuckStays == Stuck /\ [Next]_vars => Stuck'
<1> SUFFICES ASSUME Stuck, [Next]_vars PROVE Stuck'
  OBVIOUS
<1> USE DEF Stuck, TypeOK, Process, Down, At, Exits, Backfill, schema
<1>1. CASE UNCHANGED vars
  BY <1>1 DEF vars
<1>2. ASSUME NEW s \in Servers, Boot(s) PROVE Stuck'
  BY <1>2 DEF Boot
<1>3. ASSUME NEW s \in Servers, ReadVersion(s) PROVE Stuck'
  BY <1>3 DEF ReadVersion
<1>4. ASSUME NEW s \in Servers, Migrate(s) PROVE Stuck'
  <2>1. TypeOK' /\ MigrateWay(s)
    BY <1>4, MigrateWays DEF Stuck
  <2> QED
    BY <2>1 DEF MigrateWay
<1>5. ASSUME NEW s \in Servers, FindUser(s) PROVE Stuck'
  BY <1>5 DEF FindUser
<1>6. ASSUME NEW s \in Servers, CreateUser(s) PROVE Stuck'
  BY <1>6 DEF CreateUser
<1>7. ASSUME NEW s \in Servers, Exit(s) PROVE Stuck'
  BY <1>7 DEF Exit
<1> QED
  BY <1>1, <1>2, <1>3, <1>4, <1>5, <1>6, <1>7 DEF Next

LEMMA BeyondStays == Beyond /\ [Next]_vars => Beyond'
<1> SUFFICES ASSUME Beyond, [Next]_vars PROVE Beyond'
  OBVIOUS
<1> USE DEF Beyond, TypeOK, Process, Down, At, Exits, Backfill, schema
<1>1. CASE UNCHANGED vars
  BY <1>1 DEF vars
<1>2. ASSUME NEW s \in Servers, Boot(s) PROVE Beyond'
  BY <1>2 DEF Boot
<1>3. ASSUME NEW s \in Servers, ReadVersion(s) PROVE Beyond'
  BY <1>3 DEF ReadVersion
<1>4. ASSUME NEW s \in Servers, Migrate(s) PROVE Beyond'
  <2>1. TypeOK' /\ MigrateWay(s)
    BY <1>4, MigrateWays DEF Beyond
  <2> QED
    BY <2>1 DEF MigrateWay
<1>5. ASSUME NEW s \in Servers, FindUser(s) PROVE Beyond'
  BY <1>5 DEF FindUser
<1>6. ASSUME NEW s \in Servers, CreateUser(s) PROVE Beyond'
  BY <1>6 DEF CreateUser
<1>7. ASSUME NEW s \in Servers, Exit(s) PROVE Beyond'
  BY <1>7 DEF Exit
<1> QED
  BY <1>1, <1>2, <1>3, <1>4, <1>5, <1>6, <1>7 DEF Next

LEMMA WedgedStays == Wedged /\ [Next]_vars => Wedged'
<1> SUFFICES ASSUME Wedged, [Next]_vars PROVE Wedged'
  OBVIOUS
<1> USE DEF Wedged, TypeOK, Process, Down, At, Exits, Backfill, schema
<1>1. CASE UNCHANGED vars
  BY <1>1 DEF vars
<1>2. ASSUME NEW s \in Servers, Boot(s) PROVE Wedged'
  BY <1>2 DEF Boot
<1>3. ASSUME NEW s \in Servers, ReadVersion(s) PROVE Wedged'
  BY <1>3 DEF ReadVersion
<1>4. ASSUME NEW s \in Servers, Migrate(s) PROVE Wedged'
  <2>1. TypeOK' /\ MigrateWay(s)
    BY <1>4, MigrateWays DEF Wedged
  <2> QED
    BY <2>1 DEF MigrateWay
<1>5. ASSUME NEW s \in Servers, FindUser(s) PROVE Wedged'
  BY <1>5 DEF FindUser
<1>6. ASSUME NEW s \in Servers, CreateUser(s) PROVE Wedged'
  BY <1>6 DEF CreateUser
<1>7. ASSUME NEW s \in Servers, Exit(s) PROVE Wedged'
  BY <1>7 DEF Exit
<1> QED
  BY <1>1, <1>2, <1>3, <1>4, <1>5, <1>6, <1>7 DEF Next

(* On an empty database no boot ever succeeds, however often it is tried    *)
(* (main.go migrates before it seeds).                                      *)
THEOREM EmptyNeverServes ==
    version = 0 /\ Spec => [](\A s \in Servers : proc[s].pc # "serving")
<1>1. version = 0 /\ Init => Stuck
  BY BootTypes DEF Init, Stuck, TypeOK, Down, Backfill
<1>2. Stuck => \A s \in Servers : proc[s].pc # "serving"
  BY DEF Stuck
<1> QED
  BY <1>1, <1>2, StuckStays, PTL DEF Spec

(* On any database but one of the first release, at version 1, a server can *)
(* start more than one event: events_singleton_idx is gone for good.  At    *)
(* version 1 a late migration 2 brings it back, under a process that serves.*)
THEOREM ManyEventsAreServed == version # 1 /\ Spec => []ServesManyEvents
<1>1. version # 1 /\ Init => Stuck \/ Beyond
  <2> SUFFICES ASSUME version # 1, Init PROVE Stuck \/ Beyond
    OBVIOUS
  <2>1. TypeOK /\ \A s \in Servers : proc[s].pc = "down"
    BY BootTypes DEF Init, Down
  <2>2. CASE version = 0
    <3>1. user = FALSE
      BY <2>2, SMT DEF Init
    <3> QED
      BY <2>1, <2>2, <3>1 DEF Stuck, Backfill
  <2>3. CASE version >= 2
    <3>1. singleton => version = 2
      BY Zenon DEF Init
    <3>2. applied = 1..version
      BY Zenon DEF Init
    <3>3. singleton => 3 \notin applied
      BY <3>1, <3>2
    <3> QED
      BY <2>1, <2>3, <3>3 DEF Beyond
  <2> QED
    BY <2>1, <2>2, <2>3 DEF TypeOK, Backfill
<1>2. ReadyInv /\ (Stuck \/ Beyond) => ServesManyEvents
  BY DEF ReadyInv, Stuck, Beyond, ServesManyEvents, TypeOK, Backfill
<1> QED
  BY <1>1, <1>2, Ready, StuckStays, BeyondStays, PTL DEF Spec

(* What a late migration ends in: the version is taken back before          *)
(* migration 5, and once the last process is down none ever serves again,   *)
(* for each boot runs migration 5 into its own column (00005: ADD COLUMN    *)
(* without IF NOT EXISTS).                                                  *)
THEOREM TakenBackStaysDown ==
    Spec => [](TakenBack => [](\A s \in Servers : proc[s].pc # "serving"))
<1>1. ReadyInv /\ TakenBack => Wedged
  BY DEF ReadyInv, TakenBack, Wedged
<1>2. Wedged => \A s \in Servers : proc[s].pc # "serving"
  BY DEF Wedged
<1> QED
  BY <1>1, <1>2, Ready, WedgedStays, PTL DEF Spec

-----------------------------------------------------------------------------
(* Thumbnail *)

LEMMA LongEdgeFits ==
    ASSUME NEW longEdge \in Nat \ {0}, NEW maxEdge \in Nat \ {0}
    PROVE  Scaled(longEdge, longEdge, maxEdge) = {maxEdge}
<1>1. ASSUME NEW n \in 0..maxEdge
      PROVE  n \in Rounded(longEdge, longEdge, maxEdge) <=> n = maxEdge
    <2> DEFINE d == maxEdge - n
    <2>1. d \in Nat /\ n = maxEdge - d
        OBVIOUS
    <2>2. 2 * longEdge * n = 2 * longEdge * maxEdge - 2 * longEdge * d
        BY <2>1
    <2>3. d = 0 \/ longEdge * d >= longEdge
        BY <2>1
    <2>4. longEdge * maxEdge \in Int /\ longEdge * d \in Int
        BY <2>1
    <2> HIDE DEF d
    <2> QED
        BY <2>1, <2>2, <2>3, <2>4 DEF Rounded
<1>2. Rounded(longEdge, longEdge, maxEdge) = {maxEdge}
    BY <1>1 DEF Rounded
<1> QED
    BY <1>2 DEF Scaled, Longer

LEMMA Quotient ==
    ASSUME NEW a \in Nat, NEW d \in Nat \ {0}
    PROVE  a \div d \in Nat /\ d * (a \div d) <= a /\ a < d * (a \div d) + d
OBVIOUS

LEMMA ScaledIsThere ==
    ASSUME NEW longEdge \in Nat \ {0}, NEW maxEdge \in Nat \ {0},
           NEW v \in 1..longEdge
    PROVE  Scaled(v, longEdge, maxEdge) # {}
<1> DEFINE a == 2 * v * maxEdge + longEdge
           n == a \div (2 * longEdge)
<1>1. a \in Nat /\ 2 * longEdge \in Nat \ {0}
    OBVIOUS
<1>2. n \in Nat /\ 2 * longEdge * n <= a /\ a < 2 * longEdge * n + 2 * longEdge
    BY <1>1, Quotient
<1>3. n <= maxEdge
    <2> SUFFICES ASSUME n >= maxEdge + 1 PROVE FALSE
        BY <1>2
    <2>1. longEdge * n >= longEdge * (maxEdge + 1)
        BY <1>2
    <2>2. v * maxEdge <= longEdge * maxEdge
        OBVIOUS
    <2> QED
        BY <1>2, <2>1, <2>2
<1>4. n \in Rounded(v, longEdge, maxEdge)
    BY <1>2, <1>3 DEF Rounded
<1> QED
    BY <1>4 DEF Scaled

LEMMA ScaledFits ==
    ASSUME NEW longEdge \in Nat, NEW maxEdge \in Nat \ {0}, NEW v \in Nat
    PROVE  Scaled(v, longEdge, maxEdge) \subseteq 1..maxEdge
BY DEF Scaled, Rounded, Longer

LEMMA Corners ==
    ASSUME NEW maxEdge \in Nat, NEW W, NEW H, W # {}, H # {},
           W \subseteq 1..maxEdge, H \subseteq 1..maxEdge,
           W = {maxEdge} \/ H = {maxEdge}
    PROVE  /\ W \X H # {}
           /\ \A sides \in W \X H :
                 /\ sides[1] \in 1..maxEdge /\ sides[2] \in 1..maxEdge
                 /\ Longer(sides[1], sides[2]) = maxEdge
<1>1. W \X H # {}
    <2>1. PICK x \in W, y \in H : TRUE
        OBVIOUS
    <2>2. <<x, y>> \in W \X H
        OBVIOUS
    <2> QED
        BY <2>2
<1>2. ASSUME NEW x \in W, NEW y \in H
      PROVE  x \in 1..maxEdge /\ y \in 1..maxEdge /\ Longer(x, y) = maxEdge
    BY DEF Longer
<1>3. \A sides \in W \X H : sides[1] \in W /\ sides[2] \in H
    OBVIOUS
<1> QED
    BY <1>1, <1>2, <1>3

(* FitWithin, for any picture and any bound: the picture has a thumbnail,   *)
(* of at least one pixel a side, that fits, with its long edge exactly the  *)
(* bound if the picture is larger and the picture's own sides if not        *)
(* (thumbnail.go: "never round a thin edge away to nothing", "Images        *)
(* already inside the bound are returned unchanged").                       *)
THEOREM ThumbnailsFit ==
    ASSUME NEW width \in Nat \ {0}, NEW height \in Nat \ {0},
           NEW maxEdge \in Nat \ {0}
    PROVE  /\ FitWithin(width, height, maxEdge) # {}
           /\ \A sides \in FitWithin(width, height, maxEdge) :
                 /\ sides[1] \in 1..maxEdge /\ sides[2] \in 1..maxEdge
                 /\ \/ sides = <<width, height>>
                    \/ /\ Longer(width, height) > maxEdge
                       /\ Longer(sides[1], sides[2]) = maxEdge
<1> DEFINE longEdge == Longer(width, height)
           W == Scaled(width, longEdge, maxEdge)
           H == Scaled(height, longEdge, maxEdge)
<1>1. /\ longEdge \in Nat \ {0} /\ width \in 1..longEdge
      /\ height \in 1..longEdge /\ longEdge \in {width, height}
    BY DEF Longer
<1>2. CASE longEdge <= maxEdge
    <2>1. FitWithin(width, height, maxEdge) = {<<width, height>>}
        BY <1>2 DEF FitWithin
    <2> QED
        BY <1>1, <1>2, <2>1
<1>3. CASE longEdge > maxEdge
    <2>1. FitWithin(width, height, maxEdge) = W \X H
        BY <1>1, <1>3 DEF FitWithin
    <2>2. /\ W # {} /\ H # {} /\ W \subseteq 1..maxEdge /\ H \subseteq 1..maxEdge
          /\ W = {maxEdge} \/ H = {maxEdge}
        BY <1>1, LongEdgeFits, ScaledIsThere, ScaledFits
    <2> QED
        BY <1>3, <2>1, <2>2, Corners
<1> QED
    BY <1>1, <1>2, <1>3

(* Make, for any dimensions a JPEG may claim to have: it refuses exactly    *)
(* the empty and the too large ones, and gives every other picture a        *)
(* thumbnail within ThumbMaxEdge.                                           *)
THEOREM EveryPictureHasThumbnail ==
    ASSUME NEW width \in Nat, NEW height \in Nat
    PROVE  /\ Make(width, height) = {} <=> ~Taken(width, height)
           /\ \A sides \in Make(width, height) :
                 /\ sides[1] \in 1..ThumbMaxEdge /\ sides[2] \in 1..ThumbMaxEdge
                 /\ \/ sides = <<width, height>>
                    \/ /\ Longer(width, height) > ThumbMaxEdge
                       /\ Longer(sides[1], sides[2]) = ThumbMaxEdge
<1>1. CASE ~Taken(width, height)
    BY <1>1 DEF Make
<1>2. CASE Taken(width, height)
    <2>1. Make(width, height) = FitWithin(width, height, ThumbMaxEdge)
        BY <1>2 DEF Make
    <2>2. width \in Nat \ {0} /\ height \in Nat \ {0}
          /\ ThumbMaxEdge \in Nat \ {0}
        BY <1>2 DEF Taken, ThumbMaxEdge
    <2> QED
        BY <1>2, <2>1, <2>2, ThumbnailsFit
<1> QED
    BY <1>1, <1>2
=============================================================================
