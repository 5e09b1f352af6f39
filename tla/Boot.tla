-------------------------------- MODULE Boot --------------------------------
(* How a server comes up (cmd/main.go): goose migrates the database, one    *)
(* transaction a migration, the shared user is seeded, and it serves.  A    *)
(* platform starts it again when it exits, and may start the next before it *)
(* stops the last.                                                          *)
EXTENDS Naturals

CONSTANT Servers     \* server processes that may be up at a time

VARIABLES
    version,     \* goose_db_version, the row inserted last
    applied,     \* the migrations whose tables and columns are there
    singleton,   \* events_singleton_idx is there: one event at most
    user,        \* a row with SEED_USER_EMAIL is in users
    proc         \* the processes: what each does next

vars == <<version, applied, singleton, user, proc>>
schema == <<version, applied, singleton>>

Backfill == 6    \* 00006_backfill_event_user_links, the last migration

(* next is the migration that goose found to be pending.                    *)
Process == [pc : {"down", "version", "migrate", "find", "create", "serving"},
            next : 1..Backfill]
Down == [pc |-> "down", next |-> 1]
At(s, pc) == proc' = [proc EXCEPT ![s].pc = pc]
Exits(s) == proc' = [proc EXCEPT ![s] = Down]

(* A database that is empty, or as some release, or a boot that was cut     *)
(* off, left it.  Every table of users may hold the user or not:            *)
(* SEED_USER_EMAIL may name another address by now.                         *)
Init ==
    /\ version \in 0..Backfill /\ applied = 1..version
    /\ singleton = (version = 2)
    /\ user \in BOOLEAN /\ (user => version >= 1)
    /\ proc = [s \in Servers |-> Down]

Boot(s) ==
    /\ proc[s].pc = "down" /\ At(s, "version")
    /\ UNCHANGED <<schema, user>>

ReadVersion(s) ==
    /\ proc[s].pc = "version"
    /\ IF version = Backfill THEN At(s, "find")
       ELSE proc' = [proc EXCEPT ![s] = [pc |-> "migrate", next |-> version + 1]]
    /\ UNCHANGED <<schema, user>>

(* A transaction, that inserts its row of goose_db_version.  No lock keeps  *)
(* two processes from running one migration twice: ADD COLUMN then fails,   *)
(* the backfill fails without its user, the others work (IF NOT EXISTS),    *)
(* except that the index of migration 2 fails if there are two events by    *)
(* now.  That index stays until a migration 3 drops it again.               *)
Fails(n) ==
    \/ n = 5 /\ n \in applied
    \/ n = Backfill /\ ~user
    \/ n = 2 /\ 3 \in applied

Works(n) == ~(n = 5 /\ n \in applied) /\ (n = Backfill => user)

Migrate(s) == LET n == proc[s].next IN
    /\ proc[s].pc = "migrate"
    /\ \/ /\ Works(n) /\ At(s, "version")
          /\ version' = n /\ applied' = applied \cup {n}
          /\ singleton' = IF n \in {2, 3} THEN n = 2 ELSE singleton
       \/ Fails(n) /\ Exits(s) /\ UNCHANGED schema
    /\ UNCHANGED user

(* SeedSharedUser: FindUserByEmail, and then CreateUser under UNIQUE (email).*)
FindUser(s) ==
    /\ proc[s].pc = "find"
    /\ At(s, IF user THEN "serving" ELSE "create")
    /\ UNCHANGED <<schema, user>>

CreateUser(s) ==
    /\ proc[s].pc = "create"
    /\ IF user THEN Exits(s) ELSE At(s, "serving")
    /\ user' = TRUE /\ UNCHANGED schema

(* An interrupt, or the database is lost for a moment.                      *)
Exit(s) ==
    /\ proc[s].pc # "down" /\ Exits(s)
    /\ UNCHANGED <<schema, user>>

Next == \E s \in Servers :
    \/ Boot(s) \/ ReadVersion(s) \/ Migrate(s)
    \/ FindUser(s) \/ CreateUser(s) \/ Exit(s)

Spec == Init /\ [][Next]_vars

-----------------------------------------------------------------------------
(* What a boot owes *)

(* The user whom the backfill looks for is there when it runs               *)
(* (00006_backfill_event_user_links.go: "SeedSharedUser guarantees that     *)
(* user already exists by the time migrations run").                        *)
BackfillFindsUser ==
    \A s \in Servers :
       proc[s].pc = "migrate" /\ proc[s].next = Backfill => user

(* A server that serves has the whole schema and the shared user, however   *)
(* boots overlap, wherever they are cut off, and though the version may be  *)
(* taken back under it.                                                     *)
ServesWhenReady ==
    \A s \in Servers :
       proc[s].pc = "serving" => applied = 1..Backfill /\ user

(* It can start a second event: no process has brought the index back that  *)
(* migration 3 dropped (00003: "Events are no longer a singleton").         *)
ServesManyEvents == \A s \in Servers : proc[s].pc = "serving" => ~singleton

(* A process took the version back before migration 5, whose column is      *)
(* there, and no other is left.                                             *)
TakenBack ==
    version < 5 /\ 5 \in applied /\ \A s \in Servers : proc[s].pc = "down"
=============================================================================
