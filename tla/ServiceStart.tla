---------------------------- MODULE ServiceStart ----------------------------
(***************************************************************************)
(* How the service starts: the schema script, the settings script and the  *)
(* server, over crashes and restarts, while an operator runs the scripts   *)
(* too (first-run.sh, docker exec) and an administrator changes settings.  *)
(*                                                                         *)
(* Python's sqlite3 opens a transaction for an INSERT and for no other     *)
(* statement here: a change of the schema is durable by itself, a record   *)
(* in schema_migrations is committed with its INSERT, and the settings     *)
(* script commits all its rows at its end.                                 *)
(***************************************************************************)
EXTENDS Integers

CONSTANTS
    Runners,     \* processes that run the scripts
    Containers,  \* those of them that go on to run the server
    Steps,       \* the number of migrations, which are numbered in their order
    Alters,      \* those that fail where they were applied before
    KeyCount,    \* the number of settings, numbered in the order of the script
    Values,      \* values of settings
    Default,     \* what the script gives a setting that has none
    None         \* no row

Migrations == 1..Steps
Keys == 1..KeyCount

ASSUME CountsAreNat == Steps \in Nat /\ KeyCount \in Nat
ASSUME ContainersRun == Containers \subseteq Runners
ASSUME AltersAreMigrations == Alters \subseteq 1..Steps
ASSUME NoneIsNoValue == None \notin Values
ASSUME NoneIsNoRunner == None \notin Runners
ASSUME DefaultIsValue == Default \in Values

VARIABLES
    schema,    \* the migrations whose change the database has
    recorded,  \* schema_migrations
    settings,  \* app_settings: the value of each key, or None
    writer,    \* who has an open transaction of the settings script, or None
    run        \* where each runner is

vars == <<schema, recorded, settings, writer, run>>

Off == [at |-> "off"]
Up == [at |-> "up"]
Failed == [at |-> "failed"]
InSchema ==
    [at : {"change"}, next : 1..(Steps + 1), seen : SUBSET Migrations]
        \cup [at : {"record"}, next : Migrations, seen : SUBSET Migrations]
InSettings ==
    [at : {"look"}, key : 1..(KeyCount + 1), fresh : SUBSET Keys]
        \cup [at : {"insert"}, key : Keys, fresh : SUBSET Keys]
Places == {Off, Up, Failed} \cup InSchema \cup InSettings

TypeOK ==
    /\ schema \subseteq Migrations
    /\ recorded \subseteq Migrations
    /\ settings \in [Keys -> Values \cup {None}]
    /\ writer \in Runners \cup {None}
    /\ run \in [Runners -> Places]

\* A new database, or one that an earlier version with fewer migrations and other
\* settings has left.
Init ==
    /\ schema \in {1..n : n \in 0..Steps}
    /\ recorded = schema
    /\ settings \in [Keys -> Values \cup {None}]
    /\ writer = None
    /\ run = [r \in Runners |-> Off]

At(r, place) == run[r].at = place
Goto(r, place) == run' = [run EXCEPT ![r] = place]

\* What the runner has not committed is rolled back as it ends.
Release(r) == writer' = IF writer = r THEN None ELSE writer
End(r, place) == Goto(r, place) /\ Release(r)

-----------------------------------------------------------------------------
(* migrate_schema.py.  No transaction of the settings script is open while it has   *)
(* work to do: whoever is past it has recorded every migration.                     *)

\* The container restarts unless it is stopped; an operator may start the script
\* whenever he likes.
Begin(r) ==
    /\ At(r, "off") \/ At(r, "failed")
    /\ Goto(r, [at |-> "change", next |-> 1, seen |-> recorded])
    /\ UNCHANGED <<schema, recorded, settings, writer>>

Applies(m) == m \notin Alters \/ m \notin schema

\* PendingPastEnd is a faulty variant, for the mutation checks.
PendingPastEnd(r) == At(r, "change") /\ run[r].next \notin run[r].seen
Pending(r) == At(r, "change") /\ run[r].next \in Migrations \ run[r].seen

Skip(r) ==
    /\ At(r, "change") /\ run[r].next \in run[r].seen
    /\ Goto(r, [run[r] EXCEPT !.next = @ + 1])
    /\ UNCHANGED <<schema, recorded, settings, writer>>

Change(r) ==
    /\ Pending(r) /\ Applies(run[r].next)
    /\ schema' = schema \cup {run[r].next}
    /\ Goto(r, [run[r] EXCEPT !.at = "record"])
    /\ UNCHANGED <<recorded, settings, writer>>

\* The error ends the script.  FailsAndGoesOn is a faulty variant.
FailsAndGoesOn(r) ==
    /\ Pending(r) /\ ~ Applies(run[r].next)
    /\ Goto(r, [run[r] EXCEPT !.next = @ + 1])
    /\ UNCHANGED <<schema, recorded, settings, writer>>
ChangeFails(r) ==
    /\ Pending(r) /\ ~ Applies(run[r].next)
    /\ End(r, Failed)
    /\ UNCHANGED <<schema, recorded, settings>>

\* The rest of the loop's body: INSERT and commit.  migration_id is the primary key.
Record(r) ==
    /\ At(r, "record") /\ run[r].next \notin recorded
    /\ recorded' = recorded \cup {run[r].next}
    /\ Goto(r, [at |-> "change", next |-> run[r].next + 1, seen |-> run[r].seen])
    /\ UNCHANGED <<schema, settings, writer>>

RecordFails(r) ==
    /\ At(r, "record") /\ run[r].next \in recorded
    /\ End(r, Failed)
    /\ UNCHANGED <<schema, recorded, settings>>

SchemaDone(r) ==
    /\ At(r, "change") /\ run[r].next = Steps + 1
    /\ Goto(r, [at |-> "look", key |-> 1, fresh |-> {}])
    /\ UNCHANGED <<schema, recorded, settings, writer>>

-----------------------------------------------------------------------------
(* migrate_settings.py *)

MoreKeys(r) == At(r, "look") /\ run[r].key \in Keys

\* A setting that has a value is kept.
Keep(r) ==
    /\ MoreKeys(r) /\ settings[run[r].key] # None
    /\ Goto(r, [run[r] EXCEPT !.key = @ + 1])
    /\ UNCHANGED <<schema, recorded, settings, writer>>

Miss(r) ==
    /\ MoreKeys(r) /\ settings[run[r].key] = None
    /\ Goto(r, [run[r] EXCEPT !.at = "insert"])
    /\ UNCHANGED <<schema, recorded, settings, writer>>

CanWrite(r) == writer \in {None, r}
Inserted(r) ==
    [at |-> "look", key |-> run[r].key + 1, fresh |-> run[r].fresh \cup {run[r].key}]

\* The first INSERT opens the transaction.  InsertAnyway is a faulty variant.
InsertAnyway(r) ==
    /\ At(r, "insert") /\ CanWrite(r)
    /\ writer' = r
    /\ Goto(r, Inserted(r))
    /\ UNCHANGED <<schema, recorded, settings>>
Insert(r) ==
    /\ At(r, "insert") /\ CanWrite(r) /\ settings[run[r].key] = None
    /\ writer' = r
    /\ Goto(r, Inserted(r))
    /\ UNCHANGED <<schema, recorded, settings>>

\* Someone else has inserted the key since, or does not get done with his transaction.
InsertFails(r) ==
    /\ At(r, "insert")
    /\ CanWrite(r) => settings[run[r].key] # None
    /\ End(r, Failed)
    /\ UNCHANGED <<schema, recorded, settings>>

\* The script's commit, and what the runner goes on to do.  CloseOnly is a faulty variant.
Onward(r) == IF r \in Containers THEN Up ELSE Off
CloseOnly(r) ==
    /\ At(r, "look") /\ run[r].key = KeyCount + 1
    /\ End(r, Onward(r))
    /\ UNCHANGED <<schema, recorded, settings>>
Commit(r) ==
    /\ At(r, "look") /\ run[r].key = KeyCount + 1
    /\ settings' = [k \in Keys |-> IF k \in run[r].fresh THEN Default ELSE settings[k]]
    /\ End(r, Onward(r))
    /\ UNCHANGED <<schema, recorded>>

-----------------------------------------------------------------------------
(* The server and its end. *)

\* INSERT OR REPLACE of a value that the setter has found valid.
Put(k, v) == settings' = [settings EXCEPT ![k] = v]

\* One field of the settings endpoint: each is written, and committed, by itself.
Set(r, k, v) ==
    /\ At(r, "up") /\ writer = None
    /\ Put(k, v)
    /\ UNCHANGED <<schema, recorded, writer, run>>

\* A crash, docker stop, an update of the image.
Stop(r) ==
    /\ ~ At(r, "off")
    /\ End(r, Off)
    /\ UNCHANGED <<schema, recorded, settings>>

Step(r) ==
    \/ Begin(r) \/ Skip(r) \/ Change(r) \/ ChangeFails(r) \/ Record(r) \/ RecordFails(r)
    \/ SchemaDone(r) \/ Keep(r) \/ Miss(r) \/ Insert(r) \/ InsertFails(r) \/ Commit(r)
    \/ \E k \in Keys, v \in Values : Set(r, k, v)
    \/ Stop(r)

Next == \E r \in Runners : Step(r)

Spec == Init /\ [][Next]_vars

-----------------------------------------------------------------------------
(* Properties. *)

\* However runs overlap and end, migrations are recorded in their order, each took
\* effect before it was recorded, and the schema is at most one ahead of the record.
RecordFollowsSchema ==
    \E n \in 0..Steps :
        recorded = 1..n /\ recorded \subseteq schema /\ schema \subseteq 1..(n + 1)

\* A server that runs finds every migration and a value for every setting, whoever
\* else has been, or is, running the scripts.
UpIsReady ==
    (\E r \in Runners : At(r, "up")) =>
        schema = Migrations /\ recorded = Migrations /\ \A k \in Keys : settings[k] # None

\* Only an administrator changes the value of a setting: no start puts a default in
\* its place, not even one that looked before the value was there.
SettingsAreKept ==
    [][\A k \in Keys : settings[k] # None /\ settings'[k] # settings[k] =>
           \E r \in Runners, v \in Values : Set(r, k, v)]_vars

\* A run that has the database for itself does not fail: the scripts "can be run
\* safely multiple times".
AloneNeverFails ==
    [][\A r \in Runners : ~ At(r, "failed") /\ At(r, "failed")' =>
           \E q \in Runners \ {r} : ~ At(q, "off") /\ ~ At(q, "failed")]_vars
=============================================================================
