------------------------- MODULE ServiceStartProofs -------------------------
(***************************************************************************)
(* Theorems about ServiceStart, for any runners, migrations and settings.  *)
(***************************************************************************)
EXTENDS ServiceStart, TLAPS

\* A run of the schema script has found or made a record of every migration it is past,
\* and trusts no record that is not there.
InOrder ==
    \A r \in Runners : At(r, "change") \/ At(r, "record") =>
        /\ 1..(run[r].next - 1) \subseteq recorded
        /\ run[r].seen \subseteq recorded
        /\ At(r, "record") => run[r].next \in schema

\* Past the schema script every migration is recorded.
Migrated ==
    \A r \in Runners : At(r, "look") \/ At(r, "insert") \/ At(r, "up") =>
        recorded = Migrations

\* A run of the settings script has found or inserted a row for every key it is past; it
\* alone has a transaction, and nobody has given its keys a value meanwhile.
Inserting ==
    \A r \in Runners : At(r, "look") \/ At(r, "insert") =>
        /\ \A k \in 1..(run[r].key - 1) : settings[k] # None \/ k \in run[r].fresh
        /\ \A k \in run[r].fresh : settings[k] = None /\ writer = r

AllSet == \A r \in Runners : At(r, "up") => \A k \in Keys : settings[k] # None

\* No transaction is open while a run has migrations to apply.
WritesAfterSchema == writer # None => recorded = Migrations

SchemaInv == TypeOK /\ RecordFollowsSchema /\ InOrder /\ Migrated /\ WritesAfterSchema
IInv == SchemaInv /\ Inserting /\ AllSet

-----------------------------------------------------------------------------
(* Types. *)

LEMMA Counts == Steps \in Nat /\ KeyCount \in Nat
BY CountsAreNat

\* What the place of a runner says of its other fields.
LEMMA InSchemaAt ==
    ASSUME TypeOK, NEW r \in Runners, At(r, "change") \/ At(r, "record")
    PROVE  /\ run[r] \in InSchema
           /\ run[r].next \in 1..(Steps + 1) /\ run[r].seen \subseteq Migrations
           /\ At(r, "record") => run[r].next \in Migrations
BY Counts DEF TypeOK, At, Places, InSchema, InSettings, Off, Up, Failed, Migrations

LEMMA InSettingsAt ==
    ASSUME TypeOK, NEW r \in Runners, At(r, "look") \/ At(r, "insert")
    PROVE  /\ run[r] \in InSettings
           /\ run[r].key \in 1..(KeyCount + 1) /\ run[r].fresh \subseteq Keys
           /\ At(r, "insert") => run[r].key \in Keys
BY Counts DEF TypeOK, At, Places, InSchema, InSettings, Off, Up, Failed, Keys

\* What it is for a runner to go to a place.
LEMMA GoesTo ==
    ASSUME TypeOK, NEW r \in Runners, NEW p, Goto(r, p)
    PROVE  /\ run'[r] = p
           /\ \A q \in Runners \ {r} : run'[q] = run[q]
           /\ p \in Places => run' \in [Runners -> Places]
BY DEF TypeOK, Goto

LEMMA TypeInit == Init => TypeOK
BY Counts DEF Init, TypeOK, Migrations, Places

\* Where each action takes its runner.
LEMMA SkipGoes ==
    ASSUME TypeOK, NEW r \in Runners, Skip(r)
    PROVE  /\ run' \in [Runners -> Places] /\ \A q \in Runners \ {r} : run'[q] = run[q]
           /\ run'[r].at = "change" /\ run'[r].next = run[r].next + 1
           /\ run'[r].seen = run[r].seen
<1> DEFINE p == [run[r] EXCEPT !.next = @ + 1]
<1>1. /\ run[r] \in [at : {"change"}, next : 1..(Steps + 1), seen : SUBSET Migrations]
      /\ run[r].next \in Migrations
  BY InSchemaAt DEF Skip, At, InSchema
<1>2. p \in Places /\ p.at = "change" /\ p.next = run[r].next + 1 /\ p.seen = run[r].seen
  BY <1>1, Counts DEF Places, InSchema, Migrations
<1>3. Goto(r, p)
  BY DEF Skip
<1> QED
  BY <1>2, <1>3, GoesTo

LEMMA ChangeGoes ==
    ASSUME TypeOK, NEW r \in Runners, Change(r)
    PROVE  /\ run' \in [Runners -> Places] /\ \A q \in Runners \ {r} : run'[q] = run[q]
           /\ run'[r].at = "record" /\ run'[r].next = run[r].next
           /\ run'[r].seen = run[r].seen
<1> DEFINE p == [run[r] EXCEPT !.at = "record"]
<1>1. /\ run[r] \in [at : {"change"}, next : 1..(Steps + 1), seen : SUBSET Migrations]
      /\ run[r].next \in Migrations
  BY InSchemaAt DEF Change, Pending, At, InSchema
<1>2. p \in Places /\ p.at = "record" /\ p.next = run[r].next /\ p.seen = run[r].seen
  BY <1>1, Counts DEF Places, InSchema
<1>3. Goto(r, p)
  BY DEF Change
<1> QED
  BY <1>2, <1>3, GoesTo

LEMMA RecordGoes ==
    ASSUME TypeOK, NEW r \in Runners, Record(r)
    PROVE  /\ run' \in [Runners -> Places] /\ \A q \in Runners \ {r} : run'[q] = run[q]
           /\ run'[r].at = "change" /\ run'[r].next = run[r].next + 1
           /\ run'[r].seen = run[r].seen
<1> DEFINE p == [at |-> "change", next |-> run[r].next + 1, seen |-> run[r].seen]
<1>1. run[r] \in [at : {"record"}, next : Migrations, seen : SUBSET Migrations]
  BY InSchemaAt DEF Record, At, InSchema
<1>2. p \in Places /\ p.at = "change" /\ p.next = run[r].next + 1 /\ p.seen = run[r].seen
  BY <1>1, Counts DEF Places, InSchema, Migrations
<1>3. Goto(r, p)
  BY DEF Record
<1> QED
  BY <1>2, <1>3, GoesTo

LEMMA KeepGoes ==
    ASSUME TypeOK, NEW r \in Runners, Keep(r)
    PROVE  /\ run' \in [Runners -> Places] /\ \A q \in Runners \ {r} : run'[q] = run[q]
           /\ run'[r].at = "look" /\ run'[r].key = run[r].key + 1
           /\ run'[r].fresh = run[r].fresh
<1> DEFINE p == [run[r] EXCEPT !.key = @ + 1]
<1>1. /\ run[r] \in [at : {"look"}, key : 1..(KeyCount + 1), fresh : SUBSET Keys]
      /\ run[r].key \in Keys
  BY InSettingsAt DEF Keep, MoreKeys, At, InSettings
<1>2. p \in Places /\ p.at = "look" /\ p.key = run[r].key + 1 /\ p.fresh = run[r].fresh
  BY <1>1, Counts DEF Places, InSettings, Keys
<1>3. Goto(r, p)
  BY DEF Keep
<1> QED
  BY <1>2, <1>3, GoesTo

LEMMA MissGoes ==
    ASSUME TypeOK, NEW r \in Runners, Miss(r)
    PROVE  /\ run' \in [Runners -> Places] /\ \A q \in Runners \ {r} : run'[q] = run[q]
           /\ run'[r].at = "insert" /\ run'[r].key = run[r].key
           /\ run'[r].fresh = run[r].fresh
<1> DEFINE p == [run[r] EXCEPT !.at = "insert"]
<1>1. /\ run[r] \in [at : {"look"}, key : 1..(KeyCount + 1), fresh : SUBSET Keys]
      /\ run[r].key \in Keys
  BY InSettingsAt DEF Miss, MoreKeys, At, InSettings
<1>2. p \in Places /\ p.at = "insert" /\ p.key = run[r].key /\ p.fresh = run[r].fresh
  BY <1>1, Counts DEF Places, InSettings
<1>3. Goto(r, p)
  BY DEF Miss
<1> QED
  BY <1>2, <1>3, GoesTo

LEMMA InsertGoes ==
    ASSUME TypeOK, NEW r \in Runners, Insert(r)
    PROVE  /\ run' \in [Runners -> Places] /\ \A q \in Runners \ {r} : run'[q] = run[q]
           /\ run'[r].at = "look" /\ run'[r].key = run[r].key + 1
           /\ run'[r].fresh = run[r].fresh \cup {run[r].key}
<1> DEFINE p == Inserted(r)
<1>1. run[r] \in [at : {"insert"}, key : Keys, fresh : SUBSET Keys]
  BY InSettingsAt DEF Insert, At, InSettings
<1>2. /\ p \in Places /\ p.at = "look" /\ p.key = run[r].key + 1
      /\ p.fresh = run[r].fresh \cup {run[r].key}
  BY <1>1, Counts DEF Places, InSettings, Keys, Inserted
<1>3. Goto(r, p)
  BY DEF Insert
<1> QED
  BY <1>2, <1>3, GoesTo

LEMMA BeginGoes ==
    ASSUME TypeOK, NEW r \in Runners, Begin(r)
    PROVE  /\ run' \in [Runners -> Places] /\ \A q \in Runners \ {r} : run'[q] = run[q]
           /\ run'[r].at = "change" /\ run'[r].next = 1 /\ run'[r].seen = recorded
<1> DEFINE p == [at |-> "change", next |-> 1, seen |-> recorded]
<1>1. p \in Places /\ p.at = "change" /\ p.next = 1 /\ p.seen = recorded
  BY Counts DEF TypeOK, Places, InSchema
<1>2. Goto(r, p)
  BY DEF Begin
<1> QED
  BY <1>1, <1>2, GoesTo

LEMMA SchemaDoneGoes ==
    ASSUME TypeOK, NEW r \in Runners, SchemaDone(r)
    PROVE  /\ run' \in [Runners -> Places] /\ \A q \in Runners \ {r} : run'[q] = run[q]
           /\ run'[r].at = "look" /\ run'[r].key = 1 /\ run'[r].fresh = {}
<1> DEFINE p == [at |-> "look", key |-> 1, fresh |-> {}]
<1>1. p \in Places /\ p.at = "look" /\ p.key = 1 /\ p.fresh = {}
  BY Counts DEF TypeOK, Places, InSettings
<1>2. Goto(r, p)
  BY DEF SchemaDone
<1> QED
  BY <1>1, <1>2, GoesTo

\* An end leaves the script, and the server when it is no commit.
LEMMA Ends ==
    ASSUME TypeOK, NEW r \in Runners,
           ChangeFails(r) \/ RecordFails(r) \/ InsertFails(r) \/ Commit(r) \/ Stop(r)
    PROVE  /\ run' \in [Runners -> Places] /\ \A q \in Runners \ {r} : run'[q] = run[q]
           /\ run'[r].at \in {"off", "up", "failed"}
           /\ run'[r].at = "up" => Commit(r)
           /\ writer' = IF writer = r THEN None ELSE writer
<1>1. /\ Off \in Places /\ Failed \in Places /\ Up \in Places
      /\ Off.at = "off" /\ Failed.at = "failed" /\ Up.at = "up"
  BY DEF Places, Off, Failed, Up
<1>2. CASE ChangeFails(r) \/ RecordFails(r) \/ InsertFails(r)
  <2>1. Goto(r, Failed) /\ Release(r)
    BY <1>2 DEF ChangeFails, RecordFails, InsertFails, End
  <2> QED
    BY <1>1, <2>1, GoesTo DEF Release
<1>3. CASE Commit(r)
  <2>1. Goto(r, Onward(r)) /\ Release(r) /\ Onward(r) \in {Up, Off}
    BY <1>3 DEF Commit, End, Onward
  <2> QED
    BY <1>1, <1>3, <2>1, GoesTo DEF Release
<1>4. CASE Stop(r)
  <2>1. Goto(r, Off) /\ Release(r)
    BY <1>4 DEF Stop, End
  <2> QED
    BY <1>1, <2>1, GoesTo DEF Release
<1> QED
  BY <1>2, <1>3, <1>4

\* A field of the settings endpoint moves nobody.
LEMMA SetStays ==
    ASSUME NEW r \in Runners, \E k \in Keys, v \in Values : Set(r, k, v)
    PROVE  UNCHANGED <<schema, recorded, writer, run>> /\ writer = None
BY DEF Set, Put

LEMMA TypeStep == TypeOK /\ [Next]_vars => TypeOK'
<1> SUFFICES ASSUME TypeOK, [Next]_vars PROVE TypeOK'
  OBVIOUS
<1>1. CASE UNCHANGED vars
  BY <1>1 DEF vars, TypeOK
<1> SUFFICES ASSUME NEW r \in Runners, Step(r) PROVE TypeOK'
  BY <1>1 DEF Next
<1>2. CASE Begin(r) \/ Skip(r) \/ SchemaDone(r) \/ Keep(r) \/ Miss(r)
  <2>1. run' \in [Runners -> Places]
    BY <1>2, BeginGoes, SkipGoes, SchemaDoneGoes, KeepGoes, MissGoes
  <2>2. UNCHANGED <<schema, recorded, settings, writer>>
    BY <1>2 DEF Begin, Skip, SchemaDone, Keep, Miss
  <2> QED
    BY <2>1, <2>2 DEF TypeOK
<1>3. CASE Change(r)
  <2>1. run' \in [Runners -> Places]
    BY <1>3, ChangeGoes
  <2> QED
    BY <1>3, <2>1 DEF TypeOK, Change, Pending
<1>4. CASE Record(r)
  <2>1. run' \in [Runners -> Places]
    BY <1>4, RecordGoes
  <2>2. run[r].next \in Migrations
    BY <1>4, InSchemaAt DEF Record
  <2> QED
    BY <1>4, <2>1, <2>2 DEF TypeOK, Record
<1>5. CASE Insert(r)
  <2>1. run' \in [Runners -> Places]
    BY <1>5, InsertGoes
  <2> QED
    BY <1>5, <2>1 DEF TypeOK, Insert
<1>6. CASE ChangeFails(r) \/ RecordFails(r) \/ InsertFails(r) \/ Stop(r)
  <2>1. run' \in [Runners -> Places] /\ writer' \in Runners \cup {None}
    BY <1>6, Ends DEF TypeOK
  <2>2. UNCHANGED <<schema, recorded, settings>>
    BY <1>6 DEF ChangeFails, RecordFails, InsertFails, Stop
  <2> QED
    BY <2>1, <2>2 DEF TypeOK
<1>7. CASE Commit(r)
  <2>1. run' \in [Runners -> Places] /\ writer' \in Runners \cup {None}
    BY <1>7, Ends DEF TypeOK
  <2>2. settings' \in [Keys -> Values \cup {None}]
    BY <1>7, DefaultIsValue DEF TypeOK, Commit
  <2> QED
    BY <1>7, <2>1, <2>2 DEF TypeOK, Commit
<1>8. CASE \E k \in Keys, v \in Values : Set(r, k, v)
  BY <1>8 DEF TypeOK, Set, Put
<1> QED
  BY <1>2, <1>3, <1>4, <1>5, <1>6, <1>7, <1>8 DEF Step

-----------------------------------------------------------------------------
(* The schema and its record. *)

LEMMA OthersStay ==
    ASSUME TypeOK, NEW r \in Runners, Step(r)
    PROVE  \A q \in Runners \ {r} : run'[q] = run[q]
<1>1. CASE \E k \in Keys, v \in Values : Set(r, k, v)
  BY <1>1, SetStays
<1> QED
  BY <1>1, BeginGoes, SkipGoes, ChangeGoes, RecordGoes, SchemaDoneGoes, KeepGoes, MissGoes,
     InsertGoes, Ends DEF Step

LEMMA SchemaInit == Init => SchemaInv
<1> SUFFICES ASSUME Init PROVE SchemaInv
  OBVIOUS
<1>1. TypeOK
  BY TypeInit
<1>2. PICK n \in 0..Steps : schema = 1..n
  BY DEF Init
<1>3. RecordFollowsSchema
  BY <1>2, Counts DEF Init, RecordFollowsSchema
<1> QED
  BY <1>1, <1>3 DEF Init, SchemaInv, InOrder, Migrated, WritesAfterSchema, At, Off

\* Only two actions touch the schema or its record, and they only add to them.
LEMMA SchemaKept ==
    ASSUME NEW r \in Runners, Step(r)
    PROVE  /\ recorded \subseteq recorded' /\ schema \subseteq schema'
           /\ ~ Change(r) => schema' = schema
           /\ ~ Record(r) => recorded' = recorded
BY DEF Step, Begin, Skip, Change, ChangeFails, Record, RecordFails, SchemaDone, Keep, Miss,
       Insert, InsertFails, Commit, Set, Stop

LEMMA FollowsStep ==
    ASSUME SchemaInv, NEW r \in Runners, Step(r)
    PROVE  RecordFollowsSchema'
<1>1. PICK n \in 0..Steps :
          recorded = 1..n /\ recorded \subseteq schema /\ schema \subseteq 1..(n + 1)
  BY DEF SchemaInv, RecordFollowsSchema
<1> TypeOK
  BY DEF SchemaInv
<1>2. CASE Change(r)
  <2>1. run[r].next \in Migrations /\ 1..(run[r].next - 1) \subseteq recorded
    BY <1>2 DEF Change, Pending, SchemaInv, InOrder
  <2>2. run[r].next = 1 \/ run[r].next - 1 \in 1..(run[r].next - 1)
    BY <2>1, Counts DEF Migrations
  <2>3. run[r].next \in 1..(n + 1)
    BY <1>1, <2>1, <2>2, Counts DEF Migrations
  <2> QED
    BY <1>1, <1>2, <2>3 DEF Change, RecordFollowsSchema
<1>3. CASE Record(r)
  <2>1. /\ run[r].next \in Migrations /\ 1..(run[r].next - 1) \subseteq recorded
        /\ run[r].next \in schema /\ run[r].next \notin recorded
    BY <1>3, InSchemaAt DEF Record, SchemaInv, InOrder
  <2>2. run[r].next = n + 1 /\ n + 1 \in 0..Steps
    BY <1>1, <2>1, Counts DEF Migrations
  <2>3. recorded' = 1..(n + 1) /\ schema' = schema
    BY <1>1, <1>3, <2>2 DEF Record
  <2>4. recorded' \subseteq schema' /\ schema' \subseteq 1..((n + 1) + 1)
    BY <1>1, <2>1, <2>2, <2>3
  <2> QED
    BY <2>2, <2>3, <2>4 DEF RecordFollowsSchema
<1>4. CASE ~ Change(r) /\ ~ Record(r)
  BY <1>1, <1>4, SchemaKept DEF RecordFollowsSchema
<1> QED
  BY <1>2, <1>3, <1>4

LEMMA InOrderStep ==
    ASSUME SchemaInv, NEW r \in Runners, Step(r)
    PROVE  InOrder'
<1> TypeOK
  BY DEF SchemaInv
<1> SUFFICES ASSUME NEW q \in Runners, (At(q, "change") \/ At(q, "record"))'
             PROVE  /\ 1..(run'[q].next - 1) \subseteq recorded'
                    /\ run'[q].seen \subseteq recorded'
                    /\ run'[q].at = "record" => run'[q].next \in schema'
  BY DEF InOrder, At
<1>0. recorded \subseteq recorded' /\ schema \subseteq schema'
  BY SchemaKept
<1>1. CASE run'[q] = run[q]
  BY <1>0, <1>1 DEF SchemaInv, InOrder, At
<1>2. CASE q = r /\ Begin(r)
  BY <1>0, <1>2, BeginGoes
<1>3. CASE q = r /\ (Skip(r) \/ Change(r) \/ Record(r))
  <2>1. /\ 1..(run[r].next - 1) \subseteq recorded /\ run[r].seen \subseteq recorded
        /\ run[r].next \in 1..(Steps + 1)
    BY <1>3, InSchemaAt DEF Skip, Change, Pending, Record, SchemaInv, InOrder
  <2>2. CASE Skip(r)
    <3>1. run[r].next \in recorded
      BY <2>1, <2>2 DEF Skip
    <3>2. 1..((run[r].next + 1) - 1) \subseteq recorded
      BY <2>1, <3>1, Counts
    <3> QED
      BY <1>0, <1>3, <2>1, <2>2, <3>2, SkipGoes
  <2>3. CASE Change(r)
    BY <1>0, <1>3, <2>1, <2>3, ChangeGoes DEF Change
  <2>4. CASE Record(r)
    <3>1. run[r].next \in recorded'
      BY <2>4 DEF Record
    <3>2. 1..((run[r].next + 1) - 1) \subseteq recorded'
      BY <1>0, <2>1, <3>1, Counts
    <3> QED
      BY <1>0, <1>3, <2>1, <2>4, <3>2, RecordGoes
  <2> QED
    BY <1>3, <2>2, <2>3, <2>4
<1>4. CASE q = r /\ (SchemaDone(r) \/ Keep(r) \/ Miss(r) \/ Insert(r))
  <2>1. run'[r].at \in {"look", "insert"}
    BY <1>4, SchemaDoneGoes, KeepGoes, MissGoes, InsertGoes
  <2> QED
    BY <1>4, <2>1 DEF At
<1>5. CASE q = r /\ (ChangeFails(r) \/ RecordFails(r) \/ InsertFails(r) \/ Commit(r) \/ Stop(r))
  <2>1. run'[r].at \in {"off", "up", "failed"}
    BY <1>5, Ends
  <2> QED
    BY <1>5, <2>1 DEF At
<1>6. CASE \E k \in Keys, v \in Values : Set(r, k, v)
  BY <1>1, <1>6, SetStays
<1>7. q # r => run'[q] = run[q]
  BY OthersStay
<1> QED
  BY <1>1, <1>2, <1>3, <1>4, <1>5, <1>6, <1>7 DEF Step

LEMMA MigratedStep ==
    ASSUME SchemaInv, TypeOK', NEW r \in Runners, Step(r)
    PROVE  Migrated'
<1> TypeOK
  BY DEF SchemaInv
<1> SUFFICES ASSUME NEW q \in Runners, (At(q, "look") \/ At(q, "insert") \/ At(q, "up"))'
             PROVE  recorded' = Migrations
  BY DEF Migrated
<1>0. recorded \subseteq recorded' /\ recorded' \subseteq Migrations
  BY SchemaKept DEF TypeOK
<1>1. CASE run'[q] = run[q]
  BY <1>0, <1>1 DEF SchemaInv, Migrated, At
<1>2. CASE q = r /\ (Begin(r) \/ Skip(r) \/ Change(r) \/ Record(r))
  <2>1. run'[r].at \in {"change", "record"}
    BY <1>2, BeginGoes, SkipGoes, ChangeGoes, RecordGoes
  <2> QED
    BY <1>2, <2>1 DEF At
<1>3. CASE q = r /\ SchemaDone(r)
  <2>1. 1..(run[r].next - 1) \subseteq recorded /\ run[r].next = Steps + 1
    BY <1>3 DEF SchemaDone, SchemaInv, InOrder
  <2>2. Migrations \subseteq recorded
    BY <2>1, Counts DEF Migrations
  <2> QED
    BY <1>0, <2>2
<1>4. CASE q = r /\ (Keep(r) \/ Miss(r) \/ Insert(r))
  <2>1. At(r, "look") \/ At(r, "insert")
    BY <1>4 DEF Keep, Miss, Insert, MoreKeys
  <2> QED
    BY <1>0, <2>1 DEF SchemaInv, Migrated
<1>5. CASE q = r /\ (ChangeFails(r) \/ RecordFails(r) \/ InsertFails(r) \/ Commit(r) \/ Stop(r))
  <2>1. Commit(r)
    BY <1>5, Ends DEF At
  <2>2. At(r, "look")
    BY <2>1 DEF Commit
  <2> QED
    BY <1>0, <2>2 DEF SchemaInv, Migrated
<1>6. CASE \E k \in Keys, v \in Values : Set(r, k, v)
  BY <1>1, <1>6, SetStays
<1>7. q # r => run'[q] = run[q]
  BY OthersStay
<1> QED
  BY <1>1, <1>2, <1>3, <1>4, <1>5, <1>6, <1>7 DEF Step

LEMMA WritesStep ==
    ASSUME SchemaInv, TypeOK', NEW r \in Runners, Step(r)
    PROVE  WritesAfterSchema'
<1> TypeOK
  BY DEF SchemaInv
<1>1. recorded \subseteq recorded' /\ recorded' \subseteq Migrations
  BY SchemaKept DEF TypeOK
<1>2. CASE Insert(r)
  BY <1>1, <1>2 DEF Insert, SchemaInv, Migrated, WritesAfterSchema
<1>3. CASE ChangeFails(r) \/ RecordFails(r) \/ InsertFails(r) \/ Commit(r) \/ Stop(r)
  BY <1>1, <1>3, Ends DEF SchemaInv, WritesAfterSchema
<1>4. CASE UNCHANGED writer
  BY <1>1, <1>4 DEF SchemaInv, WritesAfterSchema
<1> QED
  BY <1>2, <1>3, <1>4
     DEF Step, Begin, Skip, Change, Record, SchemaDone, Keep, Miss, Set

LEMMA SchemaStep == SchemaInv /\ [Next]_vars => SchemaInv'
<1> SUFFICES ASSUME SchemaInv, [Next]_vars PROVE SchemaInv'
  OBVIOUS
<1>1. TypeOK'
  BY TypeStep DEF SchemaInv
<1>2. CASE UNCHANGED vars
  BY <1>1, <1>2 DEF SchemaInv, RecordFollowsSchema, InOrder, Migrated, WritesAfterSchema, At, vars
<1>3. CASE Next
  <2> PICK r \in Runners : Step(r)
    BY <1>3 DEF Next
  <2> QED
    BY <1>1, FollowsStep, InOrderStep, MigratedStep, WritesStep DEF SchemaInv
<1> QED
  BY <1>2, <1>3

-----------------------------------------------------------------------------
(* The settings. *)

\* What a step does to the value of a setting.
LEMMA ValueStep ==
    ASSUME IInv, NEW r \in Runners, Step(r), NEW k \in Keys, settings'[k] # settings[k]
    PROVE  \/ Commit(r) /\ k \in run[r].fresh /\ settings[k] = None /\ settings'[k] = Default
           \/ \E v \in Values : Set(r, k, v) /\ settings'[k] = v
<1> TypeOK
  BY DEF IInv, SchemaInv
<1>1. CASE Commit(r)
  <2>1. settings'[k] = IF k \in run[r].fresh THEN Default ELSE settings[k]
    BY <1>1 DEF Commit
  <2>2. k \in run[r].fresh => settings[k] = None
    BY <1>1 DEF Commit, IInv, Inserting
  <2> QED
    BY <1>1, <2>1, <2>2
<1>2. CASE \E j \in Keys, v \in Values : Set(r, j, v)
  <2> PICK j \in Keys, v \in Values : Set(r, j, v)
    BY <1>2
  <2> QED
    BY DEF Set, Put, TypeOK
<1>3. CASE UNCHANGED settings
  BY <1>3
<1> QED
  BY <1>1, <1>2, <1>3 DEF Step, Begin, Skip, Change, ChangeFails, Record, RecordFails,
     SchemaDone, Keep, Miss, Insert, InsertFails, Stop

\* No setting loses its value.
LEMMA ValuesStay ==
    ASSUME IInv, NEW r \in Runners, Step(r), NEW k \in Keys, settings[k] # None
    PROVE  settings'[k] # None
BY ValueStep, DefaultIsValue, NoneIsNoValue

\* A setting gets a value while nobody else has a transaction.
LEMMA NoneStays ==
    ASSUME IInv, NEW r \in Runners, Step(r), NEW q \in Runners \ {r}, writer = q,
           NEW k \in Keys, settings[k] = None
    PROVE  settings'[k] = None /\ writer' = q
<1> TypeOK
  BY DEF IInv, SchemaInv
<1>1. ~ \E j \in Keys, v \in Values : Set(r, j, v)
  BY NoneIsNoRunner DEF Set, Put
<1>2. Commit(r) => k \notin run[r].fresh
  BY DEF Commit, IInv, Inserting
<1>3. ~ Insert(r)
  BY NoneIsNoRunner DEF Insert, CanWrite
<1>4. CASE ChangeFails(r) \/ RecordFails(r) \/ InsertFails(r) \/ Commit(r) \/ Stop(r)
  BY <1>1, <1>2, <1>4, Ends, ValueStep
<1>5. CASE UNCHANGED <<settings, writer>>
  BY <1>5
<1> QED
  BY <1>1, <1>3, <1>4, <1>5
     DEF Step, Begin, Skip, Change, Record, SchemaDone, Keep, Miss

LEMMA InsertingStep ==
    ASSUME IInv, NEW r \in Runners, Step(r)
    PROVE  Inserting'
<1> TypeOK
  BY DEF IInv, SchemaInv
<1> SUFFICES ASSUME NEW q \in Runners, (At(q, "look") \/ At(q, "insert"))'
             PROVE  /\ \A k \in 1..(run'[q].key - 1) : settings'[k] # None \/ k \in run'[q].fresh
                    /\ \A k \in run'[q].fresh : settings'[k] = None /\ writer' = q
  BY DEF Inserting
<1>1. CASE q # r
  <2>1. run'[q] = run[q] /\ (At(q, "look") \/ At(q, "insert"))
    BY <1>1, OthersStay DEF At
  <2>2. /\ \A k \in 1..(run[q].key - 1) : settings[k] # None \/ k \in run[q].fresh
        /\ \A k \in run[q].fresh : settings[k] = None /\ writer = q
    BY <2>1 DEF IInv, Inserting
  <2>3. run[q].key \in 1..(KeyCount + 1) /\ run[q].fresh \subseteq Keys
    BY <2>1, InSettingsAt
  <2>4. 1..(run[q].key - 1) \subseteq Keys
    BY <2>3, Counts DEF Keys
  <2>5. ASSUME NEW k \in 1..(run[q].key - 1) PROVE settings'[k] # None \/ k \in run[q].fresh
    BY <2>2, <2>4, ValuesStay
  <2>6. ASSUME NEW k \in run[q].fresh PROVE settings'[k] = None /\ writer' = q
    BY <1>1, <2>2, <2>3, <2>6, NoneStays
  <2> QED
    BY <2>1, <2>5, <2>6
<1>2. CASE q = r /\ SchemaDone(r)
  BY <1>2, SchemaDoneGoes
<1>3. CASE q = r /\ (Keep(r) \/ Miss(r) \/ Insert(r))
  <2>1. (At(r, "look") \/ At(r, "insert")) /\ UNCHANGED settings
    BY <1>3 DEF Keep, Miss, Insert, MoreKeys
  <2>2. /\ \A k \in 1..(run[r].key - 1) : settings[k] # None \/ k \in run[r].fresh
        /\ \A k \in run[r].fresh : settings[k] = None /\ writer = r
    BY <2>1 DEF IInv, Inserting
  <2>3. run[r].key \in 1..(KeyCount + 1)
    BY <2>1, InSettingsAt
  <2>4. CASE Keep(r)
    <3>1. settings[run[r].key] # None
      BY <2>4 DEF Keep
    <3>2. \A k \in 1..((run[r].key + 1) - 1) : k \in 1..(run[r].key - 1) \/ k = run[r].key
      BY <2>3, Counts
    <3>3. run'[r].key = run[r].key + 1 /\ run'[r].fresh = run[r].fresh
      BY <2>4, KeepGoes
    <3> QED
      BY <1>3, <2>1, <2>2, <2>4, <3>1, <3>2, <3>3 DEF Keep
  <2>5. CASE Miss(r)
    BY <1>3, <2>1, <2>2, <2>5, MissGoes DEF Miss
  <2>6. CASE Insert(r)
    <3>1. settings[run[r].key] = None /\ writer' = r
      BY <2>6 DEF Insert
    <3>2. \A k \in 1..((run[r].key + 1) - 1) : k \in 1..(run[r].key - 1) \/ k = run[r].key
      BY <2>3, Counts
    <3>3. run'[r].key = run[r].key + 1 /\ run'[r].fresh = run[r].fresh \cup {run[r].key}
      BY <2>6, InsertGoes
    <3> QED
      BY <1>3, <2>1, <2>2, <3>1, <3>2, <3>3
  <2> QED
    BY <1>3, <2>4, <2>5, <2>6
<1>4. CASE q = r /\ (Begin(r) \/ Skip(r) \/ Change(r) \/ Record(r))
  <2>1. run'[r].at \in {"change", "record"}
    BY <1>4, BeginGoes, SkipGoes, ChangeGoes, RecordGoes
  <2> QED
    BY <1>4, <2>1 DEF At
<1>5. CASE q = r /\ (ChangeFails(r) \/ RecordFails(r) \/ InsertFails(r) \/ Commit(r) \/ Stop(r))
  <2>1. run'[r].at \in {"off", "up", "failed"}
    BY <1>5, Ends
  <2> QED
    BY <1>5, <2>1 DEF At
<1>6. CASE q = r /\ \E k \in Keys, v \in Values : Set(r, k, v)
  <2>1. At(r, "up") /\ run' = run
    BY <1>6 DEF Set, Put
  <2> QED
    BY <1>6, <2>1 DEF At
<1> QED
  BY <1>1, <1>2, <1>3, <1>4, <1>5, <1>6 DEF Step

LEMMA AllSetStep ==
    ASSUME IInv, NEW r \in Runners, Step(r)
    PROVE  AllSet'
<1> TypeOK
  BY DEF IInv, SchemaInv
<1> SUFFICES ASSUME NEW q \in Runners, At(q, "up")', NEW k \in Keys
             PROVE  settings'[k] # None
  BY DEF AllSet
<1>1. CASE At(q, "up")
  BY <1>1, ValuesStay DEF IInv, AllSet
<1>2. CASE ~ At(q, "up")
  <2>1. q = r
    BY <1>2, OthersStay DEF At
  <2>2. run'[r].at = "up" /\ run[r].at # "up"
    BY <1>2, <2>1 DEF At
  <2>3. Commit(r)
    BY <2>2, SetStays, BeginGoes, SkipGoes, ChangeGoes, RecordGoes, SchemaDoneGoes, KeepGoes,
       MissGoes, InsertGoes, Ends DEF Step
  <2>4. \A j \in 1..((KeyCount + 1) - 1) : settings[j] # None \/ j \in run[r].fresh
    BY <2>3 DEF Commit, IInv, Inserting
  <2>5. settings[k] # None \/ k \in run[r].fresh
    BY <2>4, Counts DEF Keys
  <2>6. settings'[k] = IF k \in run[r].fresh THEN Default ELSE settings[k]
    BY <2>3 DEF Commit
  <2> QED
    BY <2>5, <2>6, DefaultIsValue, NoneIsNoValue
<1> QED
  BY <1>1, <1>2

LEMMA IInvInit == Init => IInv
BY SchemaInit DEF IInv, Init, Inserting, AllSet, At, Off

LEMMA IInvStep == IInv /\ [Next]_vars => IInv'
<1> SUFFICES ASSUME IInv, [Next]_vars PROVE IInv'
  OBVIOUS
<1>1. SchemaInv'
  BY SchemaStep DEF IInv
<1>2. CASE UNCHANGED vars
  BY <1>1, <1>2 DEF IInv, Inserting, AllSet, At, vars
<1>3. CASE Next
  <2> PICK r \in Runners : Step(r)
    BY <1>3 DEF Next
  <2> QED
    BY <1>1, InsertingStep, AllSetStep DEF IInv
<1> QED
  BY <1>2, <1>3

LEMMA Invariant == Spec => []IInv
BY IInvInit, IInvStep, PTL DEF Spec

-----------------------------------------------------------------------------
(* Theorems. *)

\* Every reachable state is well typed.
THEOREM TypeCorrect == Spec => []TypeOK
<1>1. IInv => TypeOK
  BY DEF IInv, SchemaInv
<1> QED
  BY <1>1, Invariant, PTL

\* For any number of runs of migrate_schema.py, however they overlap, fail and crash, and
\* any migrations: they are recorded in their order and after they took effect, and the
\* schema is at most one migration ahead of the record.
THEOREM RecordIsFaithful == Spec => []RecordFollowsSchema
<1>1. IInv => RecordFollowsSchema
  BY DEF IInv, SchemaInv
<1> QED
  BY <1>1, Invariant, PTL

\* For any number of runs, a server only ever runs on a database with every migration and
\* a value for every setting.
THEOREM ServerFindsAll == Spec => []UpIsReady
<1>1. IInv => UpIsReady
  <2> SUFFICES ASSUME IInv, NEW r \in Runners, At(r, "up")
               PROVE  schema = Migrations /\ recorded = Migrations
                      /\ \A k \in Keys : settings[k] # None
    BY DEF UpIsReady
  <2>1. recorded = Migrations
    BY DEF IInv, SchemaInv, Migrated
  <2>2. schema = Migrations
    BY <2>1 DEF IInv, SchemaInv, TypeOK, RecordFollowsSchema
  <2> QED
    BY <2>1, <2>2 DEF IInv, AllSet
<1> QED
  BY <1>1, Invariant, PTL

\* For any number of runs of migrate_settings.py, which looks before it inserts, no value
\* that a setting has is ever replaced, but by an administrator.
THEOREM NoValueIsReplaced == Spec => SettingsAreKept
<1> DEFINE Kept == \A k \in Keys : settings[k] # None /\ settings'[k] # settings[k] =>
                     \E r \in Runners, v \in Values : Set(r, k, v)
<1>1. IInv /\ [Next]_vars => [Kept]_vars
  <2> SUFFICES ASSUME IInv, Next, NEW k \in Keys, settings[k] # None, settings'[k] # settings[k]
               PROVE  \E r \in Runners, v \in Values : Set(r, k, v)
    OBVIOUS
  <2> PICK r \in Runners : Step(r)
    BY DEF Next
  <2> QED
    BY ValueStep
<1> QED
  BY <1>1, Invariant, PTL DEF Spec, SettingsAreKept

=============================================================================
