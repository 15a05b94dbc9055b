------------------------------- MODULE Backups -------------------------------
(***************************************************************************)
(* backup.py and restore.py.  The service's backup loop and operators'     *)
(* backup.py run the same steps over one scratch directory and one         *)
(* directory of archives; an operator restores the database from an        *)
(* archive while the service may be running.                               *)
(*                                                                         *)
(* Of a file in the scratch directory the model says which run wrote it,   *)
(* of a database which committed changes are in it.  The database is in    *)
(* WAL mode: its main file lags behind what readers see until a checkpoint.*)
(***************************************************************************)
EXTENDS Naturals, FiniteSets

CONSTANTS
    Tables,      \* the tables of the database
    Changes,     \* changes of rows that transactions commit
    Coins,       \* the coins whose wallet.dat is saved
    Runners,     \* runs of run_backup that may overlap
    Nobody,      \* no run, or one that has ended: what a scratch file may be of
    KeepCount,   \* how many archives cleanup_old_backups keeps
    MaxTime      \* bound: the seconds archives are named after

Parts == Tables \cup Coins
Times == 0..MaxTime

ASSUME KeepCountIsNat == KeepCount \in Nat
ASSUME MaxTimeIsNat == MaxTime \in Nat
ASSUME NobodyIsNoRun == Nobody \notin Runners
ASSUME TablesAreNoCoins == Tables \cap Coins = {}

\* The dump as a file: absent, without its COMMIT, complete, or written by two
\* runs at once.
Dumps == {"missing", "partial", "whole", "mixed"}

VARIABLES
    clock,
    live,      \* the changes in the database, as a reader sees it
    file,      \* the same, of the main database file alone
    exists,    \* whether there is a database file
    settled,   \* history: changes a checkpoint wrote to the main file, other than
               \* between a restore's copy of that file and its removal
    configs,   \* whether there is a table wallet_configs: no migration makes it
    temp,      \* whether the scratch directory exists
    dump,      \* the dump in it
    writer,    \* which run wrote each part that is in it
    names,     \* the archives there are
    pc,        \* where each run is
    todo,      \* the tables it has yet to dump, or the wallets yet to copy
    found,     \* whether it has backed up anything
    linked,    \* whether it has the scratch directory's dump open
    old,       \* the archives it is about to remove
    alone,     \* history: no other run, restore or failure since it began
    restore,   \* where the restore is
    kept       \* the pre_restore copies: the changes in each

databaseVars == <<live, file, exists, settled, configs>>
scratchVars  == <<temp, dump, writer>>
runVars      == <<pc, todo, found, linked, old, alone>>
restoreVars  == <<restore, kept>>
vars == <<clock, databaseVars, scratchVars, names, runVars, restoreVars>>

Places == {"idle", "open", "dump", "wallets", "fill", "rmtree", "list", "prune"}

TypeOK ==
    /\ clock \in Times
    /\ live \subseteq Changes /\ file \subseteq Changes /\ settled \subseteq Changes
    /\ exists \in BOOLEAN
    /\ configs \in BOOLEAN
    /\ temp \in BOOLEAN
    /\ dump \in Dumps
    /\ writer \in [Parts -> Runners \cup {Nobody}]
    /\ names \subseteq Times
    /\ pc \in [Runners -> Places]
    /\ todo \in [Runners -> SUBSET Parts]
    /\ found \in [Runners -> BOOLEAN]
    /\ linked \in [Runners -> BOOLEAN]
    /\ \A r \in Runners :
          /\ pc[r] = "dump" => todo[r] \subseteq Tables
          /\ pc[r] = "wallets" => todo[r] \subseteq Coins
          /\ pc[r] # "dump" => ~ linked[r]
    /\ old \in [Runners -> SUBSET Times]
    /\ alone \in [Runners -> BOOLEAN]
    /\ restore \in {"idle", "copy", "remove", "script"}
    /\ kept \subseteq SUBSET Changes

\* A service that has started: the migrations' connection has been closed, and
\* with it the log.
Init ==
    /\ clock = 0
    /\ live = {} /\ file = {} /\ exists = TRUE /\ settled = {}
    /\ configs \in BOOLEAN
    /\ temp = FALSE /\ dump = "missing" /\ writer = [p \in Parts |-> Nobody]
    /\ names = {}
    /\ pc = [r \in Runners |-> "idle"]
    /\ todo = [r \in Runners |-> {}]
    /\ found = [r \in Runners |-> FALSE]
    /\ linked = [r \in Runners |-> FALSE]
    /\ old = [r \in Runners |-> {}]
    /\ alone = [r \in Runners |-> FALSE]
    /\ restore = "idle" /\ kept = {}

-----------------------------------------------------------------------------
(* run_backup. *)

At(r, place) == pc[r] = place
Goto(r, place) == pc' = [pc EXCEPT ![r] = place]
Todo(r, S) == todo' = [todo EXCEPT ![r] = S]
Found(r, b) == found' = [found EXCEPT ![r] = b]
Disturbed(R) == alone' = [r \in Runners |-> alone[r] /\ r \notin R]

\* The dump is closed.  LeftOpen is a faulty variant, for the mutation checks.
LeftOpen(R) == linked' = linked
Unlinked(R) == linked' = [r \in Runners |-> linked[r] /\ r \notin R]

\* run_backup returns or raises, or its process ends: its locals are gone.
Leave(r) ==
    /\ Goto(r, "idle")
    /\ Todo(r, {})
    /\ Found(r, FALSE)
    /\ old' = [old EXCEPT ![r] = {}]
    /\ Disturbed({r})

\* The scratch directory is made unless it is there, with what a run that did not
\* end has left in it.
Begin(r) ==
    LET others == {q \in Runners \ {r} : pc[q] # "idle"} IN
    /\ At(r, "idle")
    /\ Goto(r, "open")
    /\ temp' = TRUE
    /\ writer' = [p \in Parts |-> IF writer[p] = r THEN Nobody ELSE writer[p]]
    /\ alone' = [q \in Runners |-> q = r /\ others = {} /\ restore = "idle"]
    /\ UNCHANGED <<clock, databaseVars, dump, names, todo, found, linked, old, restoreVars>>

\* backup_database: no database, or the file cannot be opened (another run has
\* removed the directory).
SkipDump(r) ==
    /\ At(r, "open")
    /\ ~ exists \/ ~ temp
    /\ Goto(r, "wallets")
    /\ Todo(r, Coins)
    /\ Disturbed({r})
    /\ UNCHANGED <<clock, databaseVars, scratchVars, names, found, linked, old, restoreVars>>

\* The file is truncated.  KeptDump is a faulty variant, for the mutation checks.
KeptDump(r) == UNCHANGED <<dump, writer>>
TruncatedDump(r) ==
    /\ dump' = IF \E q \in Runners \ {r} : linked[q] THEN "mixed" ELSE "partial"
    /\ writer' = [p \in Parts |-> IF p \in Tables THEN Nobody ELSE writer[p]]

OpenDump(r) ==
    /\ At(r, "open")
    /\ exists /\ temp
    /\ TruncatedDump(r)
    /\ linked' = [linked EXCEPT ![r] = TRUE]
    /\ Todo(r, Tables)
    /\ Goto(r, "dump")
    /\ UNCHANGED <<clock, databaseVars, temp, names, found, old, alone, restoreVars>>

\* iterdump reads one table after the other, each as it is by then.  A file that
\* has been removed is written on where nobody will look.
DumpTable(r, t) ==
    /\ At(r, "dump") /\ t \in todo[r]
    /\ Todo(r, todo[r] \ {t})
    /\ writer' = IF linked[r] THEN [writer EXCEPT ![t] = r] ELSE writer
    /\ UNCHANGED <<clock, databaseVars, temp, dump, names, pc, found, linked, old, alone,
                   restoreVars>>

\* The last line is COMMIT.
DumpDone(r) ==
    /\ At(r, "dump") /\ todo[r] = {}
    /\ dump' = IF linked[r] /\ dump = "partial" THEN "whole" ELSE dump
    /\ Unlinked({r})
    /\ Found(r, TRUE)
    /\ Todo(r, Coins)
    /\ Goto(r, "wallets")
    /\ UNCHANGED <<clock, databaseVars, temp, writer, names, old, alone, restoreVars>>

\* The exception is logged; the file stays as far as it got.
DumpFails(r) ==
    /\ At(r, "dump")
    /\ Unlinked({r})
    /\ Todo(r, Coins)
    /\ Goto(r, "wallets")
    /\ Disturbed({r})
    /\ UNCHANGED <<clock, databaseVars, scratchVars, names, found, old, restoreVars>>

\* backup_wallet_dat, with the path that wallet_configs holds.
CopyWallet(r, c) ==
    /\ At(r, "wallets") /\ c \in todo[r]
    /\ configs /\ temp
    /\ writer' = [writer EXCEPT ![c] = r]
    /\ Todo(r, todo[r] \ {c})
    /\ Found(r, TRUE)
    /\ UNCHANGED <<clock, databaseVars, temp, dump, names, pc, linked, old, alone, restoreVars>>

\* No wallet there, or the copy fails, having truncated the file or not.
MissWallet(r, c) ==
    /\ At(r, "wallets") /\ c \in todo[r]
    /\ configs
    /\ Todo(r, todo[r] \ {c})
    /\ writer' = [writer EXCEPT ![c] = Nobody] \/ writer' = writer
    /\ Disturbed({r})
    /\ UNCHANGED <<clock, databaseVars, temp, dump, names, pc, found, linked, old, restoreVars>>

\* "No wallet path configured": without the table get_wallet_path answers None, and
\* initialize_wallet_configs can enter no path.
SkipWallet(r, c) ==
    /\ At(r, "wallets") /\ c \in todo[r]
    /\ ~ configs
    /\ Todo(r, todo[r] \ {c})
    /\ UNCHANGED <<clock, databaseVars, scratchVars, names, pc, found, linked, old, alone,
                   restoreVars>>

\* rmtree of the scratch directory; errors are ignored.
RemoveScratch ==
    /\ temp' = FALSE
    /\ dump' = "missing"
    /\ writer' = [p \in Parts |-> Nobody]
    /\ Unlinked(Runners)

GiveUp(r) ==
    /\ At(r, "wallets") /\ todo[r] = {} /\ ~ found[r]
    /\ RemoveScratch
    /\ Leave(r)
    /\ UNCHANGED <<clock, databaseVars, names, restoreVars>>

\* create_backup_archive: an archive of the same second is overwritten.
OpenArchive(r) ==
    /\ At(r, "wallets") /\ todo[r] = {} /\ found[r]
    /\ names' = names \cup {clock}
    /\ Goto(r, "fill")
    /\ UNCHANGED <<clock, databaseVars, scratchVars, todo, found, linked, old, alone,
                   restoreVars>>

\* Whatever is in the directory goes in.  What an archive holds is not kept here:
\* an operator may restore from any file of the kind.
FillArchive(r) ==
    /\ At(r, "fill")
    /\ Goto(r, "rmtree")
    /\ UNCHANGED <<clock, databaseVars, scratchVars, names, todo, found, linked, old, alone,
                   restoreVars>>

RmTree(r) ==
    /\ At(r, "rmtree")
    /\ RemoveScratch
    /\ Goto(r, "list")
    /\ UNCHANGED <<clock, databaseVars, names, todo, found, old, alone, restoreVars>>

\* The process ends, or run_backup raises: a file is gone when it is to be
\* archived, the disk is full.
Crash(r) ==
    /\ pc[r] # "idle"
    /\ Leave(r)
    /\ Unlinked({r})
    /\ UNCHANGED <<clock, databaseVars, scratchVars, names, restoreVars>>

-----------------------------------------------------------------------------
(* cleanup_old_backups. *)

Newer(n, S) == {m \in S : m > n}

\* backups[keep_count:] of the listing in falling order.  FromKeepCount is a faulty
\* variant, for the mutation checks.
FromKeepCount(S) == {n \in S : Cardinality(Newer(n, S)) >= KeepCount - 1}
KeepsOneMore(S) == {n \in S : Cardinality(Newer(n, S)) > KeepCount}
BeyondKeepCount(S) == {n \in S : Cardinality(Newer(n, S)) >= KeepCount}

ListArchives(r) ==
    /\ At(r, "list")
    /\ old' = [old EXCEPT ![r] = BeyondKeepCount(names)]
    /\ Goto(r, "prune")
    /\ UNCHANGED <<clock, databaseVars, scratchVars, names, todo, found, linked, alone,
                   restoreVars>>

RemoveOld(r, n) ==
    /\ At(r, "prune") /\ n \in old[r]
    /\ old' = [old EXCEPT ![r] = @ \ {n}]
    /\ names' = names \ {n}
    /\ UNCHANGED <<clock, databaseVars, scratchVars, pc, todo, found, linked, alone,
                   restoreVars>>

\* os.remove fails: it is logged.
RemoveFails(r, n) ==
    /\ At(r, "prune") /\ n \in old[r]
    /\ old' = [old EXCEPT ![r] = @ \ {n}]
    /\ Disturbed({r})
    /\ UNCHANGED <<clock, databaseVars, scratchVars, names, pc, todo, found, linked,
                   restoreVars>>

Finish(r) ==
    /\ At(r, "prune") /\ old[r] = {}
    /\ Leave(r)
    /\ UNCHANGED <<clock, databaseVars, scratchVars, names, linked, restoreVars>>

-----------------------------------------------------------------------------
(* restore_backup, as far as the database goes: a restored wallet is written *)
(* to datadir/wallets, where by default neither the daemon nor a backup      *)
(* looks for it.                                                             *)

Apart == UNCHANGED <<clock, scratchVars, names, pc, todo, found, linked, old>>

\* Any archive with a dump, made here or copied in.
Extract ==
    /\ restore = "idle"
    /\ restore' = "copy"
    /\ Disturbed(Runners)
    /\ Apart
    /\ UNCHANGED <<databaseVars, kept>>

\* shutil.copy2 copies the main file, without the log.  The copy is named after the
\* second; no two restores begin in the same one.  CopyOverLast is a faulty variant,
\* for the mutation checks.
CopyOverLast == kept' = IF exists THEN {file} ELSE kept
CopyMainFile == kept' = IF exists THEN kept \cup {file} ELSE kept
CopyFile ==
    /\ restore = "copy"
    /\ CopyMainFile
    /\ restore' = "remove"
    /\ Apart
    /\ UNCHANGED <<databaseVars, alone>>

\* SQLite drops the log of a database file that is gone.
RemoveFile ==
    /\ restore = "remove"
    /\ exists' = FALSE /\ live' = {} /\ file' = {}
    /\ restore' = "script"
    /\ Apart
    /\ UNCHANGED <<settled, configs, alone, kept>>

\* executescript fails on a table that is there, which may have no rows.  Of a dump
\* without its COMMIT nothing stays when the connection is closed, and nobody is
\* told; what two runs wrote may be SQL or not.
Runs(read) ==
    IF live # {} \/ read = "partial" THEN {FALSE}
    ELSE IF read = "whole" /\ ~ exists THEN {TRUE} ELSE BOOLEAN

RunScript ==
    /\ restore = "script"
    /\ exists' = TRUE
    /\ \E read \in Dumps \ {"missing"}, rows \in SUBSET Changes : \E done \in Runs(read) :
          /\ live' = IF done THEN rows ELSE live
          /\ file' = IF done THEN rows ELSE file
    /\ restore' = "idle"
    /\ Apart
    /\ UNCHANGED <<settled, configs, alone, kept>>

\* An exception, or the end of the script's process.
RestoreStops ==
    /\ restore # "idle"
    /\ restore' = "idle"
    /\ Apart
    /\ UNCHANGED <<databaseVars, alone, kept>>

-----------------------------------------------------------------------------
(* The service and the clock. *)

Elsewhere == UNCHANGED <<scratchVars, names, runVars, restoreVars>>

Commit(w) ==
    /\ exists
    /\ live' = live \cup {w}
    /\ Elsewhere
    /\ UNCHANGED <<clock, file, exists, settled, configs>>

Checkpoint ==
    /\ exists
    /\ file' = live
    /\ settled' = IF restore = "remove" THEN settled ELSE settled \cup live
    /\ Elsewhere
    /\ UNCHANGED <<clock, live, exists, configs>>

\* A new connection makes the file that is missing.
Connect ==
    /\ ~ exists
    /\ exists' = TRUE
    /\ Elsewhere
    /\ UNCHANGED <<clock, live, file, settled, configs>>

Tick ==
    /\ clock < MaxTime
    /\ clock' = clock + 1
    /\ Elsewhere
    /\ UNCHANGED databaseVars

-----------------------------------------------------------------------------

RunStep(r) ==
    \/ Begin(r)
    \/ SkipDump(r) \/ OpenDump(r) \/ DumpDone(r) \/ DumpFails(r)
    \/ \E t \in Tables : DumpTable(r, t)
    \/ \E c \in Coins : CopyWallet(r, c) \/ MissWallet(r, c) \/ SkipWallet(r, c)
    \/ GiveUp(r) \/ OpenArchive(r) \/ FillArchive(r) \/ RmTree(r)
    \/ ListArchives(r) \/ Finish(r)
    \/ \E n \in old[r] : RemoveOld(r, n) \/ RemoveFails(r, n)
    \/ Crash(r)

RestoreStep ==
    \/ Extract \/ CopyFile \/ RemoveFile \/ RunScript \/ RestoreStops

ServiceStep == (\E w \in Changes : Commit(w)) \/ Checkpoint \/ Connect \/ Tick

Next == (\E r \in Runners : RunStep(r)) \/ RestoreStep \/ ServiceStep

Spec == Init /\ [][Next]_vars

-----------------------------------------------------------------------------
(* Properties. *)

\* However cleanups overlap, each working from its own listing, and archives are
\* made meanwhile, an archive goes only while KeepCount newer ones stay.
NewestArchivesStay ==
    [][\A n \in names \ names' : Cardinality(Newer(n, names')) >= KeepCount]_vars

\* A run that nothing disturbed leaves no more than KeepCount archives, whatever
\* runs before it failed to remove.
ArchivesAreBounded ==
    [][\A r \in Runners : Finish(r) /\ alone[r] => Cardinality(names) =< KeepCount]_vars

\* What a backup has to hold: of the wallets nothing, without the table of their paths.
Due == Tables \cup (IF configs THEN Coins ELSE {})

\* A run that nothing disturbed archives a complete dump and, when their paths are
\* known, every wallet, each table and wallet as read in this run: what runs that
\* failed or ended early have left in the scratch directory does not get into it.
UndisturbedBackupIsFresh ==
    [][\A r \in Runners : FillArchive(r) /\ alone[r] =>
         dump = "whole" /\ \A p \in Due : writer[p] = r]_vars

\* Over any number of restores, in whole or in part, of whatever archives, with the
\* service running beside them, what a checkpoint has written stays in the database or
\* in a pre_restore copy, unless it was written between a restore's copy of the file
\* and its removal.
CheckpointedSurvives == settled \subseteq live \cup UNION kept

\* "A backup of the current state is created automatically before restoring": what a
\* reader of the database sees is what the copy holds.
CopyIsCurrent == [][CopyFile /\ exists => live \in kept']_vars
=============================================================================
