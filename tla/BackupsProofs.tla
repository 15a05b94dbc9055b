---------------------------- MODULE BackupsProofs ----------------------------
(***************************************************************************)
(* Theorems about Backups for any tables, wallets, runs that overlap and   *)
(* number of archives kept.                                                *)
(***************************************************************************)
EXTENDS Backups, FiniteSetTheorems, WellFoundedInduction, TLAPS

(* What the steps share. *)

LEMMA LeaveType ==
    ASSUME TypeOK, NEW r \in Runners, Leave(r)
    PROVE  /\ pc' \in [Runners -> Places] /\ pc'[r] = "idle"
           /\ \A q \in Runners \ {r} : pc'[q] = pc[q] /\ todo'[q] = todo[q] /\ old'[q] = old[q]
           /\ todo' \in [Runners -> SUBSET Parts]
           /\ found' \in [Runners -> BOOLEAN]
           /\ old' \in [Runners -> SUBSET Times] /\ old'[r] = {}
           /\ alone' \in [Runners -> BOOLEAN]
           /\ ~ alone'[r]
           /\ \A q \in Runners : alone'[q] => alone[q]
BY DEF Leave, Goto, Todo, Found, Disturbed, TypeOK, Places

LEMMA ScratchType ==
    ASSUME RemoveScratch
    PROVE  /\ temp' = FALSE /\ dump' \in Dumps
           /\ writer' \in [Parts -> Runners \cup {Nobody}]
           /\ linked' \in [Runners -> BOOLEAN]
           /\ \A q \in Runners : ~ linked'[q]
BY DEF RemoveScratch, Unlinked, Dumps

-----------------------------------------------------------------------------
(* Types. *)

LEMMA TypeInit == Init => TypeOK
<1> SUFFICES ASSUME Init PROVE TypeOK
  OBVIOUS
<1>1. 0 \in Times
  BY MaxTimeIsNat DEF Times
<1> QED
  BY <1>1 DEF Init, TypeOK, Dumps, Places, Parts

LEMMA TypeRun ==
    ASSUME TypeOK, NEW r \in Runners,
           \/ Begin(r) \/ SkipDump(r) \/ OpenDump(r) \/ DumpDone(r) \/ DumpFails(r)
           \/ \E t \in Tables : DumpTable(r, t)
    PROVE  TypeOK'
<1>1. CASE Begin(r)
  BY <1>1 DEF Begin, At, Goto, TypeOK, Places, databaseVars, restoreVars, Parts
<1>2. CASE SkipDump(r)
  BY <1>2 DEF SkipDump, At, Goto, Todo, Disturbed, TypeOK, Places, databaseVars, scratchVars,
              restoreVars, Parts
<1>3. CASE OpenDump(r)
  BY <1>3 DEF OpenDump, TruncatedDump, At, Goto, Todo, TypeOK, Places, Dumps, databaseVars,
              restoreVars, Parts
<1>4. CASE DumpDone(r)
  BY <1>4 DEF DumpDone, At, Goto, Todo, Found, Unlinked, TypeOK, Places, Dumps, databaseVars,
              restoreVars, Parts
<1>5. CASE DumpFails(r)
  BY <1>5 DEF DumpFails, At, Goto, Todo, Unlinked, Disturbed, TypeOK, Places, databaseVars,
              scratchVars, restoreVars, Parts
<1>6. CASE \E t \in Tables : DumpTable(r, t)
  BY <1>6 DEF DumpTable, At, Todo, TypeOK, databaseVars, restoreVars, Parts
<1> QED
  BY <1>1, <1>2, <1>3, <1>4, <1>5, <1>6

LEMMA TypeArchive ==
    ASSUME TypeOK, NEW r \in Runners,
           \/ \E c \in Coins : CopyWallet(r, c) \/ MissWallet(r, c) \/ SkipWallet(r, c)
           \/ GiveUp(r) \/ OpenArchive(r) \/ FillArchive(r) \/ RmTree(r)
    PROVE  TypeOK'
<1>1. CASE \E c \in Coins : CopyWallet(r, c)
  BY <1>1 DEF CopyWallet, At, Todo, Found, TypeOK, databaseVars, restoreVars, Parts
<1>2. CASE \E c \in Coins : MissWallet(r, c)
  BY <1>2 DEF MissWallet, At, Todo, Disturbed, TypeOK, databaseVars, restoreVars, Parts
<1>3. CASE GiveUp(r)
  BY <1>3, LeaveType, ScratchType DEF GiveUp, TypeOK, databaseVars, restoreVars
<1>4. CASE OpenArchive(r)
  BY <1>4 DEF OpenArchive, At, Goto, TypeOK, Places, databaseVars, scratchVars, restoreVars
<1>5. CASE FillArchive(r)
  BY <1>5 DEF FillArchive, At, Goto, TypeOK, Places, databaseVars, scratchVars, restoreVars
<1>6. CASE RmTree(r)
  BY <1>6, ScratchType DEF RmTree, At, Goto, TypeOK, Places, databaseVars, restoreVars
<1>7. CASE \E c \in Coins : SkipWallet(r, c)
  BY <1>7 DEF SkipWallet, At, Todo, TypeOK, databaseVars, scratchVars, restoreVars, Parts
<1> QED
  BY <1>1, <1>2, <1>3, <1>4, <1>5, <1>6, <1>7

LEMMA TypeCleanup ==
    ASSUME TypeOK, NEW r \in Runners,
           \/ ListArchives(r) \/ Finish(r) \/ Crash(r)
           \/ \E n \in old[r] : RemoveOld(r, n) \/ RemoveFails(r, n)
    PROVE  TypeOK'
<1>1. CASE ListArchives(r)
  BY <1>1 DEF ListArchives, BeyondKeepCount, At, Goto, TypeOK, Places, databaseVars,
              scratchVars, restoreVars
<1>2. CASE Finish(r)
  BY <1>2, LeaveType DEF Finish, At, TypeOK, databaseVars, scratchVars, restoreVars
<1>3. CASE Crash(r)
  BY <1>3, LeaveType DEF Crash, Unlinked, TypeOK, databaseVars, scratchVars, restoreVars
<1>4. CASE \E n \in old[r] : RemoveOld(r, n) \/ RemoveFails(r, n)
  BY <1>4 DEF RemoveOld, RemoveFails, Disturbed, At, TypeOK, databaseVars, scratchVars,
              restoreVars
<1> QED
  BY <1>1, <1>2, <1>3, <1>4

LEMMA TypeElsewhere ==
    ASSUME TypeOK, RestoreStep \/ ServiceStep
    PROVE  TypeOK'
<1>1. CASE Extract
  BY <1>1 DEF Extract, Apart, Disturbed, TypeOK, databaseVars, scratchVars
<1>2. CASE CopyFile
  BY <1>2 DEF CopyFile, CopyMainFile, Apart, TypeOK, databaseVars, scratchVars
<1>3. CASE RemoveFile
  BY <1>3 DEF RemoveFile, Apart, TypeOK, scratchVars
<1>4. CASE RunScript
  <2>1. live' \subseteq Changes /\ file' \subseteq Changes
    BY <1>4 DEF RunScript, TypeOK
  <2> QED
    BY <1>4, <2>1 DEF RunScript, Apart, TypeOK, scratchVars
<1>5. CASE RestoreStops
  BY <1>5 DEF RestoreStops, Apart, TypeOK, databaseVars, scratchVars
<1>6. CASE ServiceStep
  <2>1. UNCHANGED <<temp, dump, writer, names, pc, todo, found, linked, old, alone, restore,
                    configs, kept>>
    BY <1>6 DEF ServiceStep, Commit, Checkpoint, Connect, Tick, Elsewhere, scratchVars, runVars,
                restoreVars, databaseVars
  <2>2. clock' \in Times
    BY <1>6, MaxTimeIsNat DEF ServiceStep, Commit, Checkpoint, Connect, Tick, TypeOK, Times
  <2>3. /\ live' \subseteq Changes /\ file' \subseteq Changes /\ settled' \subseteq Changes
        /\ exists' \in BOOLEAN
    BY <1>6 DEF ServiceStep, Commit, Checkpoint, Connect, Tick, databaseVars, TypeOK
  <2> QED
    BY <2>1, <2>2, <2>3 DEF TypeOK
<1> QED
  BY <1>1, <1>2, <1>3, <1>4, <1>5, <1>6 DEF RestoreStep

LEMMA TypeNext == TypeOK /\ [Next]_vars => TypeOK'
<1> SUFFICES ASSUME TypeOK, [Next]_vars
             PROVE  TypeOK'
  OBVIOUS
<1>1. CASE \E r \in Runners : RunStep(r)
  BY <1>1, TypeRun, TypeArchive, TypeCleanup DEF RunStep
<1>2. CASE RestoreStep \/ ServiceStep
  BY <1>2, TypeElsewhere
<1>3. CASE UNCHANGED vars
  BY <1>3 DEF TypeOK, vars, databaseVars, scratchVars, runVars, restoreVars
<1> QED
  BY <1>1, <1>2, <1>3 DEF Next

\* Every reachable state is well typed; a run has the dump open only while it
\* writes it, and what it has yet to do is of the part it is at.
THEOREM TypeCorrect == Spec => []TypeOK
BY TypeInit, TypeNext, PTL DEF Spec

-----------------------------------------------------------------------------
(* Restores. *)

Saved == UNION kept

\* What a checkpoint has written stays in the main file or in a copy; before the file
\* goes it is in a copy.
SurvivalInv ==
    /\ file \subseteq live
    /\ ~ exists => file = {}
    /\ settled \subseteq file \cup Saved
    /\ restore = "remove" => settled \subseteq Saved

LEMMA SurvivalRestore ==
    ASSUME SurvivalInv, RestoreStep
    PROVE  SurvivalInv'
<1>1. CASE Extract \/ RestoreStops
  BY <1>1 DEF Extract, RestoreStops, SurvivalInv, Saved, databaseVars
<1>2. CASE CopyFile
  <2>1. CASE exists
    <3>1. kept' = kept \cup {file} /\ Saved' = Saved \cup file
      BY <1>2, <2>1 DEF CopyFile, CopyMainFile, Saved
    <3> QED
      BY <1>2, <3>1 DEF CopyFile, SurvivalInv, databaseVars
  <2>2. CASE ~ exists
    BY <1>2, <2>2 DEF CopyFile, CopyMainFile, SurvivalInv, Saved, databaseVars
  <2> QED
    BY <2>1, <2>2
<1>3. CASE RemoveFile
  BY <1>3 DEF RemoveFile, SurvivalInv, Saved
<1>4. CASE RunScript
  <2>1. UNCHANGED <<live, file>> \/ (live = {} /\ file' = live')
    BY <1>4 DEF RunScript, Runs
  <2>2. UNCHANGED <<settled, kept>> /\ exists' = TRUE /\ restore' = "idle"
    BY <1>4 DEF RunScript
  <2> QED
    BY <2>1, <2>2 DEF SurvivalInv, Saved
<1> QED
  BY <1>1, <1>2, <1>3, <1>4 DEF RestoreStep

LEMMA SurvivalNext == SurvivalInv /\ [Next]_vars => SurvivalInv'
<1> SUFFICES ASSUME SurvivalInv, [Next]_vars
             PROVE  SurvivalInv'
  OBVIOUS
<1>1. ASSUME NEW r \in Runners, RunStep(r)
      PROVE  UNCHANGED <<live, file, exists, settled, restore, kept>>
  BY <1>1 DEF RunStep, Begin, SkipDump, OpenDump, DumpTable, DumpDone, DumpFails, CopyWallet,
              MissWallet, SkipWallet, GiveUp, OpenArchive, FillArchive, RmTree, ListArchives,
              Finish, RemoveOld, RemoveFails, Crash, databaseVars, restoreVars
<1>2. CASE \E r \in Runners : RunStep(r)
  BY <1>1, <1>2 DEF SurvivalInv, Saved
<1>3. CASE RestoreStep
  BY <1>3, SurvivalRestore
<1>4. CASE ServiceStep
  BY <1>4 DEF ServiceStep, Commit, Checkpoint, Connect, Tick, Elsewhere, SurvivalInv, Saved,
              databaseVars, restoreVars
<1>5. CASE UNCHANGED vars
  BY <1>5 DEF SurvivalInv, Saved, vars, databaseVars, restoreVars
<1> QED
  BY <1>2, <1>3, <1>4, <1>5 DEF Next

\* Whatever is restored, in whole or in part and however often, what a checkpoint has
\* written is in the database or in a pre_restore copy, unless it was written between
\* a restore's copy of the main file and its removal.
THEOREM RestoreKeepsCheckpointed == Spec => []CheckpointedSurvives
<1>1. Init => SurvivalInv
  BY DEF Init, SurvivalInv, Saved
<1>2. SurvivalInv => CheckpointedSurvives
  BY DEF SurvivalInv, CheckpointedSurvives, Saved
<1> QED
  BY <1>1, <1>2, SurvivalNext, PTL DEF Spec

-----------------------------------------------------------------------------
(* Backups that nothing disturbs. *)

\* What a run that nothing has disturbed has in the scratch directory so far.
Progress(r) ==
    /\ pc[r] = "dump" =>
          linked[r] /\ dump = "partial" /\ \A t \in Tables \ todo[r] : writer[t] = r
    /\ pc[r] = "wallets" =>
          dump = "whole" /\ \A p \in Due \ todo[r] : writer[p] = r
    /\ pc[r] = "fill" =>
          dump = "whole" /\ \A p \in Due : writer[p] = r

Alone(r) == \A q \in Runners \ {r} : pc[q] = "idle"

FreshInv == \A r \in Runners : alone[r] => Alone(r) /\ Progress(r)

\* A step of another run, from which r was idle or which has begun beside r.
LEMMA FreshRun ==
    ASSUME TypeOK, FreshInv, NEW q \in Runners, RunStep(q), NEW r \in Runners, alone'[r]
    PROVE  Alone(r)' /\ Progress(r)'
<1>1. \A p \in Runners \ {q} : pc'[p] = pc[p] /\ todo'[p] = todo[p]
  BY DEF RunStep, Begin, SkipDump, OpenDump, DumpTable, DumpDone, DumpFails, CopyWallet,
         MissWallet, SkipWallet, GiveUp, OpenArchive, FillArchive, RmTree, ListArchives,
         Finish, RemoveOld,
         RemoveFails, Crash, Leave, Goto, Todo, TypeOK
<1>c. UNCHANGED configs
  BY DEF RunStep, Begin, SkipDump, OpenDump, DumpTable, DumpDone, DumpFails, CopyWallet,
         MissWallet, SkipWallet, GiveUp, OpenArchive, FillArchive, RmTree, ListArchives, Finish,
         RemoveOld, RemoveFails, Crash, databaseVars
<1>2. CASE Begin(q)
  <2>1. q = r /\ \A p \in Runners \ {r} : pc[p] = "idle"
    BY <1>2 DEF Begin, TypeOK
  <2>2. pc'[r] = "open"
    BY <1>2, <2>1 DEF Begin, Goto, TypeOK
  <2> QED
    BY <1>1, <2>1, <2>2 DEF Alone, Progress
<1>3. CASE ~ Begin(q)
  <2>1. alone[r]
    BY <1>3 DEF RunStep, SkipDump, OpenDump, DumpTable, DumpDone, DumpFails, CopyWallet,
           MissWallet, SkipWallet, GiveUp, OpenArchive, FillArchive, RmTree, ListArchives,
           Finish, RemoveOld,
           RemoveFails, Crash, Leave, Disturbed, TypeOK
  <2>2. pc[q] # "idle"
    BY <1>3 DEF RunStep, SkipDump, OpenDump, DumpTable, DumpDone, DumpFails, CopyWallet,
           MissWallet, SkipWallet, GiveUp, OpenArchive, FillArchive, RmTree, ListArchives,
           Finish, RemoveOld,
           RemoveFails, Crash, At, TypeOK
  <2>3. q = r /\ Alone(r) /\ Progress(r)
    BY <2>1, <2>2 DEF FreshInv, Alone
  <2>4. Alone(r)'
    BY <1>1, <2>3 DEF Alone
  <2> SUFFICES Progress(r)'
    BY <2>4
  <2>5. ~ (SkipDump(r) \/ DumpFails(r) \/ GiveUp(r) \/ Finish(r) \/ Crash(r))
    BY DEF SkipDump, DumpFails, GiveUp, Finish, Crash, Leave, Disturbed, TypeOK
  <2>6. ~ \E c \in Coins : MissWallet(r, c)
    BY DEF MissWallet, Disturbed, TypeOK
  <2>7. ~ \E n \in old[r] : RemoveFails(r, n)
    BY DEF RemoveFails, Disturbed, TypeOK
  <2>8. \A p \in Runners \ {r} : ~ linked[p]
    BY <2>3 DEF Alone, TypeOK
  <2>9. CASE OpenDump(r)
    BY <2>8, <2>9 DEF OpenDump, TruncatedDump, Goto, Todo, Progress, TypeOK
  <2>10. CASE \E t \in Tables : DumpTable(r, t)
    BY <2>3, <2>10 DEF DumpTable, At, Todo, Progress, TypeOK, Parts
  <2>11. CASE DumpDone(r)
    BY <1>c, <2>3, <2>11, TablesAreNoCoins
       DEF DumpDone, At, Goto, Todo, Progress, Due, TypeOK, Parts
  <2>12. CASE \E c \in Coins : CopyWallet(r, c)
    BY <1>c, <2>3, <2>12 DEF CopyWallet, At, Todo, Progress, Due, TypeOK, Parts
  <2>13. CASE OpenArchive(r)
    BY <1>c, <2>3, <2>13 DEF OpenArchive, At, Goto, Progress, Due, TypeOK, Parts, scratchVars
  <2>14. CASE FillArchive(r) \/ RmTree(r) \/ ListArchives(r)
    BY <2>14 DEF FillArchive, RmTree, ListArchives, Goto, Progress, TypeOK
  <2>15. CASE \E n \in old[r] : RemoveOld(r, n)
    BY <2>15 DEF RemoveOld, At, Progress, TypeOK
  <2>16. CASE \E c \in Coins : SkipWallet(r, c)
    BY <1>c, <2>3, <2>16, TablesAreNoCoins
       DEF SkipWallet, At, Todo, Progress, Due, TypeOK, Parts, scratchVars
  <2> QED
    BY <1>3, <2>3, <2>5, <2>6, <2>7, <2>9, <2>10, <2>11, <2>12, <2>13, <2>14, <2>15,
       <2>16
       DEF RunStep
<1> QED
  BY <1>2, <1>3

LEMMA FreshNext == TypeOK /\ FreshInv /\ [Next]_vars => FreshInv'
<1> SUFFICES ASSUME TypeOK, FreshInv, [Next]_vars, NEW r \in Runners, alone'[r]
             PROVE  Alone(r)' /\ Progress(r)'
  BY DEF FreshInv
<1>1. CASE \E q \in Runners : RunStep(q)
  BY <1>1, FreshRun
<1>2. CASE RestoreStep \/ ServiceStep \/ UNCHANGED vars
  <2>1. UNCHANGED <<pc, todo, linked, dump, writer, configs>>
    BY <1>2 DEF RestoreStep, Extract, CopyFile, RemoveFile, RunScript, RestoreStops, Apart,
                ServiceStep, Commit, Checkpoint, Connect, Tick, Elsewhere, vars, databaseVars,
                scratchVars, runVars
  <2>2. alone[r]
    BY <1>2 DEF RestoreStep, Extract, CopyFile, RemoveFile, RunScript, RestoreStops, Disturbed,
                ServiceStep, Commit, Checkpoint, Connect, Tick, Elsewhere, vars, runVars, TypeOK
  <2> QED
    BY <2>1, <2>2 DEF FreshInv, Alone, Progress, Due
<1> QED
  BY <1>1, <1>2 DEF Next

LEMMA FreshAlways == Spec => []FreshInv
<1>1. Init => FreshInv
  BY DEF Init, FreshInv
<1> QED
  BY <1>1, TypeCorrect, FreshNext, PTL DEF Spec

\* A backup that nothing disturbed holds a complete dump, and every wallet if their
\* paths are known, as read in that run, whatever earlier runs have left behind.
THEOREM BackupIsFresh == Spec => UndisturbedBackupIsFresh
<1>1. ASSUME FreshInv, NEW r \in Runners, FillArchive(r), alone[r]
      PROVE  dump = "whole" /\ \A p \in Due : writer[p] = r
  BY <1>1 DEF FreshInv, Progress, FillArchive, At
<1>2. FreshInv =>
        [\A r \in Runners : FillArchive(r) /\ alone[r] =>
           dump = "whole" /\ \A p \in Due : writer[p] = r]_vars
  BY <1>1
<1> QED
  BY <1>2, FreshAlways, PTL DEF UndisturbedBackupIsFresh

-----------------------------------------------------------------------------
(* Archives and their removal. *)

LEMMA NewerIsFinite ==
    ASSUME NEW S \in SUBSET Times, NEW n
    PROVE  /\ IsFiniteSet(S) /\ IsFiniteSet(Newer(n, S))
           /\ Cardinality(S) \in Nat /\ Cardinality(Newer(n, S)) \in Nat
<1>1. IsFiniteSet(Times)
  BY MaxTimeIsNat, FS_Interval DEF Times
<1>2. IsFiniteSet(S)
  BY <1>1, FS_Subset
<1>3. Newer(n, S) \in SUBSET S
  BY DEF Newer
<1>4. IsFiniteSet(Newer(n, S))
  BY <1>2, <1>3, FS_Subset
<1> QED
  BY <1>2, <1>4, FS_CardinalityType

LEMMA MoreAreNewer ==
    ASSUME NEW S \in SUBSET Times, NEW T \in SUBSET Times, S \subseteq T, NEW n
    PROVE  Cardinality(Newer(n, S)) =< Cardinality(Newer(n, T))
<1>1. Newer(n, S) \in SUBSET Newer(n, T)
  BY DEF Newer
<1> QED
  BY <1>1, NewerIsFinite, FS_Subset

\* Taking away an archive with enough newer ones leaves enough to every other that
\* has enough, and to itself.
LEMMA EnoughStay ==
    ASSUME NEW S \in SUBSET Times, NEW n \in Times, Cardinality(Newer(n, S)) >= KeepCount,
           NEW m \in Times, Cardinality(Newer(m, S)) >= KeepCount
    PROVE  Cardinality(Newer(m, S \ {n})) >= KeepCount
<1>1. \A k \in Times : k \in Nat
  BY DEF Times
<1>2. CASE n \notin Newer(m, S)
  <2>1. Newer(m, S \ {n}) = Newer(m, S)
    BY <1>2 DEF Newer
  <2> QED
    BY <2>1
<1>3. CASE n \in Newer(m, S)
  <2>1. n \in S /\ n > m
    BY <1>3 DEF Newer
  <2>2. Newer(m, S \ {n}) = Newer(m, S) \ {n}
    BY DEF Newer
  <2>3. Newer(n, S) \in SUBSET Newer(m, S \ {n})
    BY <1>1, <2>1 DEF Newer
  <2>4. Cardinality(Newer(n, S)) =< Cardinality(Newer(m, S \ {n}))
    BY <2>3, NewerIsFinite, FS_Subset
  <2> QED
    BY <2>4, NewerIsFinite, KeepCountIsNat
<1> QED
  BY <1>2, <1>3

\* Whatever the overlap, what a run is about to remove is old by now.
OldIsOld == \A r \in Runners : \A n \in old[r] : Cardinality(Newer(n, names)) >= KeepCount

\* A run that nothing disturbed is about to remove all that is old.
ListIsCurrent ==
    \A r \in Runners : alone[r] /\ pc[r] = "prune" => BeyondKeepCount(names) \subseteq old[r]

LEMMA OldRun ==
    ASSUME TypeOK, OldIsOld, NEW r \in Runners, RunStep(r)
    PROVE  OldIsOld'
<1>0. names \in SUBSET Times /\ names' \in SUBSET Times
  BY TypeNext DEF Next, TypeOK
<1>1. CASE \E n \in old[r] : RemoveOld(r, n)
  <2>1. PICK n \in old[r] : RemoveOld(r, n)
    BY <1>1
  <2>2. n \in Times /\ Cardinality(Newer(n, names)) >= KeepCount
    BY DEF OldIsOld, TypeOK
  <2>3. names' = names \ {n}
    BY <2>1 DEF RemoveOld
  <2>4. \A q \in Runners : old'[q] \subseteq old[q] /\ old[q] \subseteq Times
    BY <2>1 DEF RemoveOld, TypeOK
  <2> SUFFICES ASSUME NEW q \in Runners, NEW m \in old'[q]
               PROVE  Cardinality(Newer(m, names')) >= KeepCount
    BY DEF OldIsOld
  <2>5. m \in Times /\ Cardinality(Newer(m, names)) >= KeepCount
    BY <2>4 DEF OldIsOld
  <2> QED
    BY <1>0, <2>2, <2>3, <2>5, EnoughStay
<1>2. CASE ListArchives(r)
  BY <1>2 DEF ListArchives, BeyondKeepCount, OldIsOld, TypeOK
<1>3. CASE ~ ListArchives(r) /\ ~ \E n \in old[r] : RemoveOld(r, n)
  <2>1. \A q \in Runners : old'[q] \subseteq old[q]
    BY <1>3 DEF RunStep, Begin, SkipDump, OpenDump, DumpTable, DumpDone, DumpFails, CopyWallet,
           MissWallet, SkipWallet, GiveUp, OpenArchive, FillArchive, RmTree, Finish,
           RemoveFails, Crash,
           Leave, TypeOK
  <2>2. names \subseteq names'
    BY <1>3 DEF RunStep, Begin, SkipDump, OpenDump, DumpTable, DumpDone, DumpFails, CopyWallet,
           MissWallet, SkipWallet, GiveUp, OpenArchive, FillArchive, RmTree, Finish,
           RemoveFails, Crash
  <2> SUFFICES ASSUME NEW q \in Runners, NEW m \in old'[q]
               PROVE  Cardinality(Newer(m, names')) >= KeepCount
    BY DEF OldIsOld
  <2>3. Cardinality(Newer(m, names)) >= KeepCount
    BY <2>1 DEF OldIsOld
  <2>4. Cardinality(Newer(m, names)) =< Cardinality(Newer(m, names'))
    BY <1>0, <2>2, MoreAreNewer
  <2> QED
    BY <1>0, <2>3, <2>4, NewerIsFinite, KeepCountIsNat
<1> QED
  BY <1>1, <1>2, <1>3

\* Only a run makes or removes archives.
LEMMA OthersKeepArchives ==
    ASSUME RestoreStep \/ ServiceStep \/ UNCHANGED vars
    PROVE  UNCHANGED <<names, old, pc>>
BY DEF RestoreStep, Extract, CopyFile, RemoveFile, RunScript, RestoreStops, Apart,
       ServiceStep, Commit, Checkpoint, Connect, Tick, Elsewhere, vars, runVars

LEMMA OldNext == TypeOK /\ OldIsOld /\ [Next]_vars => OldIsOld'
<1> SUFFICES ASSUME TypeOK, OldIsOld, [Next]_vars
             PROVE  OldIsOld'
  OBVIOUS
<1>1. CASE \E r \in Runners : RunStep(r)
  BY <1>1, OldRun
<1>2. CASE RestoreStep \/ ServiceStep \/ UNCHANGED vars
  BY <1>2, OthersKeepArchives DEF OldIsOld
<1> QED
  BY <1>1, <1>2 DEF Next

LEMMA OldAlways == Spec => []OldIsOld
<1>1. Init => OldIsOld
  BY DEF Init, OldIsOld
<1> QED
  BY <1>1, TypeCorrect, OldNext, PTL DEF Spec

\* An archive that goes was in the list of the run that removes it.
LEMMA OnlyOldGo ==
    ASSUME TypeOK, [Next]_vars, NEW n \in names \ names'
    PROVE  \E r \in Runners : n \in old[r] /\ RemoveOld(r, n)
<1>1. CASE \E r \in Runners : RunStep(r)
  BY <1>1 DEF RunStep, Begin, SkipDump, OpenDump, DumpTable, DumpDone, DumpFails, CopyWallet,
         MissWallet, SkipWallet, GiveUp, OpenArchive, FillArchive, RmTree, ListArchives,
         Finish, RemoveOld,
         RemoveFails, Crash
<1>2. CASE RestoreStep \/ ServiceStep \/ UNCHANGED vars
  BY <1>2, OthersKeepArchives
<1> QED
  BY <1>1, <1>2 DEF Next

\* However many cleanups overlap, an archive is removed only while at least
\* KeepCount newer ones stay.
THEOREM NewestStay == Spec => NewestArchivesStay
<1>1. ASSUME TypeOK, OldIsOld, [Next]_vars, NEW n \in names \ names'
      PROVE  Cardinality(Newer(n, names')) >= KeepCount
  <2>1. PICK r \in Runners : n \in old[r] /\ RemoveOld(r, n)
    BY <1>1, OnlyOldGo
  <2>2. names' = names \ {n} /\ names \in SUBSET Times /\ n \in Times
    BY <1>1, <2>1 DEF RemoveOld, TypeOK
  <2>3. Cardinality(Newer(n, names)) >= KeepCount
    BY <1>1, <2>1 DEF OldIsOld
  <2> QED
    BY <2>2, <2>3, EnoughStay
<1>2. TypeOK /\ OldIsOld /\ [Next]_vars =>
        [\A n \in names \ names' : Cardinality(Newer(n, names')) >= KeepCount]_vars
  BY <1>1
<1> QED
  BY <1>2, TypeCorrect, OldAlways, PTL DEF Spec, NewestArchivesStay

\* When no archive has KeepCount newer ones there are KeepCount at most: the oldest
\* has all others after it.
LEMMA FewAreLeft ==
    ASSUME NEW S \in SUBSET Times, BeyondKeepCount(S) = {}
    PROVE  Cardinality(S) =< KeepCount
<1>1. CASE S = {}
  BY <1>1, FS_EmptySet, KeepCountIsNat
<1>2. CASE S # {}
  <2> DEFINE UpTo(n) == S \ Newer(n, S)
             T == {UpTo(n) : n \in S}
  <2>1. S \subseteq Nat /\ IsFiniteSet(S)
    BY NewerIsFinite DEF Times
  <2>2. T # {} /\ T \subseteq FiniteSubsetsOf(S)
    <3>1. \A n \in S : UpTo(n) \in SUBSET S
      OBVIOUS
    <3>2. \A n \in S : IsFiniteSet(UpTo(n))
      BY <2>1, <3>1, FS_Subset
    <3> QED
      BY <1>2, <3>1, <3>2 DEF FiniteSubsetsOf
  <2>3. PICK x \in T : \A y \in T : ~ (<<y, x>> \in StrictSubsetOrdering(S))
    BY <2>2, FS_StrictSubsetOrderingWellFounded, WFMin
  <2>4. PICK n \in S : x = UpTo(n)
    BY <2>3
  <2>5. ASSUME NEW m \in S, m < n
        PROVE  FALSE
    <3>1. UpTo(m) \subseteq UpTo(n) /\ UpTo(m) # UpTo(n)
      <4>1. ~ (n > n) /\ n > m /\ \A k \in S : k > n => k > m
        BY <2>1, <2>5
      <4> QED
        BY <4>1 DEF Newer
    <3>2. UpTo(m) \in T /\ UpTo(m) \subseteq S /\ UpTo(n) \subseteq S
      OBVIOUS
    <3> HIDE DEF UpTo
    <3> QED
      BY <2>3, <2>4, <3>1, <3>2 DEF StrictSubsetOrdering
  <2>6. Newer(n, S) = S \ {n}
    <3>1. ~ (n > n) /\ \A m \in S : m # n => m > n
      BY <2>1, <2>5
    <3> QED
      BY <3>1 DEF Newer
  <2>7. Cardinality(Newer(n, S)) = Cardinality(S) - 1
    BY <2>6, NewerIsFinite, FS_RemoveElement
  <2>8. ~ (Cardinality(Newer(n, S)) >= KeepCount)
    BY DEF BeyondKeepCount
  <2> QED
    BY <2>7, <2>8, NewerIsFinite, KeepCountIsNat
<1> QED
  BY <1>1, <1>2

LEMMA CurrentNext == TypeOK /\ FreshInv /\ ListIsCurrent /\ [Next]_vars => ListIsCurrent'
<1> SUFFICES ASSUME TypeOK, FreshInv, ListIsCurrent, [Next]_vars,
                    NEW r \in Runners, alone'[r], pc'[r] = "prune"
             PROVE  BeyondKeepCount(names') \subseteq old'[r]
  BY DEF ListIsCurrent
<1>1. CASE RestoreStep \/ ServiceStep \/ UNCHANGED vars
  <2>1. alone[r]
    BY <1>1 DEF RestoreStep, Extract, CopyFile, RemoveFile, RunScript, RestoreStops, Disturbed,
                ServiceStep, Commit, Checkpoint, Connect, Tick, Elsewhere, vars, runVars, TypeOK
  <2> QED
    BY <1>1, <2>1, OthersKeepArchives DEF ListIsCurrent
<1>2. ASSUME NEW q \in Runners, RunStep(q)
      PROVE  BeyondKeepCount(names') \subseteq old'[r]
  <2>1. ~ Begin(q)
    BY DEF Begin, Goto, At, TypeOK
  <2>2. alone[r]
    BY <1>2, <2>1 DEF RunStep, SkipDump, OpenDump, DumpTable, DumpDone, DumpFails, CopyWallet,
           MissWallet, SkipWallet, GiveUp, OpenArchive, FillArchive, RmTree, ListArchives,
           Finish, RemoveOld,
           RemoveFails, Crash, Leave, Disturbed, TypeOK
  <2>3. pc[q] # "idle"
    BY <1>2, <2>1 DEF RunStep, SkipDump, OpenDump, DumpTable, DumpDone, DumpFails, CopyWallet,
           MissWallet, SkipWallet, GiveUp, OpenArchive, FillArchive, RmTree, ListArchives,
           Finish, RemoveOld,
           RemoveFails, Crash, At, TypeOK
  <2>4. q = r
    BY <2>2, <2>3 DEF FreshInv, Alone
  <2>5. ListArchives(r) \/ \E n \in old[r] : RemoveOld(r, n)
    BY <1>2, <2>1, <2>4 DEF RunStep, SkipDump, OpenDump, DumpTable, DumpDone, DumpFails,
           CopyWallet, MissWallet, SkipWallet, GiveUp, OpenArchive, FillArchive, RmTree,
           Finish, RemoveFails,
           Crash, Leave, Goto, Disturbed, At, TypeOK
  <2>6. CASE ListArchives(r)
    BY <2>6 DEF ListArchives, TypeOK
  <2>7. CASE \E n \in old[r] : RemoveOld(r, n)
    <3>1. PICK n \in old[r] : RemoveOld(r, n)
      BY <2>7
    <3>2. names' = names \ {n} /\ old'[r] = old[r] \ {n} /\ pc[r] = "prune"
      BY <3>1 DEF RemoveOld, At, TypeOK
    <3>3. BeyondKeepCount(names) \subseteq old[r]
      BY <2>2, <3>2 DEF ListIsCurrent
    <3>4. names \in SUBSET Times /\ names' \in SUBSET Times /\ names' \subseteq names
      BY <3>2 DEF TypeOK
    <3> SUFFICES ASSUME NEW m \in names', Cardinality(Newer(m, names')) >= KeepCount
                 PROVE  m \in old'[r]
      BY DEF BeyondKeepCount
    <3>5. Cardinality(Newer(m, names)) >= KeepCount
      BY <3>4, MoreAreNewer, NewerIsFinite, KeepCountIsNat
    <3> QED
      BY <3>2, <3>3, <3>5 DEF BeyondKeepCount
  <2> QED
    BY <2>5, <2>6, <2>7
<1> QED
  BY <1>1, <1>2 DEF Next

LEMMA CurrentAlways == Spec => []ListIsCurrent
<1>1. Init => ListIsCurrent
  BY DEF Init, ListIsCurrent
<1> QED
  BY <1>1, TypeCorrect, FreshAlways, CurrentNext, PTL DEF Spec

\* A backup that nothing disturbed leaves KeepCount archives at most.
THEOREM ArchivesStayBounded == Spec => ArchivesAreBounded
<1>1. ASSUME TypeOK, ListIsCurrent, NEW r \in Runners, Finish(r), alone[r]
      PROVE  Cardinality(names) =< KeepCount
  <2>1. BeyondKeepCount(names) = {}
    BY <1>1 DEF Finish, At, ListIsCurrent
  <2> QED
    BY <1>1, <2>1, FewAreLeft DEF TypeOK
<1>2. TypeOK /\ ListIsCurrent =>
        [\A r \in Runners : Finish(r) /\ alone[r] => Cardinality(names) =< KeepCount]_vars
  BY <1>1
<1> QED
  BY <1>2, TypeCorrect, CurrentAlways, PTL DEF ArchivesAreBounded
=============================================================================
