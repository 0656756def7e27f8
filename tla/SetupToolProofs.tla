----------------------------- MODULE SetupToolProofs -----------------------------
(* Theorems about SetupTool, for any number of updates. *)
EXTENDS SetupTool, TLAPS

USE SetupConstants DEF Content, None, Torn, Addon

--------------------------------------------------------------------------------

\* What is in memory was read from an original, what is about to be renamed was written to
\* its end, and the copy of a torn backup is the only torn file that is ever renamed.
InProgress ==
    /\ pc \in {"backup", "backupWrite", "write", "tmpWrite", "rename"} => image.form = "orig"
    /\ pc = "rename" => tmp.form = "patched"
    /\ pc \in {"write", "tmpWrite", "rename", "copy", "restoreRename"} => Exists(backup)
    /\ pc \in {"backup", "backupWrite"} => target.form # "torn"
    /\ pc = "restoreRename" => restoretmp = backup

IInv == TypeOK /\ TornOnlyByBackup /\ BackupIsOriginal /\ InProgress

\* Nothing has been read or written.
LEMMA InitInv == Init => IInv
  BY DEF Init, IInv, TypeOK, TornOnlyByBackup, BackupIsOriginal, InProgress

\* Every step of a run, every interruption and every update keeps it.
LEMMA InvStep == IInv /\ [Next]_vars => IInv'
  <1>. SUFFICES ASSUME IInv, [Next]_vars PROVE IInv'
    OBVIOUS
  <1>. USE DEF IInv, TypeOK, TornOnlyByBackup, BackupIsOriginal, InProgress, Exists
  <1>1. CASE ReadTarget
    BY <1>1 DEF ReadTarget
  <1>2. CASE KeepBackup
    BY <1>2 DEF KeepBackup
  <1>3. CASE OpenBackup
    BY <1>3 DEF OpenBackup
  <1>4. CASE WriteBackup
    BY <1>4 DEF WriteBackup
  <1>5. CASE OpenTmp
    BY <1>5 DEF OpenTmp
  <1>6. CASE WriteTmp
    BY <1>6 DEF WriteTmp
  <1>7. CASE RenameTmp
    BY <1>7 DEF RenameTmp
  <1>8. CASE OpenRestoreTmp
    BY <1>8 DEF OpenRestoreTmp
  <1>9. CASE CopyBackup
    BY <1>9 DEF CopyBackup
  <1>10. CASE RenameRestoreTmp
    BY <1>10 DEF RenameRestoreTmp
  <1>11. CASE Stopped
    BY <1>11 DEF Stopped
  <1>12. CASE Updated
    BY <1>12 DEF Updated
  <1>13. CASE UNCHANGED vars
    BY <1>13 DEF vars
  <1>. QED
    BY <1>1, <1>2, <1>3, <1>4, <1>5, <1>6, <1>7, <1>8, <1>9, <1>10, <1>11, <1>12, <1>13
       DEF Next, Patch, Restore

\* The invariant holds throughout.
LEMMA Invariance == Spec => []IInv
  BY InitInv, InvStep, PTL DEF Spec

--------------------------------------------------------------------------------

\* A torn addon comes from a torn backup and from nothing else, wherever runs stop.
THEOREM TornComesFromBackup == Spec => []TornOnlyByBackup
  <1>1. IInv => TornOnlyByBackup
    BY DEF IInv
  <1>. QED  BY <1>1, Invariance, PTL

\* No sequence of patches, restores, interruptions and updates patches the backup.
THEOREM BackupStaysOriginal == Spec => []BackupIsOriginal
  <1>1. IInv => BackupIsOriginal
    BY DEF IInv
  <1>. QED  BY <1>1, Invariance, PTL

\* The addon is patched only when there is a backup.
THEOREM BackupComesFirst == Spec => BackedUpFirst
  <1>1. IInv /\ [Next]_vars =>
           (target.form # "patched" /\ target'.form = "patched" => Exists(backup))
    <2>. SUFFICES ASSUME IInv, [Next]_vars, target.form # "patched", target'.form = "patched"
                  PROVE  Exists(backup)
      OBVIOUS
    <2>1. CASE RenameTmp \/ RenameRestoreTmp
      BY <2>1 DEF RenameTmp, RenameRestoreTmp, IInv, InProgress
    <2>2. CASE Updated
      BY <2>2 DEF Updated
    <2>3. CASE target' = target
      BY <2>3
    <2>. QED
      BY <2>1, <2>2, <2>3
      DEF Next, Patch, Restore, vars, ReadTarget, KeepBackup, OpenBackup, WriteBackup, OpenTmp,
          WriteTmp, OpenRestoreTmp, CopyBackup, Stopped
  <1>. QED  BY <1>1, Invariance, PTL DEF Spec, BackedUpFirst
================================================================================
