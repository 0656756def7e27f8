------------------------------- MODULE SetupTool -------------------------------
(***************************************************************************)
(* discord-capture-setup                                                   *)
(* (crates/discord-capture-shim/src/bin/setup.rs): it patches              *)
(* discord_voice.node so that it loads the shim, and restores it from a    *)
(* backup. A run is a sequence of file operations. It can end after any of *)
(* them, by an error it returns or with the process, and the next run      *)
(* finds the files as they are then. Discord may replace the addon by a    *)
(* newer one at any time.                                                  *)
(***************************************************************************)
EXTENDS Naturals

CONSTANT Updates  \* bound: newer versions of the addon

ASSUME SetupConstants == Updates \in Nat

VARIABLES
    target,      \* the addon file
    backup,      \* <target>.discord-capture-setup.orig
    tmp,         \* <target>.discord-capture-setup.tmp
    restoretmp,  \* <target>.discord-capture-setup.restoretmp
    image,       \* what run() has read into memory
    version,     \* Discord: the version of the addon it installed last
    pc           \* the point the current run has reached, "idle" between runs

vars == <<target, backup, tmp, restoretmp, image, version, pc>>

\* A torn file is one that was opened for writing and not written to its end.
Content == [form : {"none", "torn", "orig", "patched"}, version : 0..Updates]

None == [form |-> "none", version |-> 0]
Torn == [form |-> "torn", version |-> 0]

Addon(v, form) == [form |-> form, version |-> v]

Exists(c) == c.form # "none"

TypeOK ==
    /\ target \in Content /\ backup \in Content /\ tmp \in Content /\ restoretmp \in Content
    /\ image \in Content
    /\ version \in 0..Updates
    /\ pc \in {"idle", "backup", "backupWrite", "write", "tmpWrite", "rename",
               "copy", "restoreRename"}

--------------------------------------------------------------------------------
(* run: patch the file. *)

\* Mutant: a patched file goes through once more.
ReadTarget_NoCheck ==
    /\ pc = "idle"
    /\ target.form \in {"orig", "patched"}
    /\ image' = target
    /\ pc' = "backup"
    /\ UNCHANGED <<target, backup, tmp, restoretmp, version>>

\* The file is read and parsed: a torn one is an error, and for a patched one
\* there is nothing to do.
ReadTarget ==
    /\ pc = "idle"
    /\ target.form = "orig"
    /\ image' = target
    /\ pc' = "backup"
    /\ UNCHANGED <<target, backup, tmp, restoretmp, version>>

\* Mutant: the backup is left for another time.
KeepBackup_Always ==
    /\ pc = "backup"
    /\ pc' = "write"
    /\ UNCHANGED <<target, backup, tmp, restoretmp, image, version>>

\* A backup of that name exists: it is taken for a good one.
KeepBackup ==
    /\ pc = "backup" /\ Exists(backup)
    /\ pc' = "write"
    /\ UNCHANGED <<target, backup, tmp, restoretmp, image, version>>

\* fs::write creates the file, then writes it.
OpenBackup ==
    /\ pc = "backup" /\ ~Exists(backup)
    /\ backup' = Torn
    /\ pc' = "backupWrite"
    /\ UNCHANGED <<target, tmp, restoretmp, image, version>>

WriteBackup ==
    /\ pc = "backupWrite"
    /\ backup' = image
    /\ pc' = "write"
    /\ UNCHANGED <<target, tmp, restoretmp, image, version>>

\* Mutant: the patched file is written over the addon itself.
OpenTmp_InPlace ==
    /\ pc = "write"
    /\ target' = Torn
    /\ pc' = "tmpWrite"
    /\ UNCHANGED <<backup, tmp, restoretmp, image, version>>

\* The rewritten ELF file goes to a temporary file ...
OpenTmp ==
    /\ pc = "write"
    /\ tmp' = Torn
    /\ pc' = "tmpWrite"
    /\ UNCHANGED <<target, backup, restoretmp, image, version>>

WriteTmp ==
    /\ pc = "tmpWrite"
    /\ tmp' = Addon(image.version, "patched")
    /\ pc' = "rename"
    /\ UNCHANGED <<target, backup, restoretmp, image, version>>

\* ... that takes the addon's place.
RenameTmp ==
    /\ pc = "rename"
    /\ target' = tmp
    /\ tmp' = None
    /\ pc' = "idle"
    /\ UNCHANGED <<backup, restoretmp, image, version>>

--------------------------------------------------------------------------------
(* restore: copy the backup back, by way of a temporary file. *)

OpenRestoreTmp ==
    /\ pc = "idle" /\ Exists(backup)
    /\ restoretmp' = Torn
    /\ pc' = "copy"
    /\ UNCHANGED <<target, backup, tmp, image, version>>

CopyBackup ==
    /\ pc = "copy"
    /\ restoretmp' = backup
    /\ pc' = "restoreRename"
    /\ UNCHANGED <<target, backup, tmp, image, version>>

RenameRestoreTmp ==
    /\ pc = "restoreRename"
    /\ target' = restoretmp
    /\ restoretmp' = None
    /\ pc' = "idle"
    /\ UNCHANGED <<backup, tmp, image, version>>

\* The run ends early: an operation fails, or the process ends.
Stopped ==
    /\ pc # "idle"
    /\ pc' = "idle"
    /\ UNCHANGED <<target, backup, tmp, restoretmp, image, version>>

\* Discord installs a newer addon under the same name.
Updated ==
    /\ version < Updates
    /\ version' = version + 1
    /\ target' = Addon(version + 1, "orig")
    /\ UNCHANGED <<backup, tmp, restoretmp, image, pc>>

--------------------------------------------------------------------------------

\* The addon is Discord's own, or patchelf has patched it before.
Init ==
    /\ target \in {Addon(0, "orig"), Addon(0, "patched")}
    /\ version = 0
    /\ backup = None /\ tmp = None /\ restoretmp = None /\ image = None
    /\ pc = "idle"

Patch == ReadTarget \/ KeepBackup \/ OpenBackup \/ WriteBackup \/ OpenTmp \/ WriteTmp \/ RenameTmp

Restore == OpenRestoreTmp \/ CopyBackup \/ RenameRestoreTmp

Next == Patch \/ Restore \/ Stopped \/ Updated

Spec == Init /\ [][Next]_vars

--------------------------------------------------------------------------------
(* Properties. *)

\* Patching never leaves a torn addon, wherever it stops; restoring does only if
\* the backup itself is torn.
TornOnlyByBackup == target.form = "torn" => backup.form = "torn"

\* The backup never holds a patched file, after any sequence of runs.
BackupIsOriginal == backup.form # "patched"

\* The addon is replaced by a patched one only when there is a backup.
BackedUpFirst == [][target.form # "patched" /\ target'.form = "patched" => Exists(backup)]_vars

(* What the comments say, and the code does not keep. *)

\* A crash or failure never leaves discord_voice.node truncated, and --restore
\* brings back the original: the addon is never torn.
NeverTorn == target.form # "torn"
================================================================================
