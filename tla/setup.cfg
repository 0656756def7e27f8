\* Any sequence of patches and restores that stop anywhere, with one update
\* of the addon at any point between or during them.
SPECIFICATION Spec
CONSTANTS
    Updates = 1
INVARIANTS
    TornOnlyByBackup
    BackupIsOriginal
PROPERTIES
    BackedUpFirst
\* A patched addon without a backup: there is nothing to do.
CHECK_DEADLOCK FALSE
