----------------------------- MODULE CursorFile -----------------------------
(***************************************************************************)
(* The file that holds the cursor: the version through which everything is *)
(* known to be in Kafka.  The contents of the temporary file are synced    *)
(* before the rename, so at every moment the name refers to a complete old *)
(* or a complete new cursor; which of the two a machine crash leaves is    *)
(* settled only by the directory's fsync.  0 stands for "no file".         *)
(***************************************************************************)
EXTENDS StreamData

CONSTANTS
  UseCursorFile,      \* cdc.cursor_file is configured
  DirFsyncSupported   \* the file system can fsync a directory

ASSUME CursorAssumption == UseCursorFile \in BOOLEAN /\ DirFsyncSupported \in BOOLEAN

VARIABLES
  cursorFile,     \* the cursor a reader of the file finds now
  durableCursor   \* the cursor on the disk, should the last rename not get there

cursorVars == <<cursorFile, durableCursor>>

CursorTypeOK == cursorFile \in 0..MaxVersion /\ durableCursor \in 0..MaxVersion

CursorInit == cursorFile = 0 /\ durableCursor = 0

-----------------------------------------------------------------------------
\* The temporary file, complete and synced, replaces the cursor file.  The
\* rename before may have reached the disk by itself.
ReplaceCursor(v) == cursorFile' = v /\ durableCursor' \in {durableCursor, cursorFile}

\* The directory is synced.  EINVAL and ENOTSUP are tolerated: the call then
\* returns although nothing was made durable.
SyncDirectory ==
  /\ durableCursor' = IF DirFsyncSupported THEN cursorFile ELSE durableCursor
  /\ UNCHANGED cursorFile

\* The machine crashes: the rename has reached the disk or it has not.
CrashDisk ==
  /\ cursorFile' \in {cursorFile, durableCursor}
  /\ durableCursor' = cursorFile'
=============================================================================
