SPECIFICATION Spec
CONSTANTS
  Bundles <- SmallBundles
  FileOf <- SmallFileOf
  NoEnum = NoEnum
  NoRenderer = NoRenderer
  MaxFailures = 2
  FsParent <- SmallParent
  FsTrees = {r1, r2}
  Fragments = {4, 20}
  MaxAttaches = 3
  MaxFsFaults = 3
  SyncFiles <- Files
  VarFiles = {"turns.log", "heads.tbl"}
  MaxAppends = 2
  MaxCrashes = 4
  MaxRequestErrors = 1
  Disks <- SmallFolders
  Writes <- SmallWrites
  CaptureOptions <- SmallCaptureOptions
  Asked <- SmallAsked
  MaxWrites = 1
  MaxCaptures = 2
INVARIANTS AcceptedServed StartsAgain SnapshotsKept  SnapshotServed ChangesExact
PROPERTY BackupCompletes
CHECK_DEADLOCK FALSE
