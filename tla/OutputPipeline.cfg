\* A ring of 2 bytes and a log of 2 with three backups, so that the middle one
\* has neighbours on both sides; chunks that fit, that fill the file or the
\* ring, and that are larger than both; with short writes enough bytes to
\* rotate every file out.  Every writer and system call may fail and the
\* program die at any point.
SPECIFICATION PipeSpec
CONSTANTS
  option = 2
  DefaultMax = 64
  ByteBound = 5
  maxBytes = 2
  maxBackups = 3
  NoFile = NoFile
  CanFail = TRUE
  ChunkBound = 3
INVARIANTS PipeTypeOK KeepsTail WritersInOrder SuccessMeansAll SizeIsTrue FilesBounded Chronological NoHoles
PROPERTY OnlyOldestLost
