SPECIFICATION Spec
CONSTANTS
  DescLens = {2, 168}
  DataLens = {0, 180, 181, 365, 4094}
  MaxSectionLens = {20, 188, 1024}
  ReservedLens = {168}
  MaxEntries = 3
  MaxStream = 2
  Pids = {20, 8212}
  ContCounts = {0, 254}
  FlagArgs <- ErrOnly
  MaxPackets = 4
INVARIANTS
  TypeOK
  BuildFailsIffTooSmall
  CountersRun
  Reassembled
\* A failed assert ends the process.
CHECK_DEADLOCK FALSE
