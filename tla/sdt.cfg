SPECIFICATION Spec
CONSTANTS
  MaxSectionLens = {22, 27, 34}
  ReservedLens = {}
  VersionArgs = {0}
  CniArgs = {TRUE}
  MaxBuilds = 1
  MaxSections = 10
  CHECK_DUPLICATES = TRUE
  ItemIds = {1, 2}
  DescLens = {2, 7}
  MaxItems = 2
  MaxItemDescs = 2
  ServiceArgs <- MCServiceArgs
INVARIANTS
  TypeOK
  SectionsParse
  PackedInOrder
\* An assert that fails ends the process.
CHECK_DEADLOCK FALSE
