SPECIFICATION Spec
CONSTANTS
  MaxSectionLens = {23, 29}
  ReservedLens = {}
  VersionArgs = {0}
  CniArgs = {TRUE}
  MaxBuilds = 1
  MaxSections = 10
  CHECK_DUPLICATES = TRUE
  ItemIds = {1, 4097, 8193}
  DescLens = {2, 6}
  MaxItems = 2
  MaxItemDescs = 2
  ProgDescLens = {4, 7}
  MaxProgDescs = 2
INVARIANTS
  TypeOK
  SectionsParse
  PackedInOrder
  PidsUnique
\* An assert that fails ends the process.
CHECK_DEADLOCK FALSE
