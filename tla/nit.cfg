SPECIFICATION FairSpec
CONSTANTS
  MaxSectionLens = {22, 26, 33}
  ReservedLens = {}
  VersionArgs = {0}
  CniArgs = {TRUE}
  MaxBuilds = 1
  MaxSections = 10
  CHECK_DUPLICATES = TRUE
  ItemIds = {1, 2}
  DescLens = {2, 7}
  MaxItems = 2
  MaxItemDescs = 2
  NetDescLens = {0, 3, 8}
  MaxNetDescs = 2
INVARIANTS
  TypeOK
  SectionsParse
  InOrder
  MarksBreak
  SectionsFull
PROPERTIES
  BuildFailsIffTooSmall
  BuildEnds
\* An assert that fails ends the process.
CHECK_DEADLOCK FALSE
