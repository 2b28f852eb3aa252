SPECIFICATION FairSpec
CONSTANTS
  MaxSectionLens = {11, 20, 24}
  ReservedLens = {4}
  VersionArgs = {32}
  CniArgs = {TRUE}
  MaxBuilds = 2
  MaxSections = 10
  DescLens = {2, 5, 9}
  MaxDescs = 4
INVARIANTS
  TypeOK
  SectionLengthCoversSection
  CrcCurrent
  SectionsNumbered
  InOrder
PROPERTIES
  BuildFailsIffTooSmall
  BuildEnds
  KeepsPromise
\* An assert that fails ends the process.
CHECK_DEADLOCK FALSE
