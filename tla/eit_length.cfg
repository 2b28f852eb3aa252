SPECIFICATION Spec
CONSTANTS
  MaxSectionLens = {36, 43}
  ReservedLens = {}
  VersionArgs = {0}
  CniArgs = {TRUE}
  MaxBuilds = 2
  MaxSections = 4
  CHECK_DUPLICATES = FALSE
  ItemIds = {1}
  DescLens = {6}
  MaxItems = 3
  MaxItemDescs = 2
  EventArgs <- MCEventArgs
INVARIANT
  SectionLengthCoversSection
\* An assert that fails ends the process.
CHECK_DEADLOCK FALSE
