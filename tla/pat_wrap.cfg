SPECIFICATION PreloadedSpec
CONSTANTS
  MaxSectionLens = {16}
  ReservedLens = {}
  VersionArgs = {0}
  CniArgs = {TRUE}
  MaxBuilds = 1
  MaxSections = 300
  MaxPrograms = 257
INVARIANT
  AtMost256Sections
\* An assert that fails ends the process.
CHECK_DEADLOCK FALSE
