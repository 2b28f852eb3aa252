SPECIFICATION Spec
CONSTANTS
  MaxSectionLens = {15, 16, 23, 65530}
  ReservedLens = {7, 22}
  VersionArgs = {31, 32}
  CniArgs = {TRUE, FALSE}
  MaxBuilds = 2
  MaxSections = 12
  MaxPrograms = 5
INVARIANTS
  TypeOK
  InOrder
PROPERTY
  KeepsPromise
\* An assert that fails ends the process.
CHECK_DEADLOCK FALSE
