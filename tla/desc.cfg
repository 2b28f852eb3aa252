SPECIFICATION Spec
CONSTANTS
  Classes <- MCClasses
  StringSizes = {0, 40, 120, 255, 65636}
  CodeSizes = {2, 3}
  MaxEntries = 3
INVARIANTS
  TypeOK
  CountedIsWritten
  InnerLengthsRead
  WordsFilled
\* A descriptor that is full takes no more calls.
CHECK_DEADLOCK FALSE
