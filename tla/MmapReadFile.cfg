\* Files of 0 to 5 bytes on 2-byte pages, so a view's region can be larger
\* than the file, and requested sizes of 0 to 5 bytes.
CONSTANTS
    PageSize = 2
    MaxLen = 5

SPECIFICATION Spec
INVARIANT NoMappingLeak
\* readFile returns once and the view is closed once; nothing follows.
CHECK_DEADLOCK FALSE
