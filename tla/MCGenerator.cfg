SPECIFICATION MCSpec
CONSTANTS
    UB4BITS = 4
    USE_SCRAMBLE = 8
INVARIANTS
    SearchSound
    IsPerfect
    SizesFit
PROPERTIES
    SearchEnds
CHECK_DEADLOCK FALSE
