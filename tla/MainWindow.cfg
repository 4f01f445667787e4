\* The program stops when it is done.
SPECIFICATION FairSpec
CONSTANTS
    small = small
    large = large
    Sizes = {small, large}
    Empty = Empty
INVARIANTS
    SuspendedWhenDue
    SizeKnown
PROPERTY EndsAfterDestruction
CHECK_DEADLOCK FALSE
