\* A counter of three bits that wraps under an insertion.
SPECIFICATION SpecInsertWraps
CONSTANTS
    Value = {1, 2, 3}
    Less <- NumberLess
    Priorities = 8
INVARIANTS MapMatchesQueue PrioritiesGrow
PROPERTY ImplementsQueue
CHECK_DEADLOCK FALSE
