CONSTANTS
    Thread = {t1, t2, t3}
    NoThread = NoThread
    MaxDepth = 2
SPECIFICATION FairSpec
INVARIANTS
    MutualExclusion
    CountersExact
    HandlesOpenWhileUsed
    NoLostWakeup
PROPERTIES
    ImplementsSpec
    WriterAdmitted
    ReaderNotForgotten
