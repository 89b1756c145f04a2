\* One job against two workers.  With one job no event handle is used twice.
SPECIFICATION FairSpec
CONSTANTS
    Job = {j1}
    Worker = {w1, w2}
    Handle = {h1, h2}
    NoHandle = NoHandle
    NoJob = NoJob
INVARIANTS ExecutedAtMostOnce DeletableWhenOver DeletedAfterUnschedule WaitMeansDone
PROPERTY CallsReturn
CHECK_DEADLOCK FALSE
