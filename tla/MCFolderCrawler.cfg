SPECIFICATION Spec
CONSTANTS
    Path = {p1, p2}
    NoPath = NoPath
    Watcher = Watcher
    Asker = {a}
    MaxEvents = 2
INVARIANTS NoLostWakeup OnItsWay RetryOnItsWay
PROPERTIES Crawled FolderServed
CHECK_DEADLOCK FALSE
