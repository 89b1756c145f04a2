# A TLA+ model of TortoiseGit's concurrent core

TortoiseGit is a Windows Explorer extension for git.  Most of its code is user
interface.  What is hard in it is the machinery that several threads and
processes share: the status cache server (`src/TGitCache`), its reader-writer
lock and queues (`src/Utils`), and the job scheduler (`src/AsyncFramework`).
This directory models that machinery from its source, checks it with TLC and
proves the central facts with TLAPS.  Paths below are relative to the repository.

## 1. The system: inventory

| Component | State it keeps | Operations | Talks to | Hard behaviour | What makes it correct |
|---|---|---|---|---|---|
| Reader-writer lock, `src/Utils/ReaderWriterLock.*` | three counters, two on-demand events, a map thread -> nesting counts | acquire/release read and write, upgrade, downgrade, timeouts, release all | every thread of the status cache, the git index maps, the status list | upgrades that give the read lock up, timeouts racing with grants, handles closed on demand | exclusion, exact counters, no lost wakeup, no wait on a closed handle, writers not passed by new readers |
| Unique queue, `src/Utils/UniqueQueue.h` | deque and map with priorities | Push (moves a queued item to the end), Pop, erase | folder crawler | priority counter wraps | FIFO of distinct items, deque and map agree |
| One-shot events and jobs, `src/AsyncFramework/WaitableEvent.*`, `JobBase.*` | state flag, event from a pool; flags scheduled, waiting, terminated | Set, WaitFor, timed wait; OnSchedule, Execute, OnUnSchedule, WaitUntilDone, Delete | scheduler and clients | inline execution racing with the worker, deletion | executed at most once, deleted only when nobody uses it, waits end |
| Job scheduler and thread pool, `src/AsyncFramework/JobScheduler.*`, `Thread.*` | queue, running/suspended/starving threads, counters | Schedule, ThreadFunc, AllocateThread, Release, StopStarvation, WaitForEmptyQueue, WaitForSomeJobs, Stop/Resume | thread pool shared by schedulers | starvation protocol, threads handed from one scheduler to another | every queued job runs, pool limit, documented counter invariants |
| Status cache store, `src/TGitCache/GITStatusCache.*` | map path -> CCachedDirectory, two locks, block list, most recent status | GetDirectoryCacheEntry, RemoveCacheForDirectory, ClearCache, Refresh, BlockPath/UnBlockPath, GetStatusForPath, Create/Save/Destroy | crawler, pipe threads, watcher | two locks, implicit release on upgrade, entries deleted under other threads | no use of a deleted entry, no deadlock, blocks expire |
| Cached directory, `src/TGitCache/CachedDirectory.*`, `StatusCacheEntry.*` | entry cache, child directories, own and full status | GetStatusForMember, EnumFiles, callbacks, UpdateCurrentStatus, UpdateChildDirectoryStatus | parents and children, crawler | status of children folded upwards by several threads | full status = most important of own and children |
| Folder crawler, `src/TGitCache/FolderCrawler.*` | two unique queues, blocked path, inhibit count, holdoff | AddDirectoryForUpdate, AddPathForUpdate, ReleasePathForUpdate, BlockPath, WorkerThread | watcher, store, shell updater | items added while it crawls, blocked paths, waits without timeout | every change reported is crawled eventually |
| Directory watcher, `src/TGitCache/DirectoryWatcher.*` | watched roots, completion port, handles | AddPath, RemovePathAndChildren, CloseWatchHandles, WorkerThread | crawler, window messages | rebuild with the lock released, stale completions | a change below a watched root reaches the crawler |
| Cache process, `src/TGitCache/TGITCache.cpp` | single instance, pipe and command threads | WndProc, PipeThread, InstanceThread, CommandThread | shell extension over named pipes | last client leaving while a new one connects, shutdown order | requests answered or refused, no use of a destroyed instance |
| Shell updater, `src/TGitCache/ShellUpdater.*` | path list, event | AddPathForUpdate, WorkerThread | Explorer | wakeup against empty check | every change is notified |
| Shell extension, `src/TortoiseShell` | pipe handle, ShellCache of settings | GetStatusFromRemoteCache, SendCacheCommand | cache process | cache not running, request timeout | falls back, never hangs |
| Git library layer, `src/Git` | shared index and ignore maps | LoadIndex, CheckAndUpdate, status lists | cache, dialogs | maps replaced under readers | readers see a whole index |
| Rebase dialog, `src/TortoiseProc/RebaseDlg.cpp` | todo list, stage, current commit | start, continue, skip, abort, edit, squash | git | aborted or failed steps | each commit applied once, in order |
| Other dialogs, log list, `src/TortoiseProc` | GUI state | many | git | worker threads and window messages | - |
| TortoiseMerge, IDiff, UDiff, Blame | documents, undo lists | load, edit, undo, save | files | undo with several views | undo inverts |
| GitWCRev, SshAskPass, touch, ResText, setup | - | single shot tools | - | none | - |
| TortoisePlink, `ext/`, contrib, doc, Languages, installers | - | vendored, examples, data | - | - | - |

## 2. The plan

The modules, the most important behaviour first.  What is ticked exists.

1. [x] The lock everything in the status cache relies on: `RWLockImpl`, `ReaderWriterLock`,
   `RWLockSpec` (abstract), `ReaderWriterLockProofs`.
2. [x] A job and its events, `AsyncJob`; the queue without duplicates, `UniqueQueue`,
   `UniqueQueueSpec` (abstract), `UniqueQueueProofs`.
3. [x] The map of cached directories under its two locks, `CacheGuards`, `CacheGuardsProofs`.
4. [x] The crawler with its queues, its blocks and what feeds it, `FolderCrawler`, which
   composes two queues of `UniqueQueueSpec`.
5. [x] The schedulers and their pool of threads, `JobScheduler`.
6. [x] The status of directories and its way upwards, `DirectoryStatus`,
   `DirectoryStatusProofs`.
7. [x] The directory watcher, `DirectoryWatcher`: its list, its completion port and the
   worker that sets the watches up with the lock released, with the threads that disturb it.
8. [x] The life cycle of the cache process with the client's side of the pipe,
   `CacheProcess`.
9. [x] A changed status on its way to the screen, with the mini cache of the last answer
   (`GITStatusCache.cpp:485-558`): `ShellUpdater`, and `ShellStatus`, which composes it with
   the crawler, the answers and a client that shows a file.
10. [ ] The shared maps of indexes, heads and ignore files (`GitIndex.cpp`); the todo list of
   the rebase dialog; the undo lists of TortoiseGitMerge.

Theorems: the safety invariants of all runs are proved (section 6), for any number of whatever
there is more than one of.  Two of the jobs' need an assumption, which is stated with them.

## 3. The modules and the code

### 3.1 The reader-writer lock

`CReaderWriterLock` is a non-reentrant lock plus a map that counts each thread's nested read
and write locks.  Every critical section of `m_critSection` is one action, and every wait
between two of them a value of `pc`, so a grant can be overtaken by a timeout, a release or a
third thread at each point where the code allows it.  `RWLockImpl` has the bodies of the
critical sections as functions from the guarded members (`impl`) to their new values,
`ReaderWriterLock` the threads that call them (`rd` and `wr` are `m_map`), `RWLockSpec` the
lock a caller has in mind: readers, a writer, and the writers that queue.

A reader that waits may spin: a writer that gets the lock at once does not reset the read
event its predecessor has set, so the reader goes through its loop again and again until that
writer leaves.  The model has this loop; it costs only time.  `CReaderWriterLockNonReentrance` on its own (without
the map) hangs if its sole reader upgrades while writers wait; nothing in the repository uses
it on its own.

### 3.2 Jobs and their events

`AsyncJob` follows `CJobBase` through each access to a member another thread can see: the
exchange of `waiting`, the exchange of an event's state and the later look at its handle, the
test of `scheduled` after the end has been signalled, the test for the end after `scheduled`
has been reset.  `th` says where each thread is.  The scheduler is only what touches a job:
it takes it from the queue, executes it, and deletes it if it owns it; whether it ever takes
a job is not assumed, for a stopped scheduler does not and finding 2 is a running one that
does not either.  So `CallsReturn` excepts one kind of wait (`LeftWaiting`): without a timeout, for a
job that stays in the queue or was thrown away, and for what only a thread that takes it could do.  A stopped scheduler
may throw a job away (`JobScheduler.cpp:517-525`), after which a job can be deleted that is not
deletable, against the assertion of `JobBase.cpp:55`.

Three things were seen that no property states.  `Delete` deletes the job as soon as
`deletable` is set (`JobBase.cpp:133-134`), but the worker that sets it is then still inside
of the job: `COneShotEvent::Set` reads its handle after it has exchanged the state
(`WaitableEvent.cpp:164-165`), and `OnUnSchedule` tests for the end after it has reset
`scheduled` (`JobBase.cpp:40-43`), while the comment at line 123 says "Call @a delete on this
job as soon as it is safe to do so."  The model goes on there as the code does, in memory
that has been freed; `DeletedAfterUnschedule` says how far the order of the two does hold.
`WaitForEndOrTimeout`
(`WaitableEvent.cpp:184-193`) does not look at the state again after it has allocated its
handle, as `WaitFor` does, and so may report a timeout for a job that is done; nothing in the
repository calls it for a job.  And a late `SetEvent` on the handle of a
deleted job may wake the wait for another job that got the handle from
the pool.  With one job in the run this does not occur; with two jobs and two workers TLC
refutes `WaitMeansDone` and `DeletedAfterUnschedule` after 28 steps.  That late signal is also
the only cause: both are proved for any number of jobs and workers under `NoLateSet`, that no thread signals
through the event of a job that has been deleted, and without an assumption up to the first deletion.  TLC finds no
violation with two jobs under `NoLateSet` either (7,080,764 states).

### 3.3 The queue without duplicates

`UniqueQueue` has the map, the deque and the priority counter of `UniqueQueue.h`, with the
counter's wrap at `Priorities` and the rebuild in the branch that inserts.  The branch that
moves an item to the end (lines 90-94) does not look at the counter: after 2^32 moves
without an insertion the wrapped counter would put entries out of order.  Three
specifications say which wraps happen: `Spec` (any), `SpecInsertWraps` (only under an
insertion, in a queue with fewer entries than the counter has values; checked and proved) and
`SpecNoWrap` (none; proved for a queue of any size).  The rebuild walks through the map in the
order of its keys, any strict total order `Less`; `Place` counts the keys before one, `ValueAt`
is the key at a place.

### 3.4 The map of directories

`CacheGuards` is about `CGitStatusCache::GetDirectoryCacheEntry` and the removals.  `m_guard`
is read by requests and by the crawler and written by removals;
`m_guardcacheddirectories` protects the lookups among each other.  The two locks are the
abstract lock of 3.1 with their waiting writers; a request's read access may time out, an
upgrade gives read access up while it waits.  `held` and `dangling` are a thread's
`CCachedDirectory` pointers to entries that are there and that are not.  Left out:
`ExplorerMonitorThread`, the extra lookup of the release command (`TGITCache.cpp:866`), and
`CCachedDirectory::m_critSec`.

### 3.5 The crawler

`FolderCrawler` has the two queues, the wake event, the crawler's own blocked path and the
block list of `CGitStatusCache`, and `WorkerThread` as a machine of its own: one step per
queue access or test, so that others push, block and expire in between.  Paths are
working trees; `stale` is what changed and has not been read, `erased` what the crawler
dropped on purpose, `failed` whose status could not be read, and `dropped` the retries of
such reads that the crawler erased itself.  The watcher reports changes and git's `index.lock`; a request queues a
folder.  Not in the model: single files, excluded paths, the release queue, the inhibitor's
delay, termination.  Three observations.  When the read of a folder from
`m_foldersToUpdate` fails, `GetStatusFromGit` blocks it for 20 ms and queues it again, to "make
sure that this status times out soon" (`CachedDirectory.cpp:287`), and the crawler then erases
this entry together with whatever was queued during the crawl (`FolderCrawler.cpp:432-435`,
whose comment has requests from child folders in mind): the folder keeps its empty status until
something else asks for it.  `RetryOnItsWay` says that no other such retry is lost, but for one
that line 320 erases.  Files of a tree that is blocked are crawled
without the test that folders get (`FolderCrawler.cpp:331-354`).  And `Create`'s error path
(`GITStatusCache.cpp:141-146`) makes a new cache without `SetFolderCrawler` (line 55), so that its
watcher has no crawler to report to.

### 3.6 The schedulers

`JobScheduler` has the counters and lists of `CJobScheduler` and `CThreadPool`; jobs are
counted.  Each critical section is an action; where the code holds a scheduler's mutex while
it takes the pool's or another scheduler's, `mutex` stays taken over several actions.
`SetThreadCount` is called once, before any thread exists, so its sign error (line 171)
and the release of a thread beyond the pool's size (line 148) cannot be reached and are left
out, as are `WaitForSomeJobs`, `RemoveJobFromQueue` (which does not set `emptyEvent`, so a
waiter of a queue emptied that way is not woken) and the destructors.  The formula in
`JobScheduler.h:363` for `unusedCount` omits the threads that are yet to be created;
`CountersMatch` has the one the code keeps.  A scheduler that fails to get a thread
registers as starving in a second step (lines 311-312): a thread freed in between stays
in the pool while the scheduler starves, which is why `NotStranded` is about schedulers
without any registration.

Observed: a waiter that nobody wakes.  One client waits for a stopped scheduler; another one
schedules a job, which resets `emptyEvent` (lines 467-468), and then calls `WaitForEmptyQueue`
itself, which throws the job away (lines 517-530) and returns, because nothing is left.  The
first client goes on waiting for an event that nobody sets, against the comment at line 532, "we
will be woken up as soon as both containers are empty".  The history variable `thrown` marks
exactly this, that a waiter emptied the queue while no thread was running, and
`EmptySignalled` says that nothing else leaves a waiter without its event, however many wait.
Without that exception TLC refutes it under `MCJobScheduler.cfg` in eight states.

### 3.7 The status of directories

`DirectoryStatus` has the cached statuses of a tree of directories and, per thread, the steps
of `UpdateCurrentStatus` and of the calls it makes to the parents, each access under a lock of
its own.  The crawler reads a directory with `EnumFiles`: it clears the map that is being built, reports
children, replaces the map, and then updates; a read may fail at any point.  Which directory
is read when is the crawler's business (3.5): here it is arbitrary, and so is what git finds.
A status is one of three: none, normal, modified; `GitStatus::GetStatusRanking` only orders
them.  A map of children can hold a fourth, that a submodule was deleted, which the parent
shows as modified (`Adjust`).  Such an entry is the one exception of `MapsInStep`: when the
submodule is there again, `KeepChildStatus` leaves it out of the new map on purpose
(`CachedDirectory.cpp:601-609`), so that the replacement forgets the deleted status.  The model
lets any deleted child be one.  The members that a read changes without a common lock
change in steps of their own: the files' status and the own one (lines 421 and 423), and the
four that are cleared after a failed read (276-286).  A directory that is in no repository any
more is cleared the same way but for its full status (324-336); the code
locks the directory meanwhile, and the model, which does not, has more interleavings than the code.

Between reads the statuses can be stale for good: a thread overtaken between its two
accesses leaves an old status in the parent, and with "all threads idle" as the
only premise TLC refutes `Agreed`.  `Converges` is what is left of the promise in
`CachedDirectory.cpp:560-563`.  While a directory is being read its
files count as none (line 407), and after a failed read the empty own status counts as valid
(line 276), so that asking does not read it again.

### 3.8 The directory watcher

`DirectoryWatcher` has the members of `CDirectoryWatcher` and its worker.  `map` and
`toDelete` are `watchInfoMap` and `infoToDelete`; a directory has one `CDirWatchInfo` at a
time and stands for it.  What Windows knows of it is in sets of its own: whether
its handle is open, belongs to the completion port that is open now, has a read pending, and
whether completions or changes wait.  Every critical section of `m_critSec` is an action;
only the set-up of the watches keeps the lock (`lock`) over several, and gives it up for each
path to register with the window procedure (`OpenDir`, `Register`).  Lines that touch
the list without the lock (259, 279, 525-527) are steps of the worker between those of the
others.  The crawler adds a path while it reads the cache, device events and the release
command clear the watches while they write it: `guard` is who has it, and the window
procedure, which waits for the lock with the guard, is what the worker's message has to wait
for.  Adding a path replaces its children in the list and may replace the path by the root it
shares with a watched one, with the same comparison of names as the code.

Observed, and kept in the model.  The worker compares only how many paths and watches there
are (line 328): if a path replaced another one meanwhile, a list and its watches
differ, and the path is watched only after the next restart, 10 minutes after the last
change.  The first path that cannot be opened ends the set-up of the others (line 310), which
wait for a restart likewise.  A failing `CreateIoCompletionPort` is not noticed, since it
returns NULL and not `INVALID_HANDLE_VALUE` (line 341).  When the next read fails, the
information is used once more after `CleanupWatchInfo` may have deleted it (lines 516-525):
`CloseFailed` then removes any path or none.  Left out: which notifications are dropped
before they are reported, the list that loading a cache fills (it is the initial value),
`Stop`, and removal of a path through `RemovePathAndChildren` from outside (nobody calls it).

### 3.9 The cache process and its clients

`CacheProcess` follows `WinMain` from `Create` to `Destroy` (`proc`), the pipe thread and the
thread of each pipe instance (`listening`, `st`), and `CRemoteCacheLink` in the clients (`call`,
`link`, `backoff`).  Whoever starts the program while another one has the mutex starts
nothing.  The threads that count themselves in `nThreadCount` are those in `Counted`, from
the moment they run: the last one posts `WM_CLOSE`, whoever else is just connecting.  Closing
takes write access to the cache and saves it into a file that is torn until it is complete;
starting copies the file, deletes it and reads the copy, which may crash on a torn one.
Destruction has the steps of the code (`cache`): the destructor takes write access, waits for the readers
and deletes the directories ("clearing"), gives the access back ("cleared"), and then the members
go, `m_guard` among them ("freed", `GITStatusCache.cpp:203-204` and 234-238).
`SaveCacheFails` does this inside of the window procedure, whose access the destructor shares
so that nobody is let in at its end; the incomplete file is deleted after it, and the window procedure
then releases a guard that is gone (it may crash there).

Observed.  A request that tested `bRun` before the process closed (`TGITCache.cpp:453`) and waits at the
guard (460) is let in by the end of the destructor's access (`GITStatusCache.cpp:238`): it reads a cache that
is empty and about to be freed, or is freed under its hands.  After a failed save, it waits at a guard
that is freed.  `Stop` and `Sleep(100)` make this unlikely, and nothing prevents it.  The model
lets such a thread be answered with nothing, time out, be let in or crash (`ReadLock`,
`ReadLockTimesOut`, `ReadFreed`).  So `ClearedUnread` claims only what the access does
guarantee: that nobody reads while the directories are deleted, neither after a failed save nor at the end.

A crash brings the crash dialog up, and the process
stays until somebody closes it, pipe and mutex included.  A time-out is a step that is
possible only where what it waits for is held up.

Its definitions are called `ProcessSpec`, `ProcessInit` and so on, so that one module of proofs can
extend it together with `DirectoryWatcher`.

Left out: the answers themselves (3.10), the command pipe (whose threads are not
counted), the restart from the tray icon, the monitor of Explorer, and clients whose program
cannot be started at all.  `WM_QUERYENDSESSION` stops watcher and crawler even if the session
then does not end (`TGITCache.cpp:346-352`); nothing starts them again.

### 3.10 From the cache to the screen

`ShellStatus` follows one file and one client that shows it.  `disk` is what git would find,
`entry` what `m_entryCache` has, `shown` what the client shows.  The crawler reads the file on
its own or with its folder (`Read`, `ReadMore`: the status and the file's time are read one after
the other, in either order), compares and, if the status is another one, has the shell told
before it stores it, all with the directory locked (`AddEntry`, `UpdateShell`, `PushPath`,
`SignalUpdater`, `Store`).  `ShellUpdater` is the list and the thread of `CShellUpdater`, as
operators on its state.  When it has notified the shell, the viewer asks, and its thread in the
cache goes through `GetStatusForPath`: the time, the path and the status of the mini cache are
read in three steps without a lock, the path and the time are noted under one, and the
status is kept under it when it is known.  The second client asks for files for reasons of its
own.  `misled` is a history variable: what is shown comes from the mini cache and is the status of
another file, or had been replaced.

Observed.  With one client `misled` is never true and what git says is shown in the end without
exception (checked separately, 188,133 states).  With two, one thread notes its path and time
before it knows the status; another one then hits the mini cache and takes the status of the file
asked for before, or none (`GITStatusCache.cpp:491-500`).  Neither `UpdateShell` nor the end of
the second in which the mini cache is valid corrects what Explorer then shows: it is not notified
until the file changes again.

`Lookup` and `Keep` stand for the three ways to an answer that find the directory in the cache: the usual one,
and for a blocked path the file's or the folder's own status (`GITStatusCache.cpp:511-549`).

Left out: a directory that is not in the cache, for which a blocked path is answered with no status
or, if it is a folder, perhaps as normal (`GITStatusCache.cpp:552-559`); failed reads and what they forget (3.7), entries that expire (after 24 days unless
configured otherwise) or are new, of which the crawler tells nobody when it reads their
folder; folders,
changes of other files, and the copy of a status that is taken while it is overwritten (it
counts as one step).  Which changes get to the crawler is the matter of 3.5.

## 4. The runs

| Run | Instance | States | What it shows |
|---|---|---|---|
| `lock` | 3 threads, nesting up to 2 in total | 43,989 | exclusion, exact counters, wakeups, handles; the lock implements the abstract one; writers are admitted, readers not forgotten |
| `job` | 1 job, 2 workers | 6,136 | executed at most once, deletable only when over, deleted only after `OnUnSchedule`, waits end and end right |
| `queue` | 3 values, a counter of 3 bits | 638 | map and deque agree, also across a rebuild; first in, first out |
| `guards` | 2 requests, crawler, command; a tree and a folder in it; 2 lookups per request | 1,693,108 | no race on the map, no pointer to a deleted entry, circles of waits only through evictions |
| `guards_evict` | the same | violation | finding 1 |
| `crawler` | 2 trees, the watcher, 1 request thread, 2 events | 40,931 | no wake-up, no change and no retry lost, every queue worked off |
| `scheduler` | 2 schedulers with 0 and 1 private and 2 shared threads each, aggressive or not, a pool of 2, 3 threads, up to 2 and 3 jobs, 1 stop, 2 clients | 1,553,730 | counters, lists, starving flag, a waiter is woken unless the other one threw the jobs away, circles of waits only through `StopStarvation` |
| `scheduler_starved` | the same, 1 client | violation | finding 2 |
| `status` | a tree and a folder, crawler and 1 client, 4 reads or expiries | 1,431,208 | the new map loses nothing but a deleted submodule's status; stale statuses are put right |
| `watcher` | a tree, a folder in it and another tree, all or none listed at first, 2 events | 43,282 | the information of a completion is there, no watch is deaf, what is listed is watched in the end, the window procedure gets through |
| `process` | 2 clients, 2 pipe instances, a file that may be torn, 2 events | 305,528 | no reader while the cache is cleared, one crash for a torn file, calls return, clients are answered again |
| `shell` | 2 clients, 2 files, 2 events | 283,916 | what git says of a file is shown in the end, but for what another thread left in the mini cache |

Why the bounds are enough.  The lock tells apart a reader, a writer and a third thread that
comes between them, and a nesting of 2 has every case of the map (first, nested, last).  A job has
one client; two workers are one that executes and one that throws away or comes second.  The
counter of the queue has more values than a full queue has entries, and wraps in the
middle of every mix of pushes and erasures.  Two requests are
needed for an eviction, the crawler and the command for the removals that race with it; a
second lookup is what makes a first pointer dangle.  Two trees make one overtake the other in
a queue and compete for the crawler's single blocked path; a third event (1.6 million
states) was explored as well and changes nothing.  Two schedulers can take each
other's threads; a pool of 2 can be empty while a third thread is private; one scheduler with and one
without private threads are the two sides of `AllocateThread`.  A second client is what resets
the event of the first, or throws its jobs away; the third job of the scheduler that is not aggressive is
what gets it a second thread.  A tree with one folder has
a parent and a child; reads and expiries alternate twice with 4 events.  A second client with
3 events was explored too and is left out for its running time.  Three directories are a
path, its root and one that sorts between them; with 2 events a failure, a change or a
device event meets another one or a command, while paths are added without a bound; 3 events
(151 thousand states) hold as well.  One client of the process leaves while the other one
connects; 2 events are a leaving client and a kill while its close is being saved, or a failed save.
The invariants were explored with 4 events and with a third pipe instance too.  In the run
`shell` an event is a write of the file or a request nobody was notified for: two writes, a write and a
foreign request, or two requests that meet; commits, notified requests and the
end of the mini cache's second come without a bound.

Type invariants are part of the runs only where they say more than the theorems already do;
TLC was run with the others on the same instances.

Deadlock is checked where the system never stops (the lock, the directory statuses, the
watcher, the cache process).  It is
not where the environment may have nothing more to do: jobs are all deleted, the
bounds on events, lookups or jobs are used up, everything is shown, or (schedulers, directories) the waits
in a circle that `OnlyStopStarvationBlocks` and `OnlyEvictionBlocks` describe exactly.

Fairness, and why the code justifies it.

* Lock: a thread inside a call goes on (weak); a writer's wait on an auto-reset event that
  is set again and again returns (strong); the
  locks are scoped objects, so a thread that is not blocked leaves its outermost scope.
* Job: the OS runs every thread that is inside of a call; nobody must call, and nothing is assumed of
  whether or when the scheduler takes a job from its queue.
* Crawler: each thread goes on, git gives `index.lock` back, and blocks run out (they
  have a timeout: `GITStatusCache.cpp:324`, `FolderCrawler.cpp`).  No change must happen and
  no request must come.
* Watcher: the worker goes on (weak: no other thread keeps it from a lock for good, and a
  wait of 10 minutes ends), and those who wait for the lock or the guard get it (strong: both
  queue their threads).  No change, device event or command must happen.
* Process: `WinMain`, the threads and the clients inside of a call go on, and times run out
  (weak); the window procedure gets write access (strong: the lock of 3.1 lets no
  reader overtake it).  Nobody must call, leave, or close a crash dialog: `Answered` excepts
  a dialog that stays.
* Shell: the crawler, the updater and the threads that answer go on, and the viewer asks
  when it has been notified (weak).  Nothing must change, no second must end, and nobody else asks.
* Directory statuses: a read and an update that have begun go on.  That clients keep asking
  is not assumed but the premise of `Converges`.

Every property of a passing run has a mutant in `PROJECT.json`, a definition of the module
with a plausible bug, under which TLC refutes the property.  These definitions stand at the
head of each module under "Faults for the mutation runs" and belong to no specification.

## 5. Findings

1. `guards_evict`: the upgrade of `m_guard` inside the lookup gives read access up, and the
   iterator from before may be to an entry that has been removed (`GITStatusCache.cpp:440`).
   The comment asks "needed? Can this happen?"; it can.
2. `scheduler_starved`: a running scheduler that is notified of a free thread does not take
   it, because the test in `JobScheduler.cpp:489` is the wrong way round.  With
   `stopCount == 0` the model satisfies `NotStranded` and all other invariants.

## 6. The proofs

Safety only; every theorem is for all values of the constants under the named assumptions of
the modules.

**The lock** (`ReaderWriterLockProofs`; `Thread` finite).  The decisions of the
code look at counters only, so exclusion follows from the counters being exact, and exactness
needs to know where in its calls a thread can be with which nesting (`ControlInv`).  A grant is
posted only to an idle lock (`GrantIsExclusive`), which is why its receiver may take over
without a further test; handles are there while somebody counts (`HandlesOpenWhileUsed`).  These
and `NoLostWakeup` depend on one another: their conjunction `IInv` is inductive, none
of them alone is.  The proof has a lemma per critical section on what it does to the counters,
a lemma per action, and derives each property (`Exclusion`, `Counters`, `ExclusiveGrant`,
`OpenHandles`, `WakeupPending`) from `LockInvariant`.  `Implements` shows that each step is a
step of `RWLockSpec` or a stutter, with the readers, the writer and the queue computed from the
threads' places and nesting counts.

**The queue** (`UniqueQueueProofs`; any set of values, any width of the counter; it may wrap under an insertion).  An
entry is found by a search for its priority, not its value, so the inductive invariant says that
priorities grow along the deque, stay below the counter, and that map and deque
match.  A rebuild restores all of it at once: the places of a finite set's values are the numbers
below its size (`PlacesCount`: `Place` is injective and stays below the size, so by counting it
takes every number), and the map is finite because each of its values has an entry
(`MapFinite`).  That no rebuilt priority is cut off needs the bound `Fits` on the number of
entries, which a `size_t` that counts objects in memory has; without a wrap it is not needed
(`QueueInvariantNoWrap`).  `QueueImplements` is the refinement of the abstract queue, and
`QueueImplementsAround` the property that the run checks: a wrapping insertion sorts the queue
by value, as the abstract queue does not, and every other step, also after it, is an abstract one.

**The map of directories** (`CacheGuardsProofs`; any tree, any number of threads, a path at
least).  `MapRaceFree` relates threads that hold different locks, so the invariant says for
either lock that its readers and its writer are the threads whose place in the code says so
(`GuardInv`, `DirsInv`): a lookup that changes the map reads `m_guard` and writes the inner lock, a
removal writes `m_guard`, and the two exclude each other because reading excludes writing.
`PointersSafe` needs in addition that a thread with pointers reads `m_guard` or evicts, that it evicts
only what it has no pointer to, and that waiting to evict is recorded as lost access
(`PointersInv`).

**Directory statuses** (`DirectoryStatusProofs`; any parent relation, any number of
clients).  `MapsInStep` is not inductive: a child that has not been reported yet is none of its
business, but its entry in the new map must be right when it is.  `NewMapAgrees` says of every child that the new
map has no entry for it or the old one's, unless `SetChildStatus` is under way; it holds because every
writer of the new map writes the old one too.  The proof also needs that children are collected only during the
crawler's read and that an update that is about to set a status has a parent (`TypeInv`).

`OnlyEvictionBlocks` needs that only threads that wait for write access are queued for it
(`QueuesInv`).  If nobody waits to evict, nobody who waits has the inner lock, so nobody waits for it
(`NobodyWaits`); then nobody who waits has `m_guard` either, and so nobody waits at all.

**Jobs** (`AsyncJobProofs`; any number of jobs and workers, and enough
handles that `CreateEvent` finds a new one).  What makes a job's steps exclusive is spread over the places of
several threads.  `Token` says that a scheduled job is in the queue or in the hands of one thread that will call
`OnUnSchedule`; `Execution`, that one thread executes a job that is neither waiting nor done;
`Known` and `Dead`, who may still be inside of a job that is deletable or deleted; `Handles`, that until a job is deleted a handle belongs to
one event and is signalled only for it.  `ExecutedAtMostOnce` and `DeletableWhenOver` follow for all
jobs.  `DeletedAfterUnschedule` and `WaitMeansDone` depend on a signalled handle being that of an event which is
set, which a deleted job's `Set` spoils: `FirstDeletion` has it until a job is deleted, whence
`JobsUntilFirstDeletion`.  Under `NoLateSet` a second induction on top of the first has it for good:
`LiveHandles` says of the jobs that exist what `Handles` says before a deletion, and `Promises`, what the
handles are good for, follows for all jobs (`JobsDeletedAfterUnschedule`, `JobsWaitMeansDone`).

**The crawler** (`FolderCrawlerProofs`; any number of trees and threads that report, any number of
events).  `OnItsWay` is not inductive, because a thread between its push and its signal counts as a
way, although the crawler may have taken the path by then.  The invariant says the
same without that thread (`ChangesCome`, `RetriesCome`), and `NoLostWakeup` covers the signal.  The
lemmas on queues say what a cut, an append and a move to the end leave in them.

**The schedulers** (`JobSchedulerProofs`; any number of schedulers, threads and clients, any private and
shared counts).  The lists are determined by the owner of a thread and its
place in the code (`Lists`), which gives `OneList`; the counters are cardinalities, and what is borrowed is counted
as a finite set of debts (`Debts`), because a sum over the schedulers would need an induction
(`Counters`).  A starving scheduler is known to the pool in one way only (`Starvation`).
`Mutexes` says who holds which mutex and that a scheduler whose mutex a returning thread
keeps does not starve.  This is the argument for `OnlyStopStarvationBlocks`: a thread that is to notify a
scheduler waits for the mutex of a starving one, and whoever holds that one does not wait itself.
`EmptySignalled` is a second induction on top of the first, for any number of clients: a waiter finds
no thread running and no event only where `thrown` says that another one emptied the queue.

**The watcher and the process** (`CacheServerProofs`, which extends both modules; any
directories, clients and pipe instances).  `InfoAlive` is inductive once completions and
reads are known to belong to the map (`Known`): whoever moves information from the map to the
deleted ones also closes the port, so that no completion of it is left.  `WatchesListen` speaks of a waiting worker;
in between, the only watch with neither a read nor a completion is the one in the
worker's hands (`NoneDeaf`).  For `ClearedUnread`: when saving fails and the cache is destroyed, the window
procedure has write access, so nobody reads (`SavedUnread`), and until then the guard is the one
that works (`CacheThere`).  For `CrashesOnce`: each torn file and
each copy of one that is about to be read is counted, and the file is gone before its copy is read
(`TornCounted`).

Only model-checked: liveness (`WriterAdmitted`, `ReaderNotForgotten`, `CallsReturn`, `Crawled`,
`FolderServed`, `Converges`, `Watched`, `DeviceHandled`, `Answered`, `Displayed`), which is out of the prover's reach; the types of the watcher's list, which
`RemoveChildren` computes with a fold, so that a proof would be an induction over data.

## 7. Not modelled

The shared index maps are planned (section 2); what
each modelled part leaves out is said in its section.  The dialogs, viewers and small tools are user interface
around calls of git; vendored code, documentation, translations and installers are not this
program's logic.

## 8. Running

`tlc -config MCReaderWriterLock.cfg ReaderWriterLock` and so on, one config per run as
listed in `PROJECT.json`; `tlapm` on the modules named `...Proofs.tla` for the proofs.
