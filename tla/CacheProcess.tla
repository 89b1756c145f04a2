----------------------------- MODULE CacheProcess -----------------------------
(***************************************************************************)
(* The life of the cache process and its clients.  CRemoteCacheLink runs   *)
(* in the shell: it opens the pipe, starts TGitCache.exe if there is none, *)
(* and asks for a status.  TGITCache.cpp serves a pipe instance per client *)
(* with a thread each, and closes the process when the last one is gone.   *)
(* CGitStatusCache is loaded from a file at the start, saved and destroyed *)
(* at the end.  The process may be killed, and hang with its crash dialog. *)
(*                                                                         *)
(* One process at a time has the mutex; a second one ends at once.  Times  *)
(* are modelled by what a time-out waits for: it comes only when the other *)
(* side is really held up.                                                 *)
(***************************************************************************)
EXTENDS Integers

CONSTANTS
  Client,     \* processes with the shell extension
  Conn,       \* instances of the pipe
  NoConn,
  MaxMishaps   \* bound on kills, hangs, failures, exits and clients that leave

ASSUME ConnAssumption == NoConn \notin Conn

VARIABLES
  proc,      \* where the process (WinMain, WndProc) is
  cache,     \* m_pInstance: none, there, and on its way to be freed under m_guard
             \* ("clearing") and without it ("cleared")
  disk,      \* the file: torn, or sound (which no file is, too)
  copy,      \* its copy, cache2
  close,     \* WM_CLOSE is posted
  listening, \* PipeThread: an instance waits for a client ("yes"), or the thread is "dead"
  st,        \* the server's side of each instance, with its thread
  call,      \* where each client is; "answered": its last call got a status
  link,      \* m_hPipe of each client
  backoff,   \* m_lastTimeout is in the future
  torn,      \* torn files there have been, less the starts that crashed on one
  mishaps    \* how many there have been

server  == <<proc, cache, disk, copy, close, torn>>
pipe    == <<listening, st>>
client  == <<call, link, backoff>>
processVars == <<server, pipe, client, mishaps>>

\* threads that have counted themselves in nThreadCount
Counted == {"read", "lock", "answer"}

ProcessTypeOK ==
  /\ proc \in {"none", "create", "copied", "load", "up", "saving", "failed", "unsaved",
               "saved", "exit", "hung"}
  /\ close \in BOOLEAN
  /\ listening \in {"no", "yes", "dead"}
  /\ cache \in {"none", "there", "clearing", "cleared", "freed"}
  /\ {disk, copy} \subseteq {"sound", "torn"}
  /\ st \in [Conn -> {"free", "connected", "starting"} \cup Counted]
  /\ call \in [Client -> {"idle", "answered", "open", "start", "sent"}]
  /\ link \in [Client -> Conn \cup {NoConn}]
  /\ backoff \in [Client -> BOOLEAN]
  /\ torn \in Int /\ mishaps \in 0 .. MaxMishaps

ProcessInit ==
  /\ proc = "none" /\ cache = "none" /\ close = FALSE
  /\ disk \in {"sound", "torn"} /\ copy = "sound"
  /\ listening = "no"
  /\ st = [k \in Conn |-> "free"]
  /\ call = [c \in Client |-> "idle"] /\ link = [c \in Client |-> NoConn]
  /\ backoff = [c \in Client |-> FALSE]
  /\ torn = (IF disk = "torn" THEN 1 ELSE 0) /\ mishaps = 0

Mishap == mishaps < MaxMishaps /\ mishaps' = mishaps + 1

Readers == {k \in Conn : st[k] = "answer"}     \* threads with read access to the cache
bRun == proc \in {"up", "saving", "failed", "unsaved"}
Serves == bRun \/ proc \in {"saved", "exit"}  \* its threads run
Locked ==      \* WndProc or the destructor has write access to the cache
  proc \in {"saving", "failed", "unsaved"} \/ cache = "clearing"
Incomplete == proc \in {"saving", "failed"}   \* the file

\* a thread crashes: the dialog comes up, and nothing moves any more; where the threads
\* and the window procedure are is then all the same
Hangs ==
  /\ proc' = "hung" /\ cache' = "none" /\ close' = FALSE
  /\ torn' = IF Incomplete THEN torn + 1 ELSE torn
  /\ st' = [k \in Conn |-> IF st[k] = "free" THEN "free" ELSE "connected"]
  /\ UNCHANGED <<disk, copy, listening>>

-----------------------------------------------------------------------------
(* Faults for the mutation runs; see the definitions of the same names.    *)

\* The file is left where it is.
DeleteFileNot ==
  /\ proc = "copied" /\ proc' = "load"
  /\ UNCHANGED <<cache, disk, copy, close, torn, pipe, client, mishaps>>

\* The destructor does not take the lock.
DestroyAtOnce ==
  /\ proc = "saved"
  /\ \/ cache = "freed" /\ proc' = "exit" /\ UNCHANGED cache
     \/ cache = "there" /\ cache' = "clearing" /\ UNCHANGED proc
  /\ UNCHANGED <<disk, copy, close, torn, pipe, client, mishaps>>

\* The process goes on without a PipeThread.
CreateThreadFailsQuietly(k) ==
  /\ Serves /\ st[k] = "connected"
  /\ st' = [st EXCEPT ![k] = "free"]
  /\ listening' = "dead"
  /\ Mishap
  /\ UNCHANGED <<server, client>>

\* The client waits until its pipe breaks.
TransactionWaits(c) == FALSE /\ UNCHANGED processVars

-----------------------------------------------------------------------------
(* Start: WinMain and CGitStatusCache::Create. *)

\* the copy is what is read; the original is gone before it is read
CopyFile ==
  /\ proc = "create" /\ proc' = "copied"
  /\ copy' = disk
  /\ UNCHANGED <<cache, disk, close, torn, pipe, client, mishaps>>

DeleteFile ==
  /\ proc = "copied" /\ proc' = "load"
  /\ disk' = "sound"
  /\ UNCHANGED <<cache, copy, close, torn, pipe, client, mishaps>>

\* a torn file makes Create begin with an empty cache, or crash
Load ==
  /\ proc = "load"
  /\ \/ proc' = "up" /\ cache' = "there" /\ copy' = "sound"
        /\ UNCHANGED torn
     \/ copy = "torn" /\ proc' = "hung" /\ torn' = torn - 1
        /\ UNCHANGED <<cache, copy>>
  /\ close' = FALSE
  /\ UNCHANGED <<disk, pipe, client, mishaps>>

-----------------------------------------------------------------------------
(* End: WndProc, SaveCache and Destroy. *)

\* write access to the cache, Stop, and the file is opened, which empties it
Close ==
  /\ proc = "up" /\ proc' = "saving"
  /\ close /\ close' = FALSE
  /\ Readers = {}
  /\ disk' = "torn"
  /\ UNCHANGED <<cache, copy, torn, pipe, client, mishaps>>

SaveCache ==
  /\ proc = "saving" /\ proc' = "saved"
  /\ disk' = "sound"
  /\ UNCHANGED <<cache, copy, close, torn, pipe, client, mishaps>>

\* Destroy inside of the window procedure, whose write access the destructor shares
SaveCacheFails ==
  /\ proc = "saving" /\ proc' = "failed"
  /\ Mishap
  /\ cache' = "clearing"
  /\ UNCHANGED <<disk, copy, close, torn, pipe, client>>

DeleteIncomplete ==
  /\ proc = "failed" /\ proc' = "unsaved"
  /\ cache = "freed" /\ disk' = "sound"
  /\ UNCHANGED <<cache, copy, close, torn, pipe, client, mishaps>>

\* the window procedure releases the freed guard, which may crash
FailedCloses ==
  /\ proc = "unsaved"
  /\ \/ proc' = "saved" /\ UNCHANGED <<cache, disk, copy, close, torn, pipe>>
     \/ Hangs
  /\ UNCHANGED <<client, mishaps>>

\* the destructor waits for the readers, if there is still something to destroy
Destroy ==
  /\ proc = "saved"
  /\ \/ cache = "freed" /\ proc' = "exit" /\ UNCHANGED cache
     \/ cache = "there" /\ Readers = {} /\ cache' = "clearing" /\ UNCHANGED proc
  /\ UNCHANGED <<disk, copy, close, torn, pipe, client, mishaps>>

\* the end of the destructor's body, and of its write access
ClearCache ==
  /\ proc = "saved" /\ cache = "clearing"
  /\ cache' = "cleared"
  /\ UNCHANGED <<proc, disk, copy, close, torn, pipe, client, mishaps>>

\* the members, m_guard among them; with WndProc's access below it is not released first
Free ==
  /\ \/ proc = "saved" /\ cache = "cleared" /\ proc' = "exit"
     \/ proc = "failed" /\ cache = "clearing" /\ UNCHANGED proc
  /\ cache' = "freed"
  /\ UNCHANGED <<disk, copy, close, torn, pipe, client, mishaps>>

\* the process and all of its threads are gone
Ends ==
  /\ proc' = "none" /\ cache' = "none" /\ close' = FALSE
  /\ listening' = "no"
  /\ st' = [k \in Conn |-> "free"]

Exit ==
  /\ proc = "exit"
  /\ Ends
  /\ UNCHANGED <<disk, copy, torn, client, mishaps>>

\* Exit in the menu, the end of the session
WantsClose ==
  /\ proc = "up" /\ close' = TRUE
  /\ Mishap
  /\ UNCHANGED <<proc, cache, disk, copy, torn, pipe, client>>

Kill ==
  /\ proc \notin {"none", "hung"}
  /\ Ends
  /\ Mishap
  /\ torn' = IF Incomplete THEN torn + 1 ELSE torn
  /\ UNCHANGED <<disk, copy, client>>

Hang ==
  /\ Serves /\ Hangs
  /\ Mishap
  /\ UNCHANGED client

DialogClosed ==
  /\ proc = "hung"
  /\ Ends
  /\ UNCHANGED <<disk, copy, torn, client, mishaps>>

-----------------------------------------------------------------------------
(* The server's side of the pipe. *)

Goto(k, s) == st' = [st EXCEPT ![k] = s]

\* the client has closed its handle
Closed(k) == \A c \in Client : link[c] # k

\* a thread for the client that has connected
CreateThread(k) ==
  /\ Serves /\ st[k] = "connected"
  /\ Goto(k, "starting")
  /\ UNCHANGED <<server, listening, client, mishaps>>

\* it cannot be created: the instance is closed, PipeThread ends, and then the process
CreateThreadFails(k) ==
  /\ Serves /\ st[k] = "connected"
  /\ Goto(k, "free")
  /\ listening' = "dead" /\ close' = TRUE
  /\ Mishap
  /\ UNCHANGED <<proc, cache, disk, copy, torn, client>>

\* an instance for the next client
CreateNamedPipe ==
  /\ Serves /\ bRun /\ listening = "no"
  /\ \A k \in Conn : st[k] # "connected"
  /\ listening' = "yes"
  /\ UNCHANGED <<server, st, client, mishaps>>

PipeThread == CreateNamedPipe \/ \E k \in Conn : CreateThread(k)

\* InstanceThread ends, and the last one has the process closed, if it is not closing
Leave(k) ==
  /\ Goto(k, "free")
  /\ close' = (close \/ (proc = "up" /\ \A j \in Conn \ {k} : st[j] \notin Counted))
  /\ UNCHANGED <<proc, cache, disk, copy, torn>>

Loop(k) == IF bRun THEN Goto(k, "read") /\ UNCHANGED server ELSE Leave(k)

\* it counts itself only now
InstanceThread(k) ==
  /\ Serves /\ st[k] = "starting"
  /\ Loop(k)
  /\ UNCHANGED <<listening, client, mishaps>>

\* the reply, and the next turn of the loop
WriteFile(k, result) ==
  IF Closed(k) THEN Leave(k) /\ UNCHANGED call
  ELSE /\ call' = [c \in Client |-> IF link[c] = k THEN result ELSE call[c]]
       /\ Loop(k)

\* a request may still be there when its client is gone
ReadFile(k) ==
  /\ Serves /\ st[k] = "read"
  /\ \/ Closed(k) /\ Leave(k) /\ UNCHANGED call
     \/ /\ \A c \in Client : link[c] = k => call[c] = "sent"
        /\ IF bRun THEN Goto(k, "lock") /\ UNCHANGED <<server, call>>
                  ELSE WriteFile(k, "idle")
  /\ UNCHANGED <<listening, link, backoff, mishaps>>

\* GetAnswerToRequest after its test of bRun: the end of the destructor's access lets in
\* whoever waits, and m_guard, once freed, may say anything
ReadLock(k) ==
  /\ Serves /\ st[k] = "lock"
  /\ \/ ~Locked /\ cache \in {"there", "cleared"}
     \/ cache = "freed"
  /\ Goto(k, "answer")
  /\ UNCHANGED <<server, listening, client, mishaps>>

\* 2 seconds
ReadLockTimesOut(k) ==
  /\ Serves /\ st[k] = "lock"
  /\ Locked \/ cache = "freed"
  /\ WriteFile(k, "idle")
  /\ UNCHANGED <<listening, link, backoff, mishaps>>

\* the instance is no longer there
ReadFreed(k) ==
  /\ Serves /\ st[k] \in {"lock", "answer"} /\ cache = "freed"
  /\ Hangs
  /\ UNCHANGED <<client, mishaps>>

\* what is left of a destroyed cache knows nothing
GetStatusForPath(k) ==
  /\ Serves /\ st[k] = "answer"
  /\ WriteFile(k, IF cache = "there" THEN "answered" ELSE "idle")
  /\ UNCHANGED <<listening, link, backoff, mishaps>>

Thread(k) ==
  \/ InstanceThread(k) \/ ReadFile(k) \/ ReadLock(k) \/ ReadLockTimesOut(k)
  \/ ReadFreed(k) \/ GetStatusForPath(k)

-----------------------------------------------------------------------------
(* The client: CRemoteCacheLink. *)

Broken(c) == st[link[c]] = "free"

Move(c, to) == call' = [call EXCEPT ![c] = to]

Asks(c) == call[c] \notin {"idle", "answered"}

GetStatusFromRemoteCache(c) ==
  /\ ~Asks(c)
  /\ Move(c, IF link[c] = NoConn THEN "open" ELSE "sent")
  /\ UNCHANGED <<server, pipe, link, backoff, mishaps>>

Unused == {k \in Conn : st[k] = "free" /\ Closed(k)}

CanConnect == listening = "yes" /\ Unused # {}

\* EnsurePipeOpen, upon which the request is sent
Connect(c) ==
  LET k == CHOOSE j \in Unused : TRUE
  IN  /\ CanConnect /\ listening' = "no"
      /\ Goto(k, "connected")
      /\ link' = [link EXCEPT ![c] = k]
      /\ Move(c, "sent")

Open(c) ==
  /\ call[c] = "open"
  /\ Connect(c)
  /\ UNCHANGED <<server, backoff, mishaps>>

OpenFails(c) ==
  /\ call[c] = "open" /\ ~CanConnect
  /\ backoff[c]
  /\ Move(c, "idle")
  /\ UNCHANGED <<server, pipe, link, backoff, mishaps>>

\* only a process that gets the mutex goes on
RunTGitCacheProcess(c) ==
  /\ call[c] = "open" /\ ~CanConnect
  /\ ~backoff[c]
  /\ Move(c, "start")
  /\ proc' = IF proc = "none" THEN "create" ELSE proc
  /\ UNCHANGED <<cache, disk, copy, close, torn, pipe, link, backoff, mishaps>>

OpenStarted(c) ==
  /\ call[c] = "start"
  /\ Connect(c)
  /\ backoff' = [backoff EXCEPT ![c] = TRUE]
  /\ UNCHANGED <<server, mishaps>>

\* 1 second
StartTimesOut(c) ==
  /\ call[c] = "start" /\ ~CanConnect
  /\ Move(c, "idle")
  /\ backoff' = [backoff EXCEPT ![c] = TRUE]
  /\ UNCHANGED <<server, pipe, link, mishaps>>

\* 10 seconds
BackoffOver(c) ==
  /\ backoff[c] /\ backoff' = [backoff EXCEPT ![c] = FALSE]
  /\ UNCHANGED <<server, pipe, call, link, mishaps>>

ClosePipe(c) == link' = [link EXCEPT ![c] = NoConn]

\* the instance is closed, before or after the request was sent
TransactionFails(c) ==
  /\ call[c] = "sent" /\ Broken(c)
  /\ ClosePipe(c) /\ Move(c, "idle")
  /\ UNCHANGED <<server, pipe, backoff, mishaps>>

\* 10 seconds without a reply
TransactionTimesOut(c) ==
  /\ call[c] = "sent" /\ proc # "up"
  /\ ClosePipe(c) /\ Move(c, "idle")
  /\ UNCHANGED <<server, pipe, backoff, mishaps>>

\* the shell unloads the extension
Unload(c) ==
  /\ ~Asks(c) /\ link[c] # NoConn
  /\ ClosePipe(c)
  /\ Mishap
  /\ UNCHANGED <<server, pipe, call, backoff>>

Inside(c) ==
  \/ Open(c) \/ OpenFails(c) \/ RunTGitCacheProcess(c) \/ OpenStarted(c)
  \/ StartTimesOut(c) \/ TransactionFails(c) \/ TransactionTimesOut(c)

-----------------------------------------------------------------------------
Process ==
  \/ CopyFile \/ DeleteFile \/ Load \/ Close \/ SaveCache \/ DeleteIncomplete
  \/ FailedCloses \/ Destroy \/ ClearCache \/ Free \/ Exit

Environment ==
  \/ WantsClose \/ Kill \/ Hang \/ DialogClosed \/ SaveCacheFails
  \/ \E k \in Conn : CreateThreadFails(k)
  \/ \E c \in Client : Unload(c)

ProcessNext ==
  \/ Process \/ PipeThread
  \/ \E k \in Conn : Thread(k)
  \/ \E c \in Client : GetStatusFromRemoteCache(c) \/ Inside(c) \/ BackoffOver(c)
  \/ Environment

\* processes and threads go on, time passes, and the lock lets no reader overtake the
\* window procedure for ever (strong); nobody must call, and a crash dialog may stay
ProcessSpec ==
  /\ ProcessInit /\ [][ProcessNext]_processVars
  /\ WF_processVars(Process) /\ SF_processVars(Close) /\ WF_processVars(PipeThread)
  /\ \A k \in Conn : WF_processVars(Thread(k))
  /\ \A c \in Client : WF_processVars(Inside(c)) /\ WF_processVars(BackoffOver(c))

-----------------------------------------------------------------------------
(* Properties. *)

\* Nobody has read access to the cache while its directories are deleted, whether WinMain
\* destroys it or a failed SaveCache inside of the window procedure's access
\* (GITStatusCache.cpp:192, 203, 234-238).  Afterwards nothing keeps readers away: a thread
\* that tested bRun (TGITCache.cpp:453) before the process closed is let in by the end of
\* the destructor's access, and may read a cache that is empty, or freed.
ClearedUnread == cache = "clearing" => Readers = {}

\* A torn file crashes one start at most (GITStatusCache.cpp:69-74), wherever the
\* process that saves or reads it is killed.
CrashesOnce == torn >= 0

\* "We NEVER MUST BLOCK THE SHELL!" (RemoteCacheLink.cpp:187): a call returns, whatever
\* the cache does.
CallReturns == \A c \in Client : []<>~Asks(c)

\* A client that keeps asking is answered again and again, whichever client had the
\* process closed, killed, or started meanwhile, unless the crash dialog stays.
Answered ==
  (<>[](proc # "hung")) =>
    \A c \in Client : ([]<>Asks(c)) => []<>(call[c] = "answered")

=============================================================================
