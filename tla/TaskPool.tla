------------------------------ MODULE TaskPool ------------------------------
(***************************************************************************)
(* The pool that owns every connection a server of the game accepts        *)
(* (zTCPTaskPool, zTCPTask), the registry of server connections its        *)
(* threads call into (uniqueAdd, uniqueRemove) and the handshake by which   *)
(* the server's main loop gives up a connection before the pool deletes it *)
(* (recycleConn, checkRecycle).                                            *)
(*                                                                         *)
(* Verify threads, one sync thread, okay threads and one recycle thread     *)
(* each own a locked inbox (queue) and a private list (tasks).  A thread    *)
(* drains its inbox, walks its list once (todo is what is left of the      *)
(* walk) and starts over.  A task it is done with is erased from the list,  *)
(* gets its next state, and is then added to the inbox of another thread:   *)
(* in between it is only in this thread's hand.                             *)
(***************************************************************************)
EXTENDS Naturals, FiniteSets

CONSTANTS
  Conn,             \* connections (zTCPTask objects) ever accepted
  ServerID,         \* what a connection is unique by: a server, zone or account id
  NoID,             \* the id of a connection that never passed verification
  VerifyThread,     \* the verify threads (maxVerifyThreads of them)
  SyncThread,       \* the one sync thread
  RecycleThread,    \* the one recycle thread
  maxThreadCount,   \* okay threads are 1 .. maxThreadCount
  connPerThread,    \* connections an okay thread may serve
  Server,           \* whose recycleConn runs: "Super", "Bill" or "Session"
  GarbageFlags      \* what an uninitialised bool may read as

OkayThread == 1 .. maxThreadCount
Thread == VerifyThread \cup OkayThread \cup {SyncThread, RecycleThread}

ASSUME PoolAssumption ==
  /\ maxThreadCount \in Nat \ {0}
  /\ connPerThread \in Nat \ {0}
  /\ VerifyThread \cap OkayThread = {}
  /\ SyncThread \notin VerifyThread \cup OkayThread
  /\ RecycleThread \notin VerifyThread \cup OkayThread \cup {SyncThread}
  /\ NoID \notin ServerID
  /\ Server \in {"Super", "Bill", "Session"}
  /\ GarbageFlags \in SUBSET BOOLEAN

VARIABLES
  \* the tasks
  state,            \* zTCPTask::state, "none" before the constructor
  key,              \* the id set by verifyConn (wdServerID, zone, accid)
  late,             \* tasks older than the 5 s verifyConn is given
  closing,          \* tasks told to Terminate or TerminateWait
  uniqueVerified,   \* tasks whose uniqueVerified flag reads true
  recycle_state,    \* how far recycleConn and checkRecycle have agreed
  \* the threads
  queue, tasks, todo, hand, dest, phase, starts, stop,
  \* the rest of the server
  container,        \* tasks between addToContainer and removeFromContainer
  registry,         \* the unique container: id -> the task registered, if any
  inbox,            \* tasks whose MessageQueue is not empty
  users,            \* tasks some user object points to
  sweep, visit,     \* execEvery: tasks not reached yet, task being looked at
  borrowed,         \* task pointer another thread got from getTaskByID
  ticking           \* the main loop (TimeTick) has not been stopped

taskVars   == <<state, key, late, closing, uniqueVerified, recycle_state>>
threadVars == <<queue, tasks, todo, hand, dest, phase, starts, stop>>
serverVars == <<container, registry, inbox, users, sweep, visit, borrowed, ticking>>
vars == <<taskVars, threadVars, serverVars>>

State == {"none", "verify", "sync", "okay", "recycle", "notuse"}
Walking == {"timeout", "recv", "sync", "check", "io", "recycle"}

TypeOK ==
  /\ state \in [Conn -> State]
  /\ key \in [Conn -> ServerID \cup {NoID}]
  /\ late \in SUBSET Conn
  /\ closing \in SUBSET Conn
  /\ uniqueVerified \in SUBSET Conn
  /\ recycle_state \in [Conn -> 0 .. 2]
  /\ queue \in [Thread -> SUBSET Conn]
  /\ tasks \in [Thread -> SUBSET Conn]
  /\ todo \in [Thread -> SUBSET Conn]
  /\ hand \in [Thread -> SUBSET Conn]
  /\ dest \in [Thread -> Thread]
  /\ phase \in [Thread -> Walking \cup {"down", "top", "final", "exited"}]
  /\ starts \in [OkayThread -> Nat]
  /\ stop \in SUBSET Thread
  /\ container \in SUBSET Conn
  /\ registry \in [ServerID -> SUBSET Conn]
  /\ inbox \in SUBSET Conn
  /\ users \in SUBSET Conn
  /\ sweep \in SUBSET Conn
  /\ visit \in SUBSET Conn
  /\ borrowed \in SUBSET Conn
  /\ ticking \in BOOLEAN

\* zTCPTaskPool::init: every thread runs but the okay threads, of which only
\* the first (minThreadCount = 1) was started, and may not be up yet.
Init ==
  /\ state = [c \in Conn |-> "none"]
  /\ key = [c \in Conn |-> NoID]
  /\ late = {} /\ closing = {} /\ uniqueVerified = {}
  /\ recycle_state = [c \in Conn |-> 0]
  /\ queue = [t \in Thread |-> {}]
  /\ tasks = [t \in Thread |-> {}]
  /\ todo = [t \in Thread |-> {}]
  /\ hand = [t \in Thread |-> {}]
  /\ dest = [t \in Thread |-> RecycleThread]
  /\ phase = [t \in Thread |-> IF t \in OkayThread THEN "down" ELSE "top"]
  /\ starts = [n \in OkayThread |-> IF n = 1 THEN 1 ELSE 0]
  /\ stop = {}
  /\ container = {}
  /\ registry = [k \in ServerID |-> {}]
  /\ inbox = {} /\ users = {} /\ sweep = {} /\ visit = {} /\ borrowed = {}
  /\ ticking = TRUE

(***************************************************************************)
(* What every thread does.                                                 *)
(***************************************************************************)
FirstWalk(t) == IF t \in VerifyThread THEN "timeout"
                ELSE IF t \in OkayThread THEN "check"
                ELSE IF t = SyncThread THEN "sync" ELSE "recycle"

\* The thread is at task c of its walk and has nothing else in hand.
At(t, walk, c) == phase[t] = walk /\ c \in todo[t] /\ hand[t] = {}

\* Walk past c, or past c and erase it from the list.
Skip(t, c)  == /\ todo' = [todo EXCEPT ![t] = @ \ {c}]
               /\ UNCHANGED tasks
Erase(t, c) == /\ todo' = [todo EXCEPT ![t] = @ \ {c}]
               /\ tasks' = [tasks EXCEPT ![t] = @ \ {c}]

SetState(c, s) == state' = [state EXCEPT ![c] = s]

\* Seeded fault: the task is added elsewhere but not erased.
HandOverNoErase(t, c, u) == /\ Skip(t, c)
                            /\ hand' = [hand EXCEPT ![t] = {c}]
                            /\ dest' = [dest EXCEPT ![t] = u]
                            /\ UNCHANGED <<queue, phase, starts, stop>>

\* Erase c, whose state the same step sets, to be added to thread u's inbox.
HandOver(t, c, u) == /\ Erase(t, c)
                     /\ hand' = [hand EXCEPT ![t] = {c}]
                     /\ dest' = [dest EXCEPT ![t] = u]
                     /\ UNCHANGED <<queue, phase, starts, stop>>

\* erase, resetState, and addRecycle once the hand is put down
Dismiss(t, c) == HandOver(t, c, RecycleThread) /\ SetState(c, "recycle")

\* zTCPTaskQueue::add of the task in hand
Add(t) == /\ hand[t] # {}
          /\ queue' = [queue EXCEPT ![dest[t]] = @ \cup hand[t]]
          /\ hand' = [hand EXCEPT ![t] = {}]
          /\ dest' = [dest EXCEPT ![t] = RecycleThread]
          /\ UNCHANGED <<tasks, todo, phase, starts, stop, taskVars, serverVars>>

\* zTCPTaskQueue::check_queue at the head of the loop, then the walk begins.
\* An okay thread also parses what its new tasks had buffered (ListeningRecv).
CheckQueue(t) ==
  /\ phase[t] = "top" /\ t \notin stop
  /\ tasks[t] \cup queue[t] # {}
  /\ tasks' = [tasks EXCEPT ![t] = @ \cup queue[t]]
  /\ queue' = [queue EXCEPT ![t] = {}]
  /\ todo' = [todo EXCEPT ![t] = tasks[t] \cup queue[t]]
  /\ phase' = [phase EXCEPT ![t] = FirstWalk(t)]
  /\ IF t \in OkayThread THEN \E S \in SUBSET queue[t] : inbox' = inbox \cup S
                         ELSE UNCHANGED inbox
  /\ UNCHANGED <<hand, dest, starts, stop, taskVars>>
  /\ UNCHANGED <<container, registry, users, sweep, visit, borrowed, ticking>>

\* The walk is over: a verify thread goes on from time-outs to received data,
\* an okay thread from signals to input and output, the others start over.
EndWalk(t) ==
  /\ phase[t] \in Walking /\ todo[t] = {} /\ hand[t] = {}
  /\ LET next == IF phase[t] = "timeout" THEN "recv"
                 ELSE IF phase[t] = "check" THEN "io" ELSE "top"
     IN /\ phase' = [phase EXCEPT ![t] = next]
        /\ todo' = [todo EXCEPT ![t] = IF next = "top" THEN {} ELSE tasks[t]]
  /\ UNCHANGED <<queue, tasks, hand, dest, starts, stop, taskVars, serverVars>>

(***************************************************************************)
(* Accept and verify.                                                      *)
(***************************************************************************)
\* zThreadGroup::joinAll holds the group's lock from the first verify thread
\* it stops to the last, and leaves the group empty.
VerifyThreadsOpen == stop \cap VerifyThread = {}

\* newTCPTask and addVerify: the constructor leaves uniqueVerified unset, so it
\* reads as whatever the memory held.
Accept(c, v) ==
  /\ state[c] = "none" /\ VerifyThreadsOpen
  /\ SetState(c, "verify")
  /\ \E g \in GarbageFlags :
       uniqueVerified' = IF g THEN uniqueVerified \cup {c} ELSE uniqueVerified
  /\ queue' = [queue EXCEPT ![v] = @ \cup {c}]
  /\ UNCHANGED <<key, late, closing, recycle_state>>
  /\ UNCHANGED <<tasks, todo, hand, dest, phase, starts, stop, serverVars>>

\* Five seconds have passed since the task was made.
Grow(c) == /\ state[c] = "verify" /\ late' = late \cup {c}
           /\ UNCHANGED <<state, key, closing, uniqueVerified, recycle_state>>
           /\ UNCHANGED <<threadVars, serverVars>>

\* Seeded fault: the clock is not looked at.
CheckVerifyTimeoutNever(v, c) ==
  /\ At(v, "timeout", c) /\ Skip(v, c)
  /\ UNCHANGED <<queue, hand, dest, phase, starts, stop, taskVars, serverVars>>

CheckVerifyTimeout(v, c) ==
  /\ At(v, "timeout", c)
  /\ IF c \in late
     THEN Dismiss(v, c)
     ELSE Skip(v, c) /\ UNCHANGED <<state, queue, hand, dest, phase, starts, stop>>
  /\ UNCHANGED <<key, late, closing, uniqueVerified, recycle_state, serverVars>>

\* WaitRecv or verifyConn says 0: ask again in the next walk.
VerifyNothing(v, c) ==
  /\ At(v, "recv", c) /\ Skip(v, c)
  /\ UNCHANGED <<queue, hand, dest, phase, starts, stop, taskVars, serverVars>>

\* WaitRecv or verifyConn says -1.
VerifyFailed(v, c) ==
  /\ At(v, "recv", c) /\ Dismiss(v, c)
  /\ UNCHANGED <<key, late, closing, uniqueVerified, recycle_state, serverVars>>

\* The main loop holds the registry's lock for the whole of execEvery, and a
\* read lock excludes readers too: zRWLock is a plain mutex.
RegistryFree == sweep \cup visit = {}

\* verifyConn says 1 and gives the task an id; uniqueAdd fails if it is taken.
VerifyOK(v, c) ==
  /\ At(v, "recv", c) /\ RegistryFree
  /\ \E k \in ServerID :
       /\ key' = [key EXCEPT ![c] = k]
       /\ \/ /\ registry[k] = {}
             /\ registry' = [registry EXCEPT ![k] = {c}]
             /\ uniqueVerified' = uniqueVerified \cup {c}
             /\ HandOver(v, c, SyncThread) /\ SetState(c, "sync")
          \/ /\ registry[k] # {}
             /\ Dismiss(v, c)
             /\ UNCHANGED <<registry, uniqueVerified>>
  /\ UNCHANGED <<late, closing, recycle_state>>
  /\ UNCHANGED <<container, inbox, users, sweep, visit, borrowed, ticking>>

(***************************************************************************)
(* Wait for the other servers, then admit to an okay thread.               *)
(***************************************************************************)
WaitSync(c) ==          \* waitSync says 0
  /\ At(SyncThread, "sync", c) /\ Skip(SyncThread, c)
  /\ UNCHANGED <<queue, hand, dest, phase, starts, stop, taskVars, serverVars>>

SyncFailed(c) ==        \* waitSync says -1
  /\ At(SyncThread, "sync", c) /\ Dismiss(SyncThread, c)
  /\ UNCHANGED <<key, late, closing, uniqueVerified, recycle_state, serverVars>>

isAlive(n) == phase[n] \notin {"down", "exited"}
size(n) == Cardinality(queue[n]) + Cardinality(tasks[n])

\* addOkay looks no further than the first thread that is not running ...
nostart == {n \in OkayThread : ~isAlive(n) /\ \A m \in 1 .. (n - 1) : isAlive(m)}
Running == {n \in OkayThread : \A m \in 1 .. n : isAlive(m)}
\* Seeded fault: one connection too many.
pminLE == {n \in Running : /\ size(n) <= connPerThread
                           /\ \A m \in Running : size(n) <= size(m)
                           /\ \A m \in Running : size(m) = size(n) => n <= m}
\* ... and takes the least busy thread before it, the first of equals.
pmin == {n \in Running : /\ size(n) < connPerThread
                         /\ \A m \in Running : size(n) <= size(m)
                         /\ \A m \in Running : size(m) = size(n) => n <= m}

\* getNextState from sync (buffered, addToContainer, okay), then add to n.
EnterOkay(c, n) ==
  /\ Erase(SyncThread, c) /\ SetState(c, "okay")
  /\ container' = container \cup {c}
  /\ hand' = [hand EXCEPT ![SyncThread] = {c}]
  /\ dest' = [dest EXCEPT ![SyncThread] = n]
  /\ UNCHANGED <<queue, phase, stop>>
  /\ UNCHANGED <<key, late, closing, uniqueVerified, recycle_state>>
  /\ UNCHANGED <<registry, inbox, users, sweep, visit, borrowed, ticking>>

\* waitSync says 1 and a running thread has room.
AddOkay(c, n) ==
  /\ At(SyncThread, "sync", c) /\ n \in pmin
  /\ EnterOkay(c, n) /\ UNCHANGED starts

\* waitSync says 1, no running thread has room, but one is not running.
StartOkay(c, n) ==
  /\ At(SyncThread, "sync", c) /\ pmin = {} /\ n \in nostart
  /\ starts' = [starts EXCEPT ![n] = @ + 1]
  /\ EnterOkay(c, n)

\* waitSync says 1, every thread runs and none has room.
AddOkayFailed(c) ==
  /\ At(SyncThread, "sync", c) /\ pmin = {} /\ nostart = {}
  /\ Dismiss(SyncThread, c)
  /\ UNCHANGED <<key, late, closing, uniqueVerified, recycle_state, serverVars>>

\* zThread::threadFunc: a started thread sets alive and enters run.
ThreadUp(n) ==
  /\ phase[n] = "down" /\ starts[n] > 0
  /\ phase' = [phase EXCEPT ![n] = "top"]
  /\ UNCHANGED <<queue, tasks, todo, hand, dest, starts, stop, taskVars, serverVars>>

(***************************************************************************)
(* Serve.                                                                  *)
(***************************************************************************)
\* Seeded fault: the connection stays in the container.
LeaveOkayVisible(n, c) == Dismiss(n, c) /\ UNCHANGED container

\* getNextState from okay (removeFromContainer, recycle) and addRecycle.
LeaveOkay(n, c) == Dismiss(n, c) /\ container' = container \ {c}

\* checkSignal, isTerminateWait, isTerminate: the task leaves when it was told
\* to, or when the last test signal was not answered; otherwise it stays.
CheckSignal(n, c) ==
  /\ At(n, "check", c)
  /\ \/ /\ c \notin closing /\ Skip(n, c)
        /\ UNCHANGED <<queue, hand, dest, phase, starts, stop, taskVars, container>>
     \/ /\ LeaveOkay(n, c) /\ closing' = closing \cup {c}
        /\ UNCHANGED <<key, late, uniqueVerified, recycle_state>>
  /\ UNCHANGED <<registry, inbox, users, sweep, visit, borrowed, ticking>>

\* A socket error terminates the task; a command received goes to its
\* MessageQueue (ListeningRecv, msgParse).
InputOutput(n, c) ==
  /\ At(n, "io", c) /\ Skip(n, c)
  /\ \/ closing' = closing \cup {c} /\ UNCHANGED inbox
     \/ inbox' = inbox \cup {c} /\ UNCHANGED closing
     \/ UNCHANGED <<closing, inbox>>
  /\ UNCHANGED <<queue, hand, dest, phase, starts, stop>>
  /\ UNCHANGED <<state, key, late, uniqueVerified, recycle_state>>
  /\ UNCHANGED <<container, registry, users, sweep, visit, borrowed, ticking>>

\* Another thread asks for the connection to be closed.
TerminateWait(c) ==
  /\ c \in container \ closing
  /\ closing' = closing \cup {c}
  /\ UNCHANGED <<state, key, late, uniqueVerified, recycle_state>>
  /\ UNCHANGED <<threadVars, serverVars>>

(***************************************************************************)
(* Recycle.                                                                *)
(***************************************************************************)
\* recycleConn without its side effect: may the task be deleted now?  The
\* default agrees at once, SessionTask waits for the main loop's checkRecycle,
\* BillTask does so only for a task that passed verifyConn (veriry_ok).
SessionRecyclable(c) == recycle_state[c] = 2
BillRecyclable(c)    == key[c] # NoID => recycle_state[c] = 2
Recyclable(c) == CASE Server = "Super"   -> TRUE
                   [] Server = "Bill"    -> BillRecyclable(c)
                   [] Server = "Session" -> SessionRecyclable(c)

\* recycleConn says 0, and has asked the main loop the first time.
RecycleConn(c) ==
  /\ At(RecycleThread, "recycle", c) /\ state[c] = "recycle" /\ ~Recyclable(c)
  /\ Skip(RecycleThread, c)
  /\ recycle_state' = [recycle_state EXCEPT ![c] = 1]
  /\ UNCHANGED <<state, key, late, closing, uniqueVerified>>
  /\ UNCHANGED <<queue, hand, dest, phase, starts, stop, serverVars>>

\* Seeded faults: uniqueRemove of any task, without asking isUnique; and
\* uniqueRemove without the registry's lock.
uniqueRemoveAny(c) ==
  /\ RegistryFree
  /\ registry' = [k \in ServerID |-> IF k = key[c] THEN {} ELSE registry[k]]
uniqueRemoveUnlocked(c) ==
  registry' = [k \in ServerID |-> IF k = key[c] /\ c \in uniqueVerified
                                  THEN {} ELSE registry[k]]

\* uniqueRemove erases whatever is registered under the task's id.
uniqueRemove(c) ==
  IF c \in uniqueVerified
  THEN /\ RegistryFree
       /\ registry' = [k \in ServerID |-> IF k = key[c] THEN {} ELSE registry[k]]
  ELSE UNCHANGED registry

\* recycleConn says 1: erase, uniqueRemove, getNextState, delete.
Reclaim(c) ==
  /\ state[c] = "recycle"
  /\ Erase(RecycleThread, c) /\ uniqueRemove(c) /\ SetState(c, "notuse")
  /\ UNCHANGED <<key, late, closing, uniqueVerified, recycle_state>>
  /\ UNCHANGED <<queue, hand, dest, phase, starts, stop>>
  /\ UNCHANGED <<container, inbox, users, sweep, visit, borrowed, ticking>>

RecycleDone(c) == /\ At(RecycleThread, "recycle", c) /\ Recyclable(c)
                  /\ Reclaim(c)

\* A task that was added twice is met again after it was deleted.
RecycleFreed(c) ==
  /\ c \in todo[RecycleThread] /\ state[c] = "notuse"
  /\ Erase(RecycleThread, c)
  /\ UNCHANGED <<queue, hand, dest, phase, starts, stop, taskVars, serverVars>>

(***************************************************************************)
(* The server's main loop (BillTimeTick::run, execEvery).                  *)
(***************************************************************************)
Registered == UNION {registry[k] : k \in ServerID}

ExecEvery ==
  /\ Server # "Super" /\ ticking /\ RegistryFree /\ Registered # {}
  /\ sweep' = Registered
  /\ UNCHANGED <<taskVars, threadVars>>
  /\ UNCHANGED <<container, registry, inbox, users, visit, borrowed, ticking>>

\* Seeded faults: checkRecycle counts on; it forgets the users; it never agrees.
CheckRecycleCounts(c) ==
  /\ c \in sweep /\ visit = {}
  /\ sweep' = sweep \ {c}
  /\ IF recycle_state[c] = 0
     THEN visit' = {c} /\ UNCHANGED <<users, recycle_state>>
     ELSE /\ users' = users \ {c} /\ UNCHANGED visit
          /\ recycle_state' = [recycle_state EXCEPT ![c] = @ + 1]
  /\ UNCHANGED <<state, key, late, closing, uniqueVerified, threadVars>>
  /\ UNCHANGED <<container, registry, inbox, borrowed, ticking>>
CheckRecycleKeepsUsers(c) ==
  /\ c \in sweep /\ visit = {}
  /\ sweep' = sweep \ {c}
  /\ visit' = IF recycle_state[c] = 0 THEN {c} ELSE {}
  /\ recycle_state' = [recycle_state EXCEPT ![c] = IF @ = 1 THEN 2 ELSE @]
  /\ UNCHANGED <<state, key, late, closing, uniqueVerified, threadVars>>
  /\ UNCHANGED <<container, registry, inbox, users, borrowed, ticking>>
CheckRecycleSilent(c) ==
  /\ c \in sweep /\ visit = {}
  /\ sweep' = sweep \ {c}
  /\ visit' = IF recycle_state[c] = 0 THEN {c} ELSE {}
  /\ UNCHANGED <<taskVars, threadVars>>
  /\ UNCHANGED <<container, registry, inbox, users, borrowed, ticking>>

\* checkRecycle: 0, the task lives and its commands are next; 1, the users of
\* the connection are removed and the recycle thread is told; 2, nothing.
CheckRecycle(c) ==
  /\ c \in sweep /\ visit = {}
  /\ sweep' = sweep \ {c}
  /\ \/ /\ recycle_state[c] = 0
        /\ visit' = {c} /\ UNCHANGED <<users, recycle_state>>
     \/ /\ recycle_state[c] = 1
        /\ users' = users \ {c}
        /\ recycle_state' = [recycle_state EXCEPT ![c] = 2]
        /\ UNCHANGED visit
     \/ /\ recycle_state[c] = 2
        /\ UNCHANGED <<users, recycle_state, visit>>
  /\ UNCHANGED <<state, key, late, closing, uniqueVerified, threadVars>>
  /\ UNCHANGED <<container, registry, inbox, borrowed, ticking>>

\* doCmd: of the Session server's commands, some make a user that points to
\* the connection the command came from.
DoCmd(c) ==
  /\ c \in visit /\ visit' = {}
  /\ inbox' = inbox \ {c}
  /\ \/ /\ Server = "Session" /\ c \in inbox
        /\ users' = users \cup {c}
     \/ UNCHANGED users
  /\ UNCHANGED <<taskVars, threadVars>>
  /\ UNCHANGED <<container, registry, sweep, borrowed, ticking>>

(***************************************************************************)
(* BillService::msgParse_SuperService runs in the thread of the connection *)
(* to the Super server: getTaskByID, then new BillUser and addUser.        *)
(***************************************************************************)
GetTaskByID(k) ==
  /\ Server = "Bill" /\ borrowed = {} /\ registry[k] # {} /\ RegistryFree
  /\ borrowed' = registry[k]
  /\ UNCHANGED <<taskVars, threadVars>>
  /\ UNCHANGED <<container, registry, inbox, users, sweep, visit, ticking>>

AddUser ==
  /\ borrowed # {} /\ borrowed' = {}
  /\ users' = users \cup borrowed
  /\ UNCHANGED <<taskVars, threadVars>>
  /\ UNCHANGED <<container, registry, inbox, sweep, visit, ticking>>

(***************************************************************************)
(* Shut down: the main loop is joined, then zTCPTaskPool::final.           *)
(***************************************************************************)
StopTicking ==
  /\ ticking /\ RegistryFree /\ ticking' = FALSE
  /\ UNCHANGED <<taskVars, threadVars>>
  /\ UNCHANGED <<container, registry, inbox, users, sweep, visit, borrowed>>

Exited(t) == phase[t] = "exited"

\* The verify threads are stopped first, then the sync thread, the okay
\* threads and the recycle thread; each is joined before the next is stopped.
Before(t) == IF t \in VerifyThread THEN {}
             ELSE IF t = SyncThread THEN VerifyThread
             ELSE IF t \in OkayThread THEN VerifyThread \cup {SyncThread}
             ELSE Thread \ {RecycleThread}

StopThread(t) ==        \* zThread::final, seen at the head of the loop
  /\ ~ticking /\ t \notin stop
  /\ \A u \in stop \cup Before(t) : Exited(u)
  /\ stop' = stop \cup {t}
  /\ IF t \in OkayThread /\ starts[t] = 0       \* never started: nothing to join
     THEN phase' = [phase EXCEPT ![t] = "exited"]
     ELSE UNCHANGED phase
  /\ UNCHANGED <<queue, tasks, todo, hand, dest, starts, taskVars, serverVars>>

\* Seeded faults: no last loop over the list; and a loop that goes on until the
\* list is empty.
LeaveLoopAtOnce(t) ==
  /\ phase[t] = "top" /\ t \in stop
  /\ phase' = [phase EXCEPT ![t] = "exited"]
  /\ UNCHANGED <<queue, tasks, todo, hand, dest, starts, stop, taskVars, serverVars>>
LeaveLoopWhenEmpty(t) == tasks[t] = {} /\ LeaveLoopAtOnce(t)

\* run leaves its loop.  What is still in its inbox stays there for good.
LeaveLoop(t) ==
  /\ phase[t] = "top" /\ t \in stop
  /\ \/ /\ tasks[t] = {}
        /\ phase' = [phase EXCEPT ![t] = "exited"] /\ UNCHANGED todo
     \/ /\ tasks[t] # {}
        /\ phase' = [phase EXCEPT ![t] = "final"]
        /\ \/ /\ t \in VerifyThread            \* tasks.begin()
              /\ \E c \in tasks[t] : todo' = [todo EXCEPT ![t] = {c}]
           \/ /\ t \notin VerifyThread
              /\ todo' = [todo EXCEPT ![t] = tasks[t]]
  /\ UNCHANGED <<queue, tasks, hand, dest, starts, stop, taskVars, serverVars>>

\* The last loop of a verify thread: remove is empty, so the first task is
\* reset and added to the recycle thread again and again.
VerifyFinal(v, c) ==
  /\ At(v, "final", c)
  /\ state' = [state EXCEPT ![c] = IF @ = "notuse" THEN @ ELSE "recycle"]
  /\ queue' = [queue EXCEPT ![RecycleThread] = @ \cup {c}]
  /\ UNCHANGED <<key, late, closing, uniqueVerified, recycle_state>>
  /\ UNCHANGED <<tasks, todo, hand, dest, phase, starts, stop, serverVars>>

SyncFinal(c) ==
  /\ At(SyncThread, "final", c) /\ Dismiss(SyncThread, c)
  /\ UNCHANGED <<key, late, closing, uniqueVerified, recycle_state, serverVars>>

OkayFinal(n, c) ==
  /\ At(n, "final", c) /\ LeaveOkay(n, c)
  /\ UNCHANGED <<key, late, closing, uniqueVerified, recycle_state>>
  /\ UNCHANGED <<registry, inbox, users, sweep, visit, borrowed, ticking>>

RecycleFinal(c) == At(RecycleThread, "final", c) /\ Reclaim(c)

Exit(t) ==
  /\ phase[t] = "final" /\ todo[t] = {} /\ hand[t] = {}
  /\ phase' = [phase EXCEPT ![t] = "exited"]
  /\ UNCHANGED <<queue, tasks, todo, hand, dest, starts, stop, taskVars, serverVars>>

(***************************************************************************)
(* Who takes steps, and which of them must keep taking them.               *)
(***************************************************************************)
VerifyStep(v) == \E c \in Conn : \/ CheckVerifyTimeout(v, c) \/ VerifyNothing(v, c)
                                 \/ VerifyFailed(v, c) \/ VerifyOK(v, c)
                                 \/ VerifyFinal(v, c)
SyncStep == \E c \in Conn : \/ WaitSync(c) \/ SyncFailed(c) \/ AddOkayFailed(c)
                            \/ SyncFinal(c)
                            \/ \E n \in OkayThread : AddOkay(c, n) \/ StartOkay(c, n)
OkayStep(n) == \/ ThreadUp(n)
               \/ \E c \in Conn : \/ CheckSignal(n, c) \/ InputOutput(n, c)
                                  \/ OkayFinal(n, c)
RecycleStep == \E c \in Conn : \/ RecycleConn(c) \/ RecycleDone(c)
                               \/ RecycleFreed(c) \/ RecycleFinal(c)
LoopStep(t) == Add(t) \/ CheckQueue(t) \/ EndWalk(t) \/ LeaveLoop(t) \/ Exit(t)

ThreadStep(t) == \/ LoopStep(t)
                 \/ t \in VerifyThread /\ VerifyStep(t)
                 \/ t \in OkayThread /\ OkayStep(t)
                 \/ t = SyncThread /\ SyncStep
                 \/ t = RecycleThread /\ RecycleStep
MainStep == \/ ExecEvery
            \/ \E c \in Conn : CheckRecycle(c) \/ DoCmd(c)
StopStep == \E t \in Thread : StopThread(t)
Outside == \/ \E c \in Conn, v \in VerifyThread : Accept(c, v)
           \/ \E c \in Conn : TerminateWait(c)
           \/ \E k \in ServerID : GetTaskByID(k)
           \/ AddUser
           \/ StopTicking

Next == \/ \E t \in Thread : ThreadStep(t)
        \/ MainStep
        \/ StopStep
        \/ \E c \in Conn : Grow(c)
        \/ Outside

Spec == Init /\ [][Next]_vars

\* Every thread is scheduled.  The main loop takes the registry's lock again
\* and again, so a verify or recycle thread is only sometimes able to go on;
\* the lock is a system mutex (zRWLock) that serves its waiters in turn, and
\* the main loop sleeps 50 ms between two sweeps.
Fairness == /\ \A t \in Thread : SF_vars(ThreadStep(t))
            /\ WF_vars(MainStep)
            /\ WF_vars(StopStep)
            /\ \A c \in Conn : WF_vars(Grow(c))
            /\ WF_vars(AddUser)

FairSpec == Spec /\ Fairness

(***************************************************************************)
(* Properties                                                              *)
(***************************************************************************)
Held(t) == queue[t] \cup tasks[t] \cup hand[t]

\* Tasks in the grip of the endless last loop of a verify thread.
Stuck == {c \in Conn : \E v \in VerifyThread : phase[v] = "final" /\ c \in todo[v]}

\* "Set the state first, then add, otherwise one task may be in two threads at
\* once" (zTCPTaskPool.cpp, five times): a task is held by one thread, in one
\* of its inbox, its list and its hand.
OneThreadPerTask ==
  \A c \in Conn \ Stuck, t, u \in Thread :
    /\ c \in Held(t) /\ c \in Held(u) => t = u
    /\ c \notin queue[t] \cap tasks[t]
    /\ c \notin hand[t] \cap (queue[t] \cup tasks[t])

\* The container that "must guarantee the uniqueness of the connection": a
\* connection past verification is the one registered under its id.
LiveIsRegistered ==
  \A c \in Conn : state[c] \in {"sync", "okay"} => registry[key[c]] = {c}

\* execEvery never looks at a task the recycle thread has deleted.
SweptAlive == \A c \in sweep \cup visit : state[c] # "notuse"

\* While the server runs, no user points to a deleted connection: this is what
\* recycleConn and checkRecycle wait for each other for.
NoDanglingUser == ticking => \A c \in users : state[c] # "notuse"

\* An okay thread serves more connections than it may only when addOkay started
\* it twice, because it was not up yet the first time.
OverloadOnlyByRestart ==
  \A n \in OkayThread : size(n) <= connPerThread \/ starts[n] > 1

\* What final does not delete was left in an inbox that no thread read again.
LeftInInboxes ==
  Exited(RecycleThread) =>
    \A c \in Conn : \/ state[c] \in {"none", "notuse"}
                    \/ \E t \in Thread : c \in queue[t]

\* A connection that sends nothing does not wait for verification for ever.
VerifyEnds == \A c \in Conn : state[c] = "verify" ~> (state[c] # "verify" \/ ~ticking)

\* A connection that is closed is deleted and its id is free again.
ClosedIsReclaimed ==
  \A c \in Conn : (state[c] = "okay" /\ c \in closing)
                    ~> ((state[c] = "notuse" /\ c \notin Registered) \/ ~ticking)

\* final returns, unless a verify thread had a connection waiting.
FinalReturnsOrStuck == ~ticking ~> (Exited(RecycleThread) \/ Stuck # {})

\* The pool is an implementation of the life cycle.
Life == INSTANCE ConnLifecycle WITH phase <- state
LifeCycle == Life!LifeSpec
=============================================================================
