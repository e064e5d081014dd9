--------------------------- MODULE TaskPoolProofs ---------------------------
(***************************************************************************)
(* What holds of the connection pool for any number of connections, ids    *)
(* and threads: types, one thread per task, the life cycle, the registry   *)
(* and the handshake with the main loop, shut-down, the limit of a thread. *)
(***************************************************************************)
EXTENDS TaskPool, FiniteSetTheorems, TLAPS

(***************************************************************************)
(* The inductive invariant.  OneThreadPerTask and StateFitsThread exempt   *)
(* the tasks a stopped verify thread is stuck with, so the invariant also  *)
(* says where such a task can be: with that thread, and with the recycle   *)
(* thread it is added to again and again; never in a hand, never in the    *)
(* list of a thread that would move it on.                                 *)
(***************************************************************************)
StateOf(t) == IF t \in VerifyThread THEN "verify"
              ELSE IF t = SyncThread THEN "sync"
              ELSE IF t \in OkayThread THEN "okay" ELSE "recycle"

\* A thread only ever sees tasks in the state it works on, none of them deleted;
\* a task on its way already has the state of the thread it is going to.
StateFitsThread ==
  \A c \in Conn \ Stuck, t \in Thread :
    /\ c \in queue[t] \cup tasks[t] => state[c] = StateOf(t)
    /\ c \in hand[t] => state[c] = StateOf(dest[t])

Contained == \A t \in Thread : todo[t] \subseteq tasks[t]

StuckPlace ==
  \A c \in Stuck :
    /\ state[c] \in {"verify", "recycle", "notuse"}
    /\ \A t \in Thread :
         /\ c \notin hand[t]
         /\ c \in queue[t] => t = RecycleThread
         /\ c \in tasks[t] => \/ t = RecycleThread
                              \/ /\ t \in VerifyThread /\ phase[t] = "final"
                                 /\ c \in todo[t]

Placement == /\ Contained
             /\ OneThreadPerTask
             /\ StateFitsThread
             /\ StuckPlace

IInv == TypeOK /\ Placement

(***************************************************************************)
(* Types.  One step per action; the actions are grouped by who takes them. *)
(***************************************************************************)
LEMMA TypeInit == Init => TypeOK
BY PoolAssumption DEF Init, TypeOK, Thread, OkayThread, State, Walking

\* The first walk of a thread's loop is a walk.
LEMMA FirstWalkType == \A t \in Thread : FirstWalk(t) \in Walking
BY DEF FirstWalk, Walking

\* What a thread does at a task it keeps, erases or hands over.
LEMMA SkipType ==
  ASSUME TypeOK, NEW t \in Thread, NEW c, Skip(t, c)
  PROVE  tasks' \in [Thread -> SUBSET Conn] /\ todo' \in [Thread -> SUBSET Conn]
BY DEF TypeOK, Skip

\* Erasing a task from a list,
LEMMA EraseType ==
  ASSUME TypeOK, NEW t \in Thread, NEW c, Erase(t, c)
  PROVE  tasks' \in [Thread -> SUBSET Conn] /\ todo' \in [Thread -> SUBSET Conn]
BY DEF TypeOK, Erase

ThreadTypeOK == /\ queue \in [Thread -> SUBSET Conn]
                /\ tasks \in [Thread -> SUBSET Conn]
                /\ todo \in [Thread -> SUBSET Conn]
                /\ hand \in [Thread -> SUBSET Conn]
                /\ dest \in [Thread -> Thread]
                /\ phase \in [Thread -> Walking \cup {"down", "top", "final", "exited"}]
                /\ stop \in SUBSET Thread

\* handing it to another thread,
LEMMA HandOverType ==
  ASSUME TypeOK, NEW t \in Thread, NEW c \in Conn, NEW u \in Thread, HandOver(t, c, u)
  PROVE  ThreadTypeOK' /\ starts' \in [OkayThread -> Nat]
BY EraseType DEF TypeOK, ThreadTypeOK, HandOver

\* setting its state,
LEMMA SetStateType ==
  ASSUME TypeOK, NEW c, NEW s \in State, SetState(c, s)
  PROVE  state' \in [Conn -> State]
BY DEF TypeOK, SetState

\* and dismissing it to the recycle thread keep the types;
LEMMA DismissType ==
  ASSUME TypeOK, NEW t \in Thread, NEW c \in Conn, Dismiss(t, c)
  PROVE  /\ ThreadTypeOK'
         /\ starts' \in [OkayThread -> Nat]
         /\ state' \in [Conn -> State]
<1>1. RecycleThread \in Thread /\ "recycle" \in State
  BY DEF Thread, State
<1> QED  BY <1>1, HandOverType, SetStateType DEF Dismiss

\* so do the steps of every thread's loop,
LEMMA LoopType ==
  ASSUME TypeOK, NEW t \in Thread, LoopStep(t)
  PROVE  TypeOK'
<1>1. CASE Add(t)
  BY <1>1 DEF TypeOK, Add, taskVars, serverVars, Thread
<1>2. CASE CheckQueue(t)
  BY <1>2, FirstWalkType DEF TypeOK, CheckQueue, taskVars
<1>3. CASE EndWalk(t)
  BY <1>3 DEF TypeOK, EndWalk, taskVars, serverVars, Walking
<1>4. CASE LeaveLoop(t)
  BY <1>4 DEF TypeOK, LeaveLoop, taskVars, serverVars
<1>5. CASE Exit(t)
  BY <1>5 DEF TypeOK, Exit, taskVars, serverVars
<1> QED  BY <1>1, <1>2, <1>3, <1>4, <1>5 DEF LoopStep

\* the verify threads,
LEMMA VerifyType ==
  ASSUME TypeOK, NEW v \in VerifyThread, VerifyStep(v)
  PROVE  TypeOK'
<1>0. v \in Thread /\ SyncThread \in Thread /\ RecycleThread \in Thread
  BY DEF Thread
<1>1. ASSUME NEW c \in Conn, CheckVerifyTimeout(v, c)
      PROVE  TypeOK'
  BY <1>0, <1>1, DismissType, SkipType
  DEF TypeOK, ThreadTypeOK, CheckVerifyTimeout, serverVars
<1>2. ASSUME NEW c \in Conn, VerifyNothing(v, c)
      PROVE  TypeOK'
  BY <1>0, <1>2, SkipType DEF TypeOK, VerifyNothing, taskVars, serverVars
<1>3. ASSUME NEW c \in Conn, VerifyFailed(v, c)
      PROVE  TypeOK'
  BY <1>0, <1>3, DismissType DEF TypeOK, ThreadTypeOK, VerifyFailed, serverVars
<1>4. ASSUME NEW c \in Conn, VerifyOK(v, c)
      PROVE  TypeOK'
  <2>1. PICK k \in ServerID :
          /\ key' = [key EXCEPT ![c] = k]
          /\ \/ /\ registry' = [registry EXCEPT ![k] = {c}]
                /\ uniqueVerified' = uniqueVerified \cup {c}
                /\ HandOver(v, c, SyncThread) /\ SetState(c, "sync")
             \/ Dismiss(v, c) /\ UNCHANGED <<registry, uniqueVerified>>
    BY <1>4 DEF VerifyOK
  <2>2. ThreadTypeOK' /\ starts' \in [OkayThread -> Nat] /\ state' \in [Conn -> State]
    BY <1>0, <2>1, HandOverType, SetStateType, DismissType DEF State
  <2>3. /\ key' \in [Conn -> ServerID \cup {NoID}]
        /\ registry' \in [ServerID -> SUBSET Conn]
        /\ uniqueVerified' \in SUBSET Conn
    BY <2>1 DEF TypeOK
  <2>4. /\ UNCHANGED <<late, closing, recycle_state>>
        /\ UNCHANGED <<container, inbox, users, sweep, visit, borrowed, ticking>>
    BY <1>4 DEF VerifyOK
  <2> QED  BY <2>2, <2>3, <2>4 DEF TypeOK, ThreadTypeOK
<1>5. ASSUME NEW c \in Conn, VerifyFinal(v, c)
      PROVE  TypeOK'
  BY <1>0, <1>5 DEF TypeOK, VerifyFinal, State, serverVars
<1> QED  BY <1>1, <1>2, <1>3, <1>4, <1>5 DEF VerifyStep

\* (entering an okay thread)
LEMMA EnterOkayType ==
  ASSUME TypeOK, NEW c \in Conn, NEW n \in OkayThread, EnterOkay(c, n),
         starts' \in [OkayThread -> Nat]
  PROVE  TypeOK'
<1>1. SyncThread \in Thread /\ n \in Thread /\ "okay" \in State
  BY DEF Thread, State
<1>2. /\ tasks' \in [Thread -> SUBSET Conn] /\ todo' \in [Thread -> SUBSET Conn]
      /\ state' \in [Conn -> State]
  BY <1>1, EraseType, SetStateType DEF EnterOkay
<1> QED  BY <1>1, <1>2 DEF TypeOK, EnterOkay

\* the synchronisation thread,
LEMMA SyncType ==
  ASSUME TypeOK, SyncStep
  PROVE  TypeOK'
<1>0. SyncThread \in Thread
  BY DEF Thread
<1>1. ASSUME NEW c \in Conn, WaitSync(c)
      PROVE  TypeOK'
  BY <1>0, <1>1, SkipType DEF TypeOK, WaitSync, taskVars, serverVars
<1>2. ASSUME NEW c \in Conn, SyncFailed(c) \/ AddOkayFailed(c) \/ SyncFinal(c)
      PROVE  TypeOK'
  BY <1>0, <1>2, DismissType
  DEF TypeOK, ThreadTypeOK, SyncFailed, AddOkayFailed, SyncFinal, serverVars
<1>3. ASSUME NEW c \in Conn, NEW n \in OkayThread, AddOkay(c, n) \/ StartOkay(c, n)
      PROVE  TypeOK'
  <2>1. starts' \in [OkayThread -> Nat]
    BY <1>3 DEF TypeOK, AddOkay, StartOkay
  <2> QED  BY <1>3, <2>1, EnterOkayType DEF AddOkay, StartOkay
<1> QED  BY <1>1, <1>2, <1>3 DEF SyncStep

\* the okay threads,
LEMMA OkayType ==
  ASSUME TypeOK, NEW n \in OkayThread, OkayStep(n)
  PROVE  TypeOK'
<1>0. n \in Thread
  BY DEF Thread
<1>1. CASE ThreadUp(n)
  BY <1>1 DEF TypeOK, ThreadUp, taskVars, serverVars
<1>2. ASSUME NEW c \in Conn, CheckSignal(n, c)
      PROVE  TypeOK'
  BY <1>0, <1>2, DismissType, SkipType
  DEF TypeOK, ThreadTypeOK, CheckSignal, LeaveOkay, taskVars
<1>3. ASSUME NEW c \in Conn, InputOutput(n, c)
      PROVE  TypeOK'
  BY <1>0, <1>3, SkipType DEF TypeOK, InputOutput
<1>4. ASSUME NEW c \in Conn, OkayFinal(n, c)
      PROVE  TypeOK'
  BY <1>0, <1>4, DismissType DEF TypeOK, ThreadTypeOK, OkayFinal, LeaveOkay
<1> QED  BY <1>1, <1>2, <1>3, <1>4 DEF OkayStep

\* (deleting a task)
LEMMA ReclaimType ==
  ASSUME TypeOK, NEW c \in Conn, Reclaim(c)
  PROVE  TypeOK'
<1>1. RecycleThread \in Thread /\ "notuse" \in State
  BY DEF Thread, State
<1>2. /\ tasks' \in [Thread -> SUBSET Conn] /\ todo' \in [Thread -> SUBSET Conn]
      /\ state' \in [Conn -> State]
  BY <1>1, EraseType, SetStateType DEF Reclaim
<1>3. registry' \in [ServerID -> SUBSET Conn]
  BY DEF TypeOK, Reclaim, uniqueRemove
<1> QED  BY <1>1, <1>2, <1>3 DEF TypeOK, Reclaim

\* the recycle thread,
LEMMA RecycleType ==
  ASSUME TypeOK, RecycleStep
  PROVE  TypeOK'
<1>0. RecycleThread \in Thread
  BY DEF Thread
<1>1. ASSUME NEW c \in Conn, RecycleConn(c)
      PROVE  TypeOK'
  BY <1>0, <1>1, SkipType DEF TypeOK, RecycleConn, serverVars
<1>2. ASSUME NEW c \in Conn, RecycleFreed(c)
      PROVE  TypeOK'
  BY <1>0, <1>2, EraseType DEF TypeOK, RecycleFreed, taskVars, serverVars
<1> QED  BY <1>1, <1>2, ReclaimType DEF RecycleStep, RecycleDone, RecycleFinal

\* and the main loop, shut-down and the other ends.
LEMMA ServerType ==
  ASSUME TypeOK, MainStep \/ StopStep \/ Outside \/ \E c \in Conn : Grow(c)
  PROVE  TypeOK'
<1>1. CASE ExecEvery
  BY <1>1 DEF TypeOK, ExecEvery, Registered, taskVars, threadVars
<1>2. ASSUME NEW c \in Conn, CheckRecycle(c)
      PROVE  TypeOK'
  BY <1>2 DEF TypeOK, CheckRecycle, threadVars
<1>3. ASSUME NEW c \in Conn, DoCmd(c)
      PROVE  TypeOK'
  BY <1>3 DEF TypeOK, DoCmd, taskVars, threadVars
<1>4. ASSUME NEW t \in Thread, StopThread(t)
      PROVE  TypeOK'
  BY <1>4 DEF TypeOK, StopThread, taskVars, serverVars
<1>5. ASSUME NEW c \in Conn, NEW v \in VerifyThread, Accept(c, v)
      PROVE  TypeOK'
  <2>1. state' \in [Conn -> State]
    BY <1>5, SetStateType DEF Accept, State
  <2> QED  BY <1>5, <2>1 DEF TypeOK, Accept, serverVars, Thread
<1>6. ASSUME NEW c \in Conn, TerminateWait(c) \/ Grow(c)
      PROVE  TypeOK'
  BY <1>6 DEF TypeOK, TerminateWait, Grow, threadVars, serverVars
<1>7. ASSUME NEW k \in ServerID, GetTaskByID(k)
      PROVE  TypeOK'
  BY <1>7 DEF TypeOK, GetTaskByID, taskVars, threadVars
<1>8. CASE AddUser \/ StopTicking
  BY <1>8 DEF TypeOK, AddUser, StopTicking, taskVars, threadVars
<1> QED  BY <1>1, <1>2, <1>3, <1>4, <1>5, <1>6, <1>7, <1>8
         DEF MainStep, StopStep, Outside

\* TypeOK is inductive by itself.
LEMMA TypeNext == TypeOK /\ [Next]_vars => TypeOK'
<1> SUFFICES ASSUME TypeOK, [Next]_vars
             PROVE  TypeOK'
  OBVIOUS
<1>1. CASE UNCHANGED vars
  BY <1>1 DEF TypeOK, vars, taskVars, threadVars, serverVars
<1>2. ASSUME NEW t \in Thread, ThreadStep(t)
      PROVE  TypeOK'
  BY <1>2, LoopType, VerifyType, OkayType, SyncType, RecycleType DEF ThreadStep
<1> QED  BY <1>1, <1>2, ServerType DEF Next

\* Every variable keeps its type, whatever the number of connections and threads.
THEOREM TypeCorrect == Spec => []TypeOK
BY TypeInit, TypeNext, PTL DEF Spec

(***************************************************************************)
(* Placement.  A step does to the lists, inboxes and hands one of a few    *)
(* things; there is one lemma for each of them.                            *)
(***************************************************************************)
LEMMA PlacementInit == Init => Placement
BY DEF Init, Placement, Contained, OneThreadPerTask, StateFitsThread, StuckPlace,
       Held, Stuck, Thread

\* A task a walk still has to visit is not stuck.
LEMMA NotStuck ==
  ASSUME Placement, NEW t \in Thread, NEW c \in todo[t], t # RecycleThread,
         t \in VerifyThread => phase[t] # "final"
  PROVE  c \notin Stuck
BY DEF Placement, Contained, StuckPlace

\* The threads' walks and phases move on, and no verify thread gets stuck.
LEMMA WalkPlacement ==
  ASSUME Placement, UNCHANGED <<state, queue, tasks, hand, dest>>,
         \A t \in Thread : todo'[t] \subseteq tasks[t],
         \A t \in VerifyThread, c \in Conn :
           (phase[t] = "final" /\ c \in todo[t]) <=> (phase'[t] = "final" /\ c \in todo'[t])
  PROVE  Placement'
<1>1. Stuck' = Stuck
  BY DEF Stuck
<1>2. OneThreadPerTask' /\ StateFitsThread'
  BY <1>1 DEF Placement, OneThreadPerTask, StateFitsThread, Held
<1>3. StuckPlace'
  <2> SUFFICES ASSUME NEW c \in Stuck
               PROVE  /\ state[c] \in {"verify", "recycle", "notuse"}
                      /\ \A t \in Thread :
                           /\ c \notin hand[t]
                           /\ c \in queue[t] => t = RecycleThread
                           /\ c \in tasks[t] => \/ t = RecycleThread
                                                \/ /\ t \in VerifyThread /\ phase'[t] = "final"
                                                   /\ c \in todo'[t]
    BY <1>1 DEF StuckPlace
  <2>1. c \in Conn
    BY DEF Stuck
  <2> QED  BY <2>1 DEF Placement, StuckPlace
<1> QED  BY <1>2, <1>3 DEF Placement, Contained

\* A walk goes past a task.
LEMMA SkipPlacement ==
  ASSUME TypeOK, Placement, NEW t \in Thread, NEW c, Skip(t, c),
         UNCHANGED <<state, queue, hand, dest, phase>>,
         t \in VerifyThread => phase[t] # "final"
  PROVE  Placement'
<1>1. \A u \in Thread : todo'[u] \subseteq tasks[u]
  BY DEF Skip, TypeOK, Placement, Contained
<1>2. \A u \in VerifyThread, d \in Conn :
        (phase[u] = "final" /\ d \in todo[u]) <=> (phase'[u] = "final" /\ d \in todo'[u])
  BY DEF Skip, TypeOK, Thread
<1> QED  BY <1>1, <1>2, WalkPlacement DEF Skip

\* A task is erased, gets the state of thread u, and is in the hand of thread t.
Transfer(t, c, u) == /\ Erase(t, c)
                     /\ SetState(c, StateOf(u))
                     /\ hand' = [hand EXCEPT ![t] = {c}]
                     /\ dest' = [dest EXCEPT ![t] = u]
                     /\ UNCHANGED <<queue, phase>>

\* A task goes from one thread's list to another's inbox.
LEMMA TransferPlacement ==
  ASSUME TypeOK, Placement, NEW t \in Thread, NEW c \in Conn, NEW u \in Thread,
         c \in todo[t], hand[t] = {}, c \notin Stuck, Transfer(t, c, u)
  PROVE  Placement'
<1>1. Stuck' = Stuck
  <2>1. \A v \in VerifyThread, d \in Conn :
          (phase[v] = "final" /\ d \in todo[v]) <=> (phase'[v] = "final" /\ d \in todo'[v])
    BY DEF Transfer, Erase, TypeOK, Thread, Stuck
  <2> QED  BY <2>1 DEF Stuck
<1>2. c \in tasks[t]
  BY DEF Placement, Contained
<1>3. \A x \in Thread : /\ tasks'[x] = IF x = t THEN tasks[x] \ {c} ELSE tasks[x]
                        /\ todo'[x] = IF x = t THEN todo[x] \ {c} ELSE todo[x]
                        /\ hand'[x] = IF x = t THEN {c} ELSE hand[x]
                        /\ dest'[x] = IF x = t THEN u ELSE dest[x]
                        /\ queue'[x] = queue[x]
  BY DEF Transfer, Erase, TypeOK
<1>4. \A d \in Conn : state'[d] = IF d = c THEN StateOf(u) ELSE state[d]
  BY DEF Transfer, SetState, TypeOK
<1>5. \A x \in Thread : Held(x)' = Held(x)
  BY <1>2, <1>3 DEF Held
<1>31. \A x \in Thread, d \in Conn :
         /\ d \in tasks'[x] <=> d \in tasks[x] /\ ~(x = t /\ d = c)
         /\ d \in todo'[x] <=> d \in todo[x] /\ ~(x = t /\ d = c)
         /\ d \in hand'[x] <=> (x = t /\ d = c) \/ (x # t /\ d \in hand[x])
         /\ d \in queue'[x] <=> d \in queue[x]
  BY <1>3
<1>6. Contained'
  BY <1>3 DEF Placement, Contained
<1>7. \A x \in Thread : /\ x # t => c \notin Held(x)
                        /\ c \notin queue[x]
  BY <1>2 DEF Placement, OneThreadPerTask, Held
<1>8. OneThreadPerTask'
  <2> SUFFICES ASSUME NEW d \in Conn \ Stuck, NEW x \in Thread, NEW y \in Thread
               PROVE  /\ d \in Held(x) /\ d \in Held(y) => x = y
                      /\ d \notin queue'[x] \cap tasks'[x]
                      /\ d \notin hand'[x] \cap (queue'[x] \cup tasks'[x])
    BY <1>1, <1>5 DEF OneThreadPerTask
  <2>1. d \in hand'[x] => d \notin queue'[x] \cup tasks'[x]
    BY <1>31, <1>7 DEF Placement, OneThreadPerTask
  <2>2. d \notin queue'[x] \cap tasks'[x]
    BY <1>31 DEF Placement, OneThreadPerTask
  <2>3. d \in Held(x) /\ d \in Held(y) => x = y
    BY DEF Placement, OneThreadPerTask
  <2> QED  BY <2>1, <2>2, <2>3
<1>9. StateFitsThread'
  <2> SUFFICES ASSUME NEW d \in Conn \ Stuck, NEW x \in Thread
               PROVE  /\ d \in queue'[x] \cup tasks'[x] => state'[d] = StateOf(x)
                      /\ d \in hand'[x] => state'[d] = StateOf(dest'[x])
    BY <1>1 DEF StateFitsThread, StateOf
  <2>1. CASE d = c
    BY <2>1, <1>3, <1>4, <1>7 DEF Held
  <2>2. CASE d # c
    <3>1. /\ d \in queue[x] \cup tasks[x] => state[d] = StateOf(x)
          /\ d \in hand[x] => state[d] = StateOf(dest[x])
      BY DEF Placement, StateFitsThread
    <3>2. state'[d] = state[d] /\ (d \in hand'[x] => d \in hand[x] /\ dest'[x] = dest[x])
      BY <2>2, <1>3, <1>4
    <3> QED  BY <3>1, <3>2, <2>2, <1>31
  <2> QED  BY <2>1, <2>2
<1>10. StuckPlace'
  <2> SUFFICES ASSUME NEW d \in Stuck
               PROVE  /\ state'[d] \in {"verify", "recycle", "notuse"}
                      /\ \A x \in Thread :
                           /\ d \notin hand'[x]
                           /\ d \in queue'[x] => x = RecycleThread
                           /\ d \in tasks'[x] => \/ x = RecycleThread
                                                 \/ /\ x \in VerifyThread /\ phase'[x] = "final"
                                                    /\ d \in todo'[x]
    BY <1>1 DEF StuckPlace
  <2>1. d \in Conn /\ d # c
    BY DEF Stuck
  <2>2. state'[d] = state[d] /\ phase' = phase
    BY <2>1, <1>4 DEF Transfer
  <2>3. \A x \in Thread : /\ d \notin hand[x]
                          /\ d \in queue[x] => x = RecycleThread
                          /\ d \in tasks[x] => \/ x = RecycleThread
                                               \/ /\ x \in VerifyThread /\ phase[x] = "final"
                                                  /\ d \in todo[x]
    BY DEF Placement, StuckPlace
  <2>4. state[d] \in {"verify", "recycle", "notuse"}
    BY DEF Placement, StuckPlace
  <2> QED  BY <2>1, <2>2, <2>3, <2>4, <1>31
<1> QED  BY <1>6, <1>8, <1>9, <1>10 DEF Placement

\* What the invariant says of one task, stuck or not.
LEMMA Placed ==
  ASSUME Placement, NEW d \in Conn
  PROVE  /\ d \notin Stuck =>
              \A x, y \in Thread :
                /\ d \in Held(x) /\ d \in Held(y) => x = y
                /\ d \notin queue[x] \cap tasks[x]
                /\ d \notin hand[x] \cap (queue[x] \cup tasks[x])
                /\ d \in queue[x] \cup tasks[x] => state[d] = StateOf(x)
                /\ d \in hand[x] => state[d] = StateOf(dest[x])
         /\ d \in Stuck =>
              /\ state[d] \in {"verify", "recycle", "notuse"}
              /\ \A x \in Thread :
                   /\ d \notin hand[x]
                   /\ d \in queue[x] => x = RecycleThread
                   /\ d \in tasks[x] => \/ x = RecycleThread
                                        \/ /\ x \in VerifyThread /\ phase[x] = "final"
                                           /\ d \in todo[x]
BY DEF Placement, OneThreadPerTask, StateFitsThread, StuckPlace

\* A task no thread holds has not been accepted, or has been deleted.
LEMMA Unheld ==
  ASSUME Placement, NEW d \in Conn, state[d] = "none"
  PROVE  d \notin Stuck /\ \A x \in Thread : d \notin Held(x)
<1>1. d \notin Stuck
  BY Placed
<1>2. \A x : StateOf(x) # "none"
  BY DEF StateOf
<1>3. ASSUME NEW x \in Thread, d \in Held(x)
      PROVE  FALSE
  BY <1>1, <1>2, <1>3, Placed DEF Held
<1> QED  BY <1>1, <1>3

\* The task in hand is put into the inbox it is meant for.
LEMMA AddPlacement ==
  ASSUME TypeOK, Placement, NEW t \in Thread, Add(t)
  PROVE  Placement'
<1>0. dest[t] \in Thread
  BY DEF TypeOK
<1>1. Stuck' = Stuck
  BY DEF Stuck, Add
<1>2. \A x \in Thread, d \in Conn :
        /\ d \in queue'[x] <=> d \in queue[x] \/ (x = dest[t] /\ d \in hand[t])
        /\ d \in hand'[x] <=> x # t /\ d \in hand[x]
        /\ x # t => dest'[x] = dest[x]
  BY DEF Add, TypeOK
<1>3. UNCHANGED <<tasks, todo, phase, state>>
  BY DEF Add, taskVars
<1>4. Contained'
  BY <1>3 DEF Placement, Contained
<1>5. ASSUME NEW d \in Conn \ Stuck, NEW x \in Thread, NEW y \in Thread
      PROVE  /\ d \in Held(x)' /\ d \in Held(y)' => x = y
             /\ d \notin queue'[x] \cap tasks'[x]
             /\ d \notin hand'[x] \cap (queue'[x] \cup tasks'[x])
             /\ d \in queue'[x] \cup tasks'[x] => state'[d] = StateOf(x)
             /\ d \in hand'[x] => state'[d] = StateOf(dest'[x])
  <2>1. CASE d \in hand[t]
    <3>1. \A z \in Thread : d \notin queue[z] /\ d \notin tasks[z] /\ (z # t => d \notin hand[z])
      BY <2>1, Placed DEF Held
    <3>2. state[d] = StateOf(dest[t])
      BY <2>1, Placed
    <3> QED  BY <3>1, <3>2, <2>1, <1>0, <1>2, <1>3 DEF Held
  <2>2. CASE d \notin hand[t]
    <3>1. \A z \in Thread : /\ d \in queue'[z] <=> d \in queue[z]
                            /\ d \in hand'[z] <=> d \in hand[z]
                            /\ d \in tasks'[z] <=> d \in tasks[z]
      BY <2>2, <1>2, <1>3
    <3>2. d \in hand'[x] => dest'[x] = dest[x]
      BY <1>2
    <3> QED  BY <3>1, <3>2, <1>3, Placed DEF Held
  <2> QED  BY <2>1, <2>2
<1>6. OneThreadPerTask' /\ StateFitsThread'
  BY <1>1, <1>5 DEF OneThreadPerTask, StateFitsThread, StateOf
<1>7. StuckPlace'
  <2> SUFFICES ASSUME NEW d \in Stuck
               PROVE  /\ state[d] \in {"verify", "recycle", "notuse"}
                      /\ \A x \in Thread :
                           /\ d \notin hand'[x]
                           /\ d \in queue'[x] => x = RecycleThread
                           /\ d \in tasks[x] => \/ x = RecycleThread
                                                \/ /\ x \in VerifyThread /\ phase[x] = "final"
                                                   /\ d \in todo[x]
    BY <1>1, <1>3 DEF StuckPlace
  <2>1. d \in Conn
    BY DEF Stuck
  <2> QED  BY <2>1, <1>2, Placed
<1> QED  BY <1>4, <1>6, <1>7 DEF Placement

\* The inbox is moved to the list.
LEMMA CheckQueuePlacement ==
  ASSUME TypeOK, Placement, NEW t \in Thread, CheckQueue(t)
  PROVE  Placement'
<1>1. Stuck' = Stuck
  <2>1. \A v \in VerifyThread : v # t => phase'[v] = phase[v] /\ todo'[v] = todo[v]
    BY DEF CheckQueue, TypeOK, Thread
  <2>2. phase[t] # "final" /\ phase'[t] # "final"
    BY DEF CheckQueue, TypeOK, FirstWalk
  <2> QED  BY <2>1, <2>2 DEF Stuck
<1>2. \A x \in Thread, d \in Conn :
        /\ d \in queue'[x] <=> d \in queue[x] /\ x # t
        /\ d \in tasks'[x] <=> d \in tasks[x] \/ (x = t /\ d \in queue[x])
        /\ x # t => d \in todo'[x] <=> d \in todo[x]
        /\ x # t => phase'[x] = phase[x]
  BY DEF CheckQueue, TypeOK
<1>3. phase[t] = "top" /\ UNCHANGED <<hand, dest, state>>
  BY DEF CheckQueue, taskVars
<1>4. Contained'
  BY DEF Placement, Contained, CheckQueue, TypeOK
<1>5. ASSUME NEW d \in Conn \ Stuck, NEW x \in Thread, NEW y \in Thread
      PROVE  /\ d \in Held(x)' /\ d \in Held(y)' => x = y
             /\ d \notin queue'[x] \cap tasks'[x]
             /\ d \notin hand'[x] \cap (queue'[x] \cup tasks'[x])
             /\ d \in queue'[x] \cup tasks'[x] => state'[d] = StateOf(x)
             /\ d \in hand'[x] => state'[d] = StateOf(dest'[x])
  <2>1. \A z \in Thread : /\ d \in Held(z)' <=> d \in Held(z)
                          /\ d \in queue'[z] \cup tasks'[z] <=> d \in queue[z] \cup tasks[z]
    BY <1>2, <1>3 DEF Held
  <2>2. d \notin queue'[x] \cap tasks'[x]
    BY <1>2, Placed
  <2> QED  BY <2>1, <2>2, <1>3, Placed
<1>6. OneThreadPerTask' /\ StateFitsThread'
  BY <1>1, <1>5 DEF OneThreadPerTask, StateFitsThread, StateOf
<1>7. ASSUME NEW d \in Stuck
      PROVE  /\ state'[d] \in {"verify", "recycle", "notuse"}
             /\ \A x \in Thread :
                  /\ d \notin hand'[x]
                  /\ d \in queue'[x] => x = RecycleThread
                  /\ d \in tasks'[x] => \/ x = RecycleThread
                                        \/ /\ x \in VerifyThread /\ phase'[x] = "final"
                                           /\ d \in todo'[x]
  <2>1. d \in Conn
    BY DEF Stuck
  <2> QED  BY <2>1, <1>2, <1>3, Placed
<1> QED  BY <1>1, <1>4, <1>6, <1>7 DEF Placement, StuckPlace

\* A new task is put into the inbox of a verify thread.
LEMMA AcceptPlacement ==
  ASSUME TypeOK, Placement, NEW c \in Conn, NEW v \in VerifyThread, Accept(c, v)
  PROVE  Placement'
<1>0. v \in Thread /\ StateOf(v) = "verify"
  BY DEF Thread, StateOf
<1>1. Stuck' = Stuck /\ UNCHANGED <<tasks, todo, hand, dest, phase>>
  BY DEF Stuck, Accept
<1>2. \A x \in Thread, d \in Conn : d \in queue'[x] <=> d \in queue[x] \/ (x = v /\ d = c)
  BY <1>0 DEF Accept, TypeOK
<1>3. \A d \in Conn : state'[d] = IF d = c THEN "verify" ELSE state[d]
  BY DEF Accept, SetState, TypeOK
<1>4. c \notin Stuck /\ \A x \in Thread : c \notin Held(x)
  BY Unheld DEF Accept
<1>5. ASSUME NEW d \in Conn \ Stuck, NEW x \in Thread, NEW y \in Thread
      PROVE  /\ d \in Held(x)' /\ d \in Held(y)' => x = y
             /\ d \notin queue'[x] \cap tasks'[x]
             /\ d \notin hand'[x] \cap (queue'[x] \cup tasks'[x])
             /\ d \in queue'[x] \cup tasks'[x] => state'[d] = StateOf(x)
             /\ d \in hand'[x] => state'[d] = StateOf(dest'[x])
  <2>1. CASE d = c
    BY <2>1, <1>0, <1>1, <1>2, <1>3, <1>4 DEF Held
  <2>2. CASE d # c
    <3>1. \A z \in Thread : d \in queue'[z] <=> d \in queue[z]
      BY <2>2, <1>2
    <3>2. state'[d] = state[d]
      BY <2>2, <1>3
    <3> QED  BY <3>1, <3>2, <1>1, Placed DEF Held
  <2> QED  BY <2>1, <2>2
<1>6. OneThreadPerTask' /\ StateFitsThread'
  BY <1>1, <1>5 DEF OneThreadPerTask, StateFitsThread, StateOf
<1>7. ASSUME NEW d \in Stuck
      PROVE  /\ state'[d] \in {"verify", "recycle", "notuse"}
             /\ \A x \in Thread :
                  /\ d \notin hand'[x]
                  /\ d \in queue'[x] => x = RecycleThread
                  /\ d \in tasks'[x] => \/ x = RecycleThread
                                        \/ /\ x \in VerifyThread /\ phase'[x] = "final"
                                           /\ d \in todo'[x]
  <2>1. d \in Conn /\ d # c
    BY <1>4 DEF Stuck
  <2> QED  BY <2>1, <1>1, <1>2, <1>3, Placed
<1> QED  BY <1>1, <1>6, <1>7 DEF Placement, Contained, StuckPlace

\* The recycle thread erases a task and deletes it.
LEMMA ReclaimPlacement ==
  ASSUME TypeOK, Placement, NEW c \in Conn, Erase(RecycleThread, c),
         c \in todo[RecycleThread], SetState(c, "notuse"),
         UNCHANGED <<queue, hand, dest, phase>>
  PROVE  Placement'
<1>0. RecycleThread \in Thread /\ RecycleThread \notin VerifyThread
  BY PoolAssumption DEF Thread
<1>1. \A x \in Thread, d \in Conn :
        /\ d \in tasks'[x] <=> d \in tasks[x] /\ ~(x = RecycleThread /\ d = c)
        /\ d \in todo'[x] <=> d \in todo[x] /\ ~(x = RecycleThread /\ d = c)
        /\ x # RecycleThread => todo'[x] = todo[x]
  BY <1>0 DEF Erase, TypeOK
<1>2. Stuck' = Stuck
  BY <1>0, <1>1 DEF Stuck, Thread
<1>3. \A d \in Conn : state'[d] = IF d = c THEN "notuse" ELSE state[d]
  BY DEF SetState, TypeOK
<1>4. Contained'
  BY <1>0 DEF Erase, TypeOK, Placement, Contained
<1>5. c \in tasks[RecycleThread]
  BY <1>0 DEF Placement, Contained
<1>6. ASSUME NEW d \in Conn \ Stuck, NEW x \in Thread, NEW y \in Thread
      PROVE  /\ d \in Held(x)' /\ d \in Held(y)' => x = y
             /\ d \notin queue'[x] \cap tasks'[x]
             /\ d \notin hand'[x] \cap (queue'[x] \cup tasks'[x])
             /\ d \in queue'[x] \cup tasks'[x] => state'[d] = StateOf(x)
             /\ d \in hand'[x] => state'[d] = StateOf(dest'[x])
  <2>1. CASE d = c
    <3>1. \A z \in Thread : d \notin Held(z)'
      BY <2>1, <1>0, <1>1, <1>5, Placed DEF Held
    <3> QED  BY <3>1 DEF Held
  <2>2. CASE d # c
    <3>1. \A z \in Thread : d \in tasks'[z] <=> d \in tasks[z]
      BY <2>2, <1>1
    <3>2. state'[d] = state[d]
      BY <2>2, <1>3
    <3> QED  BY <3>1, <3>2, Placed DEF Held
  <2> QED  BY <2>1, <2>2
<1>7. OneThreadPerTask' /\ StateFitsThread'
  BY <1>2, <1>6 DEF OneThreadPerTask, StateFitsThread, StateOf
<1>8. ASSUME NEW d \in Stuck
      PROVE  /\ state'[d] \in {"verify", "recycle", "notuse"}
             /\ \A x \in Thread :
                  /\ d \notin hand'[x]
                  /\ d \in queue'[x] => x = RecycleThread
                  /\ d \in tasks'[x] => \/ x = RecycleThread
                                        \/ /\ x \in VerifyThread /\ phase'[x] = "final"
                                           /\ d \in todo'[x]
  <2>1. d \in Conn
    BY DEF Stuck
  <2> QED  BY <2>1, <1>0, <1>1, <1>3, Placed
<1> QED  BY <1>2, <1>4, <1>7, <1>8 DEF Placement, StuckPlace

\* A stopped verify thread gets stuck; every other thread walks its list.
LEMMA LeaveLoopPlacement ==
  ASSUME TypeOK, Placement, NEW t \in Thread, LeaveLoop(t)
  PROVE  Placement'
<1>0. UNCHANGED <<state, queue, tasks, hand, dest>> /\ phase[t] = "top"
  BY DEF LeaveLoop, taskVars
<1>1. \A x \in Thread : x # t => todo'[x] = todo[x] /\ phase'[x] = phase[x]
  BY DEF LeaveLoop, TypeOK
<1>2. \A x \in Thread : todo'[x] \subseteq tasks[x]
  BY DEF LeaveLoop, TypeOK, Placement, Contained
<1>3. CASE t \notin VerifyThread \/ tasks[t] = {}
  <2>1. \A v \in VerifyThread, c \in Conn :
          (phase[v] = "final" /\ c \in todo[v]) <=> (phase'[v] = "final" /\ c \in todo'[v])
    BY <1>0, <1>1, <1>2, <1>3 DEF Thread
  <2> QED  BY <2>1, <1>0, <1>2, WalkPlacement
<1>4. CASE t \in VerifyThread /\ tasks[t] # {}
  <2>0. t # RecycleThread
    BY <1>4, PoolAssumption
  <2>1. PICK c \in tasks[t] : phase'[t] = "final" /\ todo'[t] = {c}
    BY <1>4 DEF LeaveLoop, TypeOK
  <2>2. c \in Conn /\ c \notin Stuck /\ state[c] = "verify"
    <3>1. c \in Conn
      BY <2>1 DEF TypeOK
    <3>2. c \notin Stuck
      BY <1>0, <2>0, <2>1, <3>1, Placed
    <3> QED  BY <3>1, <3>2, <2>1, <1>4, Placed DEF StateOf
  <2>3. Stuck' = Stuck \cup {c}
    <3>1. \A v \in VerifyThread, d \in Conn :
            (phase'[v] = "final" /\ d \in todo'[v]) <=>
               \/ phase[v] = "final" /\ d \in todo[v]
               \/ v = t /\ d = c
      BY <1>0, <1>1, <1>4, <2>1 DEF Thread
    <3> QED  BY <3>1, <1>4, <2>2 DEF Stuck
  <2>4. OneThreadPerTask' /\ StateFitsThread'
    BY <2>3, <1>0 DEF Placement, OneThreadPerTask, StateFitsThread, Held, StateOf
  <2>5. ASSUME NEW d \in Stuck \cup {c}
        PROVE  /\ state'[d] \in {"verify", "recycle", "notuse"}
               /\ \A x \in Thread :
                    /\ d \notin hand'[x]
                    /\ d \in queue'[x] => x = RecycleThread
                    /\ d \in tasks'[x] => \/ x = RecycleThread
                                          \/ /\ x \in VerifyThread /\ phase'[x] = "final"
                                             /\ d \in todo'[x]
    <3>1. CASE d = c
      BY <3>1, <1>0, <1>4, <2>1, <2>2, Placed DEF Held
    <3>2. CASE d # c
      <4>1. d \in Conn /\ d \in Stuck
        BY <3>2 DEF Stuck
      <4> QED  BY <4>1, <1>0, <1>1, Placed
    <3> QED  BY <3>1, <3>2
  <2> QED  BY <2>3, <2>4, <2>5, <1>0, <1>2 DEF Placement, Contained, StuckPlace
<1> QED  BY <1>3, <1>4

\* A stuck verify thread resets its task and adds it to the recycle thread.
LEMMA VerifyFinalPlacement ==
  ASSUME TypeOK, Placement, NEW v \in VerifyThread, NEW c \in Conn, VerifyFinal(v, c)
  PROVE  Placement'
<1>0. c \in Stuck /\ RecycleThread \in Thread
  BY DEF VerifyFinal, At, Stuck, Thread
<1>1. Stuck' = Stuck /\ UNCHANGED <<tasks, todo, hand, dest, phase>>
  BY DEF Stuck, VerifyFinal
<1>2. \A x \in Thread, d \in Conn :
        d \in queue'[x] <=> d \in queue[x] \/ (x = RecycleThread /\ d = c)
  BY <1>0 DEF VerifyFinal, TypeOK
<1>3. \A d \in Conn : /\ d # c => state'[d] = state[d]
                      /\ d = c => state'[d] \in {"recycle", "notuse"}
  BY DEF VerifyFinal, TypeOK
<1>4. ASSUME NEW d \in Conn \ Stuck, NEW x \in Thread, NEW y \in Thread
      PROVE  /\ d \in Held(x)' /\ d \in Held(y)' => x = y
             /\ d \notin queue'[x] \cap tasks'[x]
             /\ d \notin hand'[x] \cap (queue'[x] \cup tasks'[x])
             /\ d \in queue'[x] \cup tasks'[x] => state'[d] = StateOf(x)
             /\ d \in hand'[x] => state'[d] = StateOf(dest'[x])
  <2>1. d # c
    BY <1>0
  <2>2. \A z \in Thread : d \in queue'[z] <=> d \in queue[z]
    BY <2>1, <1>2
  <2>3. state'[d] = state[d]
    BY <2>1, <1>3
  <2> QED  BY <2>2, <2>3, <1>1, Placed DEF Held
<1>5. OneThreadPerTask' /\ StateFitsThread'
  BY <1>1, <1>4 DEF OneThreadPerTask, StateFitsThread, StateOf
<1>6. ASSUME NEW d \in Stuck
      PROVE  /\ state'[d] \in {"verify", "recycle", "notuse"}
             /\ \A x \in Thread :
                  /\ d \notin hand'[x]
                  /\ d \in queue'[x] => x = RecycleThread
                  /\ d \in tasks'[x] => \/ x = RecycleThread
                                        \/ /\ x \in VerifyThread /\ phase'[x] = "final"
                                           /\ d \in todo'[x]
  <2>1. d \in Conn
    BY DEF Stuck
  <2> QED  BY <2>1, <1>1, <1>2, <1>3, Placed
<1> QED  BY <1>1, <1>5, <1>6 DEF Placement, Contained, StuckPlace

(***************************************************************************)
(* Placement is inductive: every action is one of the steps above.         *)
(***************************************************************************)
LEMMA HandOverPlacement ==
  ASSUME TypeOK, Placement, NEW t \in Thread, NEW c \in Conn, NEW u \in Thread,
         c \in todo[t], hand[t] = {}, c \notin Stuck,
         HandOver(t, c, u), SetState(c, StateOf(u))
  PROVE  Placement'
BY TransferPlacement DEF HandOver, Transfer

\* A task goes to the recycle thread.
LEMMA DismissPlacement ==
  ASSUME TypeOK, Placement, NEW t \in Thread, NEW c \in Conn,
         c \in todo[t], hand[t] = {}, c \notin Stuck, Dismiss(t, c)
  PROVE  Placement'
<1>1. RecycleThread \in Thread /\ StateOf(RecycleThread) = "recycle"
  BY PoolAssumption DEF Thread, StateOf
<1> QED  BY <1>1, HandOverPlacement DEF Dismiss

\* A task a thread is walking past is not stuck, unless the recycle thread is.
LEMMA AtFree ==
  ASSUME Placement, NEW t \in Thread, NEW walk, NEW c, At(t, walk, c), t # RecycleThread,
         t \in VerifyThread => walk # "final"
  PROVE  c \in todo[t] /\ hand[t] = {} /\ c \notin Stuck
BY NotStuck DEF At

\* The head of a thread's loop moves the inbox into the list.
LEMMA LoopPlacement ==
  ASSUME TypeOK, Placement, NEW t \in Thread, LoopStep(t)
  PROVE  Placement'
<1>1. CASE EndWalk(t)
  <2>1. UNCHANGED <<state, queue, tasks, hand, dest>>
    BY <1>1 DEF EndWalk, taskVars
  <2>2. \A u \in Thread : todo'[u] \subseteq tasks[u]
    BY <1>1 DEF EndWalk, TypeOK, Placement, Contained
  <2>3. phase[t] # "final" /\ phase'[t] # "final"
    BY <1>1 DEF EndWalk, TypeOK, Walking
  <2>4. \A v \in VerifyThread : v # t => phase'[v] = phase[v] /\ todo'[v] = todo[v]
    BY <1>1 DEF EndWalk, TypeOK, Thread
  <2>5. \A v \in VerifyThread, c \in Conn :
          (phase[v] = "final" /\ c \in todo[v]) <=> (phase'[v] = "final" /\ c \in todo'[v])
    BY <2>3, <2>4
  <2> QED  BY <2>1, <2>2, <2>5, WalkPlacement
<1>2. CASE Exit(t)
  <2>1. UNCHANGED <<state, queue, tasks, todo, hand, dest>>
    BY <1>2 DEF Exit, taskVars
  <2>2. \A v \in VerifyThread, c \in Conn :
          (phase[v] = "final" /\ c \in todo[v]) <=> (phase'[v] = "final" /\ c \in todo'[v])
    BY <1>2, <2>1 DEF Exit, TypeOK, Thread
  <2>3. \A u \in Thread : todo'[u] \subseteq tasks[u]
    BY <2>1 DEF Placement, Contained
  <2> QED  BY <2>1, <2>2, <2>3, WalkPlacement
<1> QED  BY <1>1, <1>2, AddPlacement, CheckQueuePlacement, LeaveLoopPlacement DEF LoopStep

\* The steps of the verify threads,
LEMMA VerifyPlacement ==
  ASSUME TypeOK, Placement, NEW v \in VerifyThread, VerifyStep(v)
  PROVE  Placement'
<1>0. /\ v \in Thread /\ v # RecycleThread
      /\ SyncThread \in Thread /\ StateOf(SyncThread) = "sync"
  BY PoolAssumption DEF Thread, StateOf
<1>1. ASSUME NEW c \in Conn, CheckVerifyTimeout(v, c)
      PROVE  Placement'
  <2>1. c \in todo[v] /\ hand[v] = {} /\ c \notin Stuck /\ phase[v] = "timeout"
    BY <1>0, <1>1, AtFree DEF CheckVerifyTimeout, At
  <2> QED  BY <1>0, <1>1, <2>1, DismissPlacement, SkipPlacement DEF CheckVerifyTimeout
<1>2. ASSUME NEW c \in Conn, VerifyNothing(v, c)
      PROVE  Placement'
  BY <1>0, <1>2, SkipPlacement DEF VerifyNothing, At, taskVars
<1>3. ASSUME NEW c \in Conn, VerifyFailed(v, c)
      PROVE  Placement'
  BY <1>0, <1>3, AtFree, DismissPlacement DEF VerifyFailed
<1>4. ASSUME NEW c \in Conn, VerifyOK(v, c)
      PROVE  Placement'
  <2>1. c \in todo[v] /\ hand[v] = {} /\ c \notin Stuck
    BY <1>0, <1>4, AtFree DEF VerifyOK
  <2>2. \/ HandOver(v, c, SyncThread) /\ SetState(c, "sync")
        \/ Dismiss(v, c)
    BY <1>4 DEF VerifyOK
  <2> QED  BY <1>0, <2>1, <2>2, HandOverPlacement, DismissPlacement
<1>5. ASSUME NEW c \in Conn, VerifyFinal(v, c)
      PROVE  Placement'
  BY <1>5, VerifyFinalPlacement
<1> QED  BY <1>1, <1>2, <1>3, <1>4, <1>5 DEF VerifyStep

\* of the synchronisation thread,
LEMMA SyncPlacement ==
  ASSUME TypeOK, Placement, SyncStep
  PROVE  Placement'
<1>0. SyncThread \in Thread \ VerifyThread /\ SyncThread # RecycleThread
  BY PoolAssumption DEF Thread
<1>1. ASSUME NEW c \in Conn, WaitSync(c)
      PROVE  Placement'
  BY <1>0, <1>1, SkipPlacement DEF WaitSync, taskVars
<1>2. ASSUME NEW c \in Conn, SyncFailed(c) \/ AddOkayFailed(c) \/ SyncFinal(c)
      PROVE  Placement'
  BY <1>0, <1>2, AtFree, DismissPlacement DEF SyncFailed, AddOkayFailed, SyncFinal
<1>3. ASSUME NEW c \in Conn, NEW n \in OkayThread, AddOkay(c, n) \/ StartOkay(c, n)
      PROVE  Placement'
  <2>1. n \in Thread /\ StateOf(n) = "okay"
    BY PoolAssumption DEF Thread, StateOf
  <2>2. c \in todo[SyncThread] /\ hand[SyncThread] = {} /\ c \notin Stuck
    BY <1>0, <1>3, AtFree DEF AddOkay, StartOkay
  <2>3. Transfer(SyncThread, c, n)
    BY <1>3, <2>1 DEF AddOkay, StartOkay, EnterOkay, Transfer
  <2> QED  BY <1>0, <2>1, <2>2, <2>3, TransferPlacement
<1> QED  BY <1>1, <1>2, <1>3 DEF SyncStep

\* of the okay threads,
LEMMA OkayPlacement ==
  ASSUME TypeOK, Placement, NEW n \in OkayThread, OkayStep(n)
  PROVE  Placement'
<1>0. n \in Thread \ VerifyThread /\ n # RecycleThread
  BY PoolAssumption DEF Thread
<1>1. CASE ThreadUp(n)
  <2>1. UNCHANGED <<state, queue, tasks, todo, hand, dest>>
    BY <1>1 DEF ThreadUp, taskVars
  <2>2. \A v \in VerifyThread : phase'[v] = phase[v]
    BY <1>0, <1>1 DEF ThreadUp, TypeOK, Thread
  <2> QED  BY <2>1, <2>2, WalkPlacement DEF Placement, Contained
<1>2. ASSUME NEW c \in Conn, CheckSignal(n, c)
      PROVE  Placement'
  <2>1. c \in todo[n] /\ hand[n] = {} /\ c \notin Stuck
    BY <1>0, <1>2, AtFree DEF CheckSignal
  <2>2. CASE Skip(n, c) /\ UNCHANGED <<queue, hand, dest, phase, taskVars>>
    BY <1>0, <2>2, SkipPlacement DEF taskVars
  <2>3. CASE Dismiss(n, c)
    BY <1>0, <2>1, <2>3, DismissPlacement
  <2> QED  BY <1>2, <2>2, <2>3 DEF CheckSignal, LeaveOkay
<1>3. ASSUME NEW c \in Conn, InputOutput(n, c)
      PROVE  Placement'
  BY <1>0, <1>3, SkipPlacement DEF InputOutput
<1>4. ASSUME NEW c \in Conn, OkayFinal(n, c)
      PROVE  Placement'
  BY <1>0, <1>4, AtFree, DismissPlacement DEF OkayFinal, LeaveOkay
<1> QED  BY <1>1, <1>2, <1>3, <1>4 DEF OkayStep

\* of the recycle thread,
LEMMA RecyclePlacement ==
  ASSUME TypeOK, Placement, RecycleStep
  PROVE  Placement'
<1>0. RecycleThread \in Thread \ VerifyThread
  BY PoolAssumption DEF Thread
<1>1. ASSUME NEW c \in Conn, RecycleConn(c)
      PROVE  Placement'
  BY <1>0, <1>1, SkipPlacement DEF RecycleConn
<1>2. ASSUME NEW c \in Conn, RecycleDone(c) \/ RecycleFinal(c)
      PROVE  Placement'
  BY <1>2, ReclaimPlacement DEF RecycleDone, RecycleFinal, Reclaim, At
<1>3. ASSUME NEW c \in Conn, RecycleFreed(c)
      PROVE  Placement'
  <2>1. SetState(c, "notuse")
    BY <1>3 DEF RecycleFreed, SetState, TypeOK, taskVars
  <2> QED  BY <1>3, <2>1, ReclaimPlacement DEF RecycleFreed
<1> QED  BY <1>1, <1>2, <1>3 DEF RecycleStep

\* and of the main loop, shut-down and the other ends keep every task in its place.
LEMMA ServerPlacement ==
  ASSUME TypeOK, Placement, MainStep \/ StopStep \/ Outside \/ \E c \in Conn : Grow(c)
  PROVE  Placement'
<1>1. CASE UNCHANGED <<state, threadVars>>
  BY <1>1, WalkPlacement DEF threadVars, Placement, Contained
<1>2. ASSUME NEW t \in Thread, StopThread(t)
      PROVE  Placement'
  <2>1. UNCHANGED <<state, queue, tasks, todo, hand, dest>>
    BY <1>2 DEF StopThread, taskVars
  <2>2. \A v \in VerifyThread : phase'[v] = phase[v]
    BY <1>2, PoolAssumption DEF StopThread, TypeOK, Thread
  <2> QED  BY <2>1, <2>2, WalkPlacement DEF Placement, Contained
<1>3. ASSUME NEW c \in Conn, NEW v \in VerifyThread, Accept(c, v)
      PROVE  Placement'
  BY <1>3, AcceptPlacement
<1>4. MainStep \/ (\E c \in Conn : TerminateWait(c) \/ Grow(c)) \/ (\E k \in ServerID : GetTaskByID(k))
        \/ AddUser \/ StopTicking => UNCHANGED <<state, threadVars>>
  BY DEF MainStep, ExecEvery, CheckRecycle, DoCmd, TerminateWait, Grow, GetTaskByID,
         AddUser, StopTicking, taskVars
<1> QED  BY <1>1, <1>2, <1>3, <1>4 DEF StopStep, Outside

\* Placement is inductive, given the types.
LEMMA PlacementNext == TypeOK /\ Placement /\ [Next]_vars => Placement'
<1> SUFFICES ASSUME TypeOK, Placement, [Next]_vars
             PROVE  Placement'
  OBVIOUS
<1>1. CASE UNCHANGED vars
  <2>1. UNCHANGED <<state, queue, tasks, todo, hand, dest, phase>>
    BY <1>1 DEF vars, taskVars, threadVars
  <2> QED  BY <2>1, WalkPlacement DEF Placement, Contained
<1>2. ASSUME NEW t \in Thread, ThreadStep(t)
      PROVE  Placement'
  BY <1>2, LoopPlacement, VerifyPlacement, OkayPlacement, SyncPlacement, RecyclePlacement
  DEF ThreadStep
<1> QED  BY <1>1, <1>2, ServerPlacement DEF Next

\* The pool keeps the inductive invariant: a task is in one place, with the state of the
\* thread that has it.
THEOREM Invariance == Spec => []IInv
<1>1. Init => IInv
  BY TypeInit, PlacementInit DEF IInv
<1>2. IInv /\ [Next]_vars => IInv'
  BY TypeNext, PlacementNext DEF IInv
<1> QED  BY <1>1, <1>2, PTL DEF Spec

\* No task is ever in the inbox, list or hand of two threads, or in one twice.
THEOREM OneThread == Spec => []OneThreadPerTask
<1>1. IInv => OneThreadPerTask
  BY DEF IInv, Placement
<1> QED  BY <1>1, Invariance, PTL

\* No thread has a task in another state than the one it serves.
THEOREM StateFits == Spec => []StateFitsThread
<1>1. IInv => StateFitsThread
  BY DEF IInv, Placement
<1> QED  BY <1>1, Invariance, PTL

(***************************************************************************)
(* The pool implements the life cycle.  Placement gives the state a task   *)
(* has when a thread comes to it, and so the stage it leaves.              *)
(***************************************************************************)
LifeStep(c) == \/ Life!Open(c)  \/ Life!Verified(c) \/ Life!Admit(c)
               \/ Life!Leave(c) \/ Life!Reject(c)   \/ Life!Reclaim(c)

\* A walk meets a task in its own thread's state.
LEMMA AtState ==
  ASSUME Placement, NEW t \in Thread, NEW walk, NEW c \in Conn, At(t, walk, c),
         t # RecycleThread, t \in VerifyThread => walk # "final"
  PROVE  state[c] = StateOf(t)
<1>1. c \notin Stuck /\ c \in tasks[t]
  BY AtFree DEF Placement, Contained
<1> QED  BY <1>1, Placed

\* A verify thread's step is one of the task's life, or none,
LEMMA VerifyLife ==
  ASSUME IInv, NEW v \in VerifyThread, NEW c \in Conn,
         \/ CheckVerifyTimeout(v, c) \/ VerifyNothing(v, c)
         \/ VerifyFailed(v, c) \/ VerifyOK(v, c) \/ VerifyFinal(v, c)
  PROVE  LifeStep(c) \/ UNCHANGED Life!lifeVars
<1>0. v \in Thread /\ v # RecycleThread /\ StateOf(v) = "verify"
  BY PoolAssumption DEF Thread, StateOf
<1>1. CASE VerifyFinal(v, c)
  <2>1. c \in Stuck
    BY <1>1 DEF VerifyFinal, At, Stuck
  <2>2. state[c] \in {"verify", "recycle", "notuse"}
    BY <2>1, Placed DEF IInv
  <2>3. UNCHANGED container
    BY <1>1 DEF VerifyFinal, serverVars
  <2>4. CASE state[c] = "verify"
    BY <1>1, <2>3, <2>4 DEF VerifyFinal, LifeStep, Life!Reject, Life!Move
  <2>5. CASE state[c] # "verify"
    <3>1. state' = state
      BY <1>1, <2>2, <2>5 DEF VerifyFinal, IInv, TypeOK
    <3> QED  BY <2>3, <3>1 DEF Life!lifeVars
  <2> QED  BY <2>4, <2>5
<1>2. CASE CheckVerifyTimeout(v, c) \/ VerifyNothing(v, c)
             \/ VerifyFailed(v, c) \/ VerifyOK(v, c)
  <2>1. state[c] = "verify"
    BY <1>0, <1>2, AtState
    DEF IInv, CheckVerifyTimeout, VerifyNothing, VerifyFailed, VerifyOK
  <2>2. UNCHANGED container
    BY <1>2 DEF CheckVerifyTimeout, VerifyNothing, VerifyFailed, VerifyOK, serverVars
  <2>3. UNCHANGED state \/ SetState(c, "recycle") \/ SetState(c, "sync")
    BY <1>2 DEF CheckVerifyTimeout, VerifyNothing, VerifyFailed, VerifyOK, Dismiss, taskVars
  <2> QED  BY <2>1, <2>2, <2>3
           DEF SetState, LifeStep, Life!Reject, Life!Verified, Life!Move, Life!lifeVars
<1> QED  BY <1>1, <1>2

\* so is the synchronisation thread's,
LEMMA SyncLife ==
  ASSUME IInv, NEW c \in Conn,
         \/ WaitSync(c) \/ SyncFailed(c) \/ AddOkayFailed(c) \/ SyncFinal(c)
         \/ \E n \in OkayThread : AddOkay(c, n) \/ StartOkay(c, n)
  PROVE  LifeStep(c) \/ UNCHANGED Life!lifeVars
<1>0. /\ SyncThread \in Thread \ VerifyThread
      /\ SyncThread # RecycleThread /\ StateOf(SyncThread) = "sync"
  BY PoolAssumption DEF Thread, StateOf
<1>1. state[c] = "sync"
  BY <1>0, AtState
  DEF IInv, WaitSync, SyncFailed, AddOkayFailed, SyncFinal, AddOkay, StartOkay
<1>2. \/ UNCHANGED <<state, container>>
      \/ SetState(c, "recycle") /\ UNCHANGED container
      \/ SetState(c, "okay") /\ container' = container \cup {c}
  BY DEF WaitSync, SyncFailed, AddOkayFailed, SyncFinal, AddOkay, StartOkay, EnterOkay,
         Dismiss, taskVars, serverVars
<1> QED  BY <1>1, <1>2
         DEF SetState, LifeStep, Life!Reject, Life!Admit, Life!Move, Life!lifeVars

\* an okay thread's,
LEMMA OkayLife ==
  ASSUME IInv, NEW n \in OkayThread, NEW c \in Conn,
         CheckSignal(n, c) \/ InputOutput(n, c) \/ OkayFinal(n, c)
  PROVE  LifeStep(c) \/ UNCHANGED Life!lifeVars
<1>0. n \in Thread \ VerifyThread /\ n # RecycleThread /\ StateOf(n) = "okay"
  BY PoolAssumption DEF Thread, StateOf
<1>1. state[c] = "okay"
  BY <1>0, AtState DEF IInv, CheckSignal, InputOutput, OkayFinal
<1>2. \/ UNCHANGED <<state, container>>
      \/ SetState(c, "recycle") /\ container' = container \ {c}
  BY DEF CheckSignal, InputOutput, OkayFinal, LeaveOkay, Dismiss, taskVars
<1> QED  BY <1>1, <1>2 DEF SetState, LifeStep, Life!Leave, Life!Move, Life!lifeVars

\* and the recycle thread's.
LEMMA RecycleLife ==
  ASSUME NEW c \in Conn,
         RecycleConn(c) \/ RecycleDone(c) \/ RecycleFreed(c) \/ RecycleFinal(c)
  PROVE  LifeStep(c) \/ UNCHANGED Life!lifeVars
<1>1. CASE Reclaim(c)
  BY <1>1 DEF Reclaim, SetState, LifeStep, Life!Reclaim, Life!Move
<1>2. CASE RecycleConn(c) \/ RecycleFreed(c)
  BY <1>2 DEF RecycleConn, RecycleFreed, taskVars, serverVars, Life!lifeVars
<1> QED  BY <1>1, <1>2 DEF RecycleDone, RecycleFinal

\* Every step of the pool is a step of the life cycle or none.
LEMMA LifeNextStep == IInv /\ [Next]_vars => [Life!LifeNext]_(Life!lifeVars)
<1> SUFFICES ASSUME IInv, [Next]_vars
             PROVE  (\E c \in Conn : LifeStep(c)) \/ UNCHANGED Life!lifeVars
  BY DEF Life!LifeNext, LifeStep
<1>1. CASE UNCHANGED vars
  BY <1>1 DEF vars, taskVars, serverVars, Life!lifeVars
<1>2. ASSUME NEW t \in Thread, LoopStep(t)
      PROVE  UNCHANGED Life!lifeVars
  BY <1>2 DEF LoopStep, Add, CheckQueue, EndWalk, LeaveLoop, Exit, taskVars, serverVars,
              Life!lifeVars
<1>3. ASSUME NEW n \in OkayThread, ThreadUp(n)
      PROVE  UNCHANGED Life!lifeVars
  BY <1>3 DEF ThreadUp, taskVars, serverVars, Life!lifeVars
<1>4. ASSUME NEW t \in Thread, ThreadStep(t)
      PROVE  (\E c \in Conn : LifeStep(c)) \/ UNCHANGED Life!lifeVars
  <2>1. CASE t \in VerifyThread /\ VerifyStep(t)
    BY <2>1, VerifyLife DEF VerifyStep
  <2>2. CASE t \in OkayThread /\ OkayStep(t)
    BY <2>2, <1>3, OkayLife DEF OkayStep
  <2>3. CASE SyncStep
    BY <2>3, SyncLife DEF SyncStep
  <2>4. CASE RecycleStep
    BY <2>4, RecycleLife DEF RecycleStep
  <2> QED  BY <1>2, <1>4, <2>1, <2>2, <2>3, <2>4 DEF ThreadStep
<1>5. ASSUME NEW c \in Conn, NEW v \in VerifyThread, Accept(c, v)
      PROVE  LifeStep(c)
  BY <1>5 DEF Accept, SetState, serverVars, LifeStep, Life!Open, Life!Move
<1>6. MainStep \/ StopStep \/ (\E c \in Conn : TerminateWait(c) \/ Grow(c))
        \/ (\E k \in ServerID : GetTaskByID(k)) \/ AddUser \/ StopTicking
        => UNCHANGED Life!lifeVars
  BY DEF MainStep, ExecEvery, CheckRecycle, DoCmd, StopStep, StopThread, TerminateWait,
         Grow, GetTaskByID, AddUser, StopTicking, taskVars, serverVars, Life!lifeVars
<1> QED  BY <1>1, <1>4, <1>5, <1>6 DEF Next, Outside

\* Every connection goes through the stages in order, is in the container
\* exactly while it is served, and is deleted once.
THEOREM Implements == Spec => LifeCycle
<1>1. Init => Life!LifeInit
  BY DEF Init, Life!LifeInit
<1> QED  BY <1>1, LifeNextStep, Invariance, PTL DEF Spec, LifeCycle, Life!LifeSpec


(***************************************************************************)
(* The registry.  What is registered is a connection past verification that *)
(* knows under which id, and what the main loop's sweep holds is registered. *)
(***************************************************************************)
Enlisted ==
  \A k \in ServerID : \A c \in registry[k] :
    key[c] = k /\ c \in uniqueVerified /\ state[c] \in {"sync", "okay", "recycle"}

Swept == sweep \cup visit \subseteq Registered

\* A connection whose flag was set by uniqueAdd alone holds its id until it is
\* deleted.
Flagged ==
  \A c \in Conn :
    /\ c \in uniqueVerified /\ state[c] # "notuse" => key[c] \in ServerID /\ registry[key[c]] = {c}
    /\ state[c] \in {"sync", "okay"} => c \in uniqueVerified

\* What a step may do to the connection c and to its entry in the registry.
Joins(c)   == /\ state[c] = "none" /\ SetState(c, "verify") /\ UNCHANGED <<key, registry>>
              /\ uniqueVerified \subseteq uniqueVerified' /\ uniqueVerified' \subseteq uniqueVerified \cup {c}
              /\ GarbageFlags \subseteq {FALSE} => uniqueVerified' = uniqueVerified
Leaves(c)  == /\ state[c] \in {"verify", "sync", "okay"} /\ SetState(c, "recycle")
              /\ UNCHANGED <<key, uniqueVerified, registry>>
Serves(c)  == /\ state[c] = "sync" /\ SetState(c, "okay") /\ UNCHANGED <<key, uniqueVerified, registry>>
Registers(c, k) ==
  /\ state[c] = "verify" /\ SetState(c, "sync") /\ RegistryFree
  /\ registry[k] = {} /\ registry' = [registry EXCEPT ![k] = {c}]
  /\ key' = [key EXCEPT ![c] = k] /\ uniqueVerified' = uniqueVerified \cup {c}
Duplicate(c, k) ==
  /\ state[c] = "verify" /\ SetState(c, "recycle") /\ RegistryFree
  /\ key' = [key EXCEPT ![c] = k] /\ UNCHANGED <<uniqueVerified, registry>>
Deletes(c) ==
  /\ state[c] = "recycle" /\ SetState(c, "notuse") /\ uniqueRemove(c) /\ UNCHANGED <<key, uniqueVerified>>

RegistryStep(c) ==
  \/ Joins(c) \/ Leaves(c) \/ Serves(c) \/ Deletes(c)
  \/ \E k \in ServerID : Registers(c, k) \/ Duplicate(c, k)

RegistryQuiet == UNCHANGED <<state, key, uniqueVerified, registry>>

\* A verify thread registers a connection, or gives it up.
LEMMA VerifyRegistry ==
  ASSUME IInv, NEW v \in VerifyThread, VerifyStep(v)
  PROVE  (RegistryQuiet \/ \E c \in Conn : RegistryStep(c)) /\ UNCHANGED <<sweep, visit>>
<1>0. v \in Thread /\ v # RecycleThread /\ StateOf(v) = "verify"
  BY PoolAssumption DEF Thread, StateOf
<1>1. ASSUME NEW c \in Conn, VerifyFinal(v, c)
      PROVE  (RegistryQuiet \/ RegistryStep(c)) /\ UNCHANGED <<sweep, visit>>
  <2>1. c \in Stuck
    BY <1>1 DEF VerifyFinal, At, Stuck
  <2>2. state[c] \in {"verify", "recycle", "notuse"}
    BY <2>1, Placed DEF IInv
  <2>3. UNCHANGED <<key, uniqueVerified, registry, sweep, visit>>
    BY <1>1 DEF VerifyFinal, serverVars
  <2>4. CASE state[c] = "verify"
    BY <1>1, <2>3, <2>4 DEF VerifyFinal, SetState, RegistryStep, Leaves
  <2>5. CASE state[c] # "verify"
    <3>1. state' = state
      BY <1>1, <2>2, <2>5 DEF VerifyFinal, IInv, TypeOK
    <3> QED  BY <2>3, <3>1 DEF RegistryQuiet
  <2> QED  BY <2>4, <2>5
<1>2. ASSUME NEW c \in Conn, CheckVerifyTimeout(v, c) \/ VerifyNothing(v, c) \/ VerifyFailed(v, c)
      PROVE  (RegistryQuiet \/ RegistryStep(c)) /\ UNCHANGED <<sweep, visit>>
  <2>1. state[c] = "verify"
    BY <1>0, <1>2, AtState DEF IInv, CheckVerifyTimeout, VerifyNothing, VerifyFailed
  <2>2. UNCHANGED <<key, uniqueVerified, registry, sweep, visit>>
    BY <1>2 DEF CheckVerifyTimeout, VerifyNothing, VerifyFailed, taskVars, serverVars
  <2>3. UNCHANGED state \/ SetState(c, "recycle")
    BY <1>2 DEF CheckVerifyTimeout, VerifyNothing, VerifyFailed, Dismiss, taskVars
  <2> QED  BY <2>1, <2>2, <2>3 DEF RegistryStep, Leaves, RegistryQuiet
<1>3. ASSUME NEW c \in Conn, VerifyOK(v, c)
      PROVE  RegistryStep(c) /\ UNCHANGED <<sweep, visit>>
  <2>1. state[c] = "verify"
    BY <1>0, <1>3, AtState DEF IInv, VerifyOK
  <2>2. PICK k \in ServerID :
          /\ key' = [key EXCEPT ![c] = k]
          /\ \/ /\ registry[k] = {} /\ registry' = [registry EXCEPT ![k] = {c}]
                /\ uniqueVerified' = uniqueVerified \cup {c}
                /\ SetState(c, "sync")
             \/ Dismiss(v, c) /\ UNCHANGED <<registry, uniqueVerified>>
    BY <1>3 DEF VerifyOK
  <2>3. RegistryFree /\ UNCHANGED <<sweep, visit>>
    BY <1>3 DEF VerifyOK
  <2>4. Registers(c, k) \/ Duplicate(c, k)
    BY <2>1, <2>2, <2>3 DEF Registers, Duplicate, Dismiss
  <2> QED  BY <2>3, <2>4 DEF RegistryStep
<1> QED  BY <1>1, <1>2, <1>3 DEF VerifyStep

\* The sync thread and the okay threads leave the registry alone.
LEMMA ServeRegistry ==
  ASSUME IInv, SyncStep \/ \E n \in OkayThread : OkayStep(n)
  PROVE  (RegistryQuiet \/ \E c \in Conn : RegistryStep(c)) /\ UNCHANGED <<sweep, visit>>
<1>1. ASSUME NEW c \in Conn,
             \/ WaitSync(c) \/ SyncFailed(c) \/ AddOkayFailed(c) \/ SyncFinal(c)
             \/ \E n \in OkayThread : AddOkay(c, n) \/ StartOkay(c, n)
      PROVE  (RegistryQuiet \/ RegistryStep(c)) /\ UNCHANGED <<sweep, visit>>
  <2>0. /\ SyncThread \in Thread \ VerifyThread
        /\ SyncThread # RecycleThread /\ StateOf(SyncThread) = "sync"
    BY PoolAssumption DEF Thread, StateOf
  <2>1. state[c] = "sync"
    BY <1>1, <2>0, AtState
    DEF IInv, WaitSync, SyncFailed, AddOkayFailed, SyncFinal, AddOkay, StartOkay
  <2>2. /\ UNCHANGED state \/ SetState(c, "recycle") \/ SetState(c, "okay")
        /\ UNCHANGED <<key, uniqueVerified, registry, sweep, visit>>
    BY <1>1 DEF WaitSync, SyncFailed, AddOkayFailed, SyncFinal, AddOkay, StartOkay, EnterOkay,
                Dismiss, taskVars, serverVars
  <2> QED  BY <2>1, <2>2 DEF RegistryStep, Leaves, Serves, RegistryQuiet
<1>2. ASSUME NEW n \in OkayThread, NEW c \in Conn, CheckSignal(n, c) \/ InputOutput(n, c) \/ OkayFinal(n, c)
      PROVE  (RegistryQuiet \/ RegistryStep(c)) /\ UNCHANGED <<sweep, visit>>
  <2>0. n \in Thread \ VerifyThread /\ n # RecycleThread /\ StateOf(n) = "okay"
    BY PoolAssumption DEF Thread, StateOf
  <2>1. state[c] = "okay"
    BY <1>2, <2>0, AtState DEF IInv, CheckSignal, InputOutput, OkayFinal
  <2>2. /\ UNCHANGED state \/ SetState(c, "recycle")
        /\ UNCHANGED <<key, uniqueVerified, registry, sweep, visit>>
    BY <1>2 DEF CheckSignal, InputOutput, OkayFinal, LeaveOkay, Dismiss, taskVars
  <2> QED  BY <2>1, <2>2 DEF RegistryStep, Leaves, RegistryQuiet
<1>3. ASSUME NEW n \in OkayThread, ThreadUp(n)
      PROVE  RegistryQuiet /\ UNCHANGED <<sweep, visit>>
  BY <1>3 DEF ThreadUp, taskVars, serverVars, RegistryQuiet
<1> QED  BY <1>1, <1>2, <1>3 DEF SyncStep, OkayStep

\* The recycle thread deletes a connection, and its entry with it.
LEMMA RecycleRegistry ==
  ASSUME RecycleStep
  PROVE  (RegistryQuiet \/ \E c \in Conn : RegistryStep(c)) /\ UNCHANGED <<sweep, visit>>
<1>1. ASSUME NEW c \in Conn, Reclaim(c)
      PROVE  RegistryStep(c) /\ UNCHANGED <<sweep, visit>>
  BY <1>1 DEF Reclaim, RegistryStep, Deletes
<1>2. ASSUME NEW c \in Conn, RecycleConn(c) \/ RecycleFreed(c)
      PROVE  RegistryQuiet /\ UNCHANGED <<sweep, visit>>
  BY <1>2 DEF RecycleConn, RecycleFreed, RegistryQuiet, taskVars, serverVars
<1> QED  BY <1>1, <1>2 DEF RecycleStep, RecycleDone, RecycleFinal

\* A step changes the registry for one connection, while no sweep is under way
\* or without a change to the sweep; or it changes the sweep alone.
LEMMA RegistrySteps ==
  ASSUME IInv, [Next]_vars
  PROVE  \/ RegistryQuiet /\ \/ sweep' \cup visit' \subseteq sweep \cup visit
                             \/ sweep' = Registered /\ visit' = visit /\ RegistryFree
         \/ (\E c \in Conn : RegistryStep(c)) /\ UNCHANGED <<sweep, visit>>
<1> DEFINE Goal == \/ RegistryQuiet /\ \/ sweep' \cup visit' \subseteq sweep \cup visit
                                       \/ sweep' = Registered /\ visit' = visit /\ RegistryFree
                   \/ (\E c \in Conn : RegistryStep(c)) /\ UNCHANGED <<sweep, visit>>
<1> SUFFICES Goal
  OBVIOUS
<1>1. ASSUME RegistryQuiet, UNCHANGED <<sweep, visit>>
      PROVE  Goal
  BY <1>1
<1>2. ASSUME NEW t \in Thread, LoopStep(t)
      PROVE  RegistryQuiet /\ UNCHANGED <<sweep, visit>>
  BY <1>2 DEF LoopStep, Add, CheckQueue, EndWalk, LeaveLoop, Exit, taskVars, serverVars, RegistryQuiet
<1>3. ASSUME NEW t \in Thread, ThreadStep(t)
      PROVE  Goal
  BY <1>1, <1>2, <1>3, VerifyRegistry, ServeRegistry, RecycleRegistry DEF ThreadStep
<1>4. ASSUME NEW c \in Conn, NEW v \in VerifyThread, Accept(c, v)
      PROVE  Goal
  <2>1. /\ state[c] = "none" /\ SetState(c, "verify") /\ UNCHANGED <<key, registry, sweep, visit>>
        /\ \E g \in GarbageFlags : uniqueVerified' = IF g THEN uniqueVerified \cup {c} ELSE uniqueVerified
    BY <1>4 DEF Accept, serverVars
  <2>2. Joins(c)
    BY <2>1 DEF Joins
  <2> QED  BY <2>1, <2>2 DEF RegistryStep
<1>5. CASE ExecEvery
  BY <1>5 DEF ExecEvery, RegistryQuiet, taskVars
<1>6. ASSUME NEW c \in Conn, CheckRecycle(c) \/ DoCmd(c)
      PROVE  Goal
  BY <1>6 DEF CheckRecycle, DoCmd, RegistryQuiet, taskVars
<1>7. StopStep \/ (\E c \in Conn : TerminateWait(c) \/ Grow(c)) \/ (\E k \in ServerID : GetTaskByID(k))
        \/ AddUser \/ StopTicking \/ UNCHANGED vars
        => RegistryQuiet /\ UNCHANGED <<sweep, visit>>
  BY DEF StopStep, StopThread, TerminateWait, Grow, GetTaskByID, AddUser, StopTicking, vars,
         taskVars, serverVars, RegistryQuiet
<1> HIDE DEF Goal
<1> QED  BY <1>1, <1>3, <1>4, <1>5, <1>6, <1>7 DEF Next, MainStep, Outside

\* What is registered is alive: it left verification and was not deleted.
LEMMA EnlistedNext == ASSUME IInv, Enlisted, [Next]_vars PROVE Enlisted'
<1>0. /\ state \in [Conn -> State] /\ key \in [Conn -> ServerID \cup {NoID}]
      /\ registry \in [ServerID -> SUBSET Conn]
  BY DEF IInv, TypeOK
<1>1. CASE RegistryQuiet
  BY <1>1 DEF RegistryQuiet, Enlisted
<1>2. ASSUME NEW c \in Conn, Joins(c) PROVE Enlisted'
  BY <1>0, <1>2 DEF Enlisted, Joins, SetState
<1>3. ASSUME NEW c \in Conn, Leaves(c) \/ Serves(c) PROVE Enlisted'
  BY <1>0, <1>3 DEF Enlisted, Leaves, Serves, SetState
<1>4. ASSUME NEW c \in Conn, NEW k \in ServerID, Registers(c, k) PROVE Enlisted'
  <2> SUFFICES ASSUME NEW i \in ServerID, NEW d \in registry'[i]
               PROVE  key'[d] = i /\ d \in uniqueVerified' /\ state'[d] \in {"sync", "okay", "recycle"}
    BY DEF Enlisted
  <2>1. CASE i = k
    BY <1>0, <1>4, <2>1 DEF Registers, SetState
  <2>2. CASE i # k
    <3>1. d \in registry[i]
      BY <1>0, <1>4, <2>2 DEF Registers
    <3>2. d \in Conn /\ key[d] = i /\ d \in uniqueVerified /\ state[d] \in {"sync", "okay", "recycle"}
      BY <1>0, <3>1 DEF Enlisted
    <3>3. d # c
      BY <1>4, <3>2 DEF Registers
    <3> QED  BY <1>0, <1>4, <3>2, <3>3 DEF Registers, SetState
  <2> QED  BY <2>1, <2>2
<1>5. ASSUME NEW c \in Conn, NEW k \in ServerID, Duplicate(c, k) PROVE Enlisted'
  BY <1>0, <1>5 DEF Enlisted, Duplicate, SetState
<1>6. ASSUME NEW c \in Conn, Deletes(c) PROVE Enlisted'
  <2> SUFFICES ASSUME NEW i \in ServerID, NEW d \in registry'[i]
               PROVE  key[d] = i /\ d \in uniqueVerified /\ state'[d] \in {"sync", "okay", "recycle"}
    BY <1>6 DEF Enlisted, Deletes
  <2>1. d \in registry[i] /\ (c \in uniqueVerified => i # key[c])
    BY <1>0, <1>6 DEF Deletes, uniqueRemove
  <2>2. d \in Conn /\ key[d] = i /\ d \in uniqueVerified /\ state[d] \in {"sync", "okay", "recycle"}
    BY <1>0, <2>1 DEF Enlisted
  <2>3. d # c
    BY <2>1, <2>2
  <2> QED  BY <1>0, <1>6, <2>2, <2>3 DEF Deletes, SetState
<1> QED  BY <1>1, <1>2, <1>3, <1>4, <1>5, <1>6, RegistrySteps DEF RegistryStep

\* The sweep holds the registry's lock, so nothing it has yet to visit leaves.
LEMMA SweptNext == ASSUME IInv, Enlisted, Swept, [Next]_vars PROVE Swept'
<1>0. registry \in [ServerID -> SUBSET Conn]
  BY DEF IInv, TypeOK
<1>1. CASE RegistryQuiet /\ \/ sweep' \cup visit' \subseteq sweep \cup visit
                            \/ sweep' = Registered /\ visit' = visit /\ RegistryFree
  <2>1. Registered' = Registered
    BY <1>1 DEF RegistryQuiet, Registered
  <2> QED  BY <1>1, <2>1 DEF Swept, RegistryFree
<1>2. ASSUME NEW c \in Conn, RegistryStep(c), UNCHANGED <<sweep, visit>> PROVE Swept'
  <2>1. CASE RegistryFree
    BY <1>2, <2>1 DEF Swept, RegistryFree
  <2>2. CASE ~RegistryFree
    <3>1. UNCHANGED registry
      BY <1>2, <2>2 DEF RegistryStep, Joins, Leaves, Serves, Deletes, Registers, Duplicate, uniqueRemove
    <3>2. Registered' = Registered
      BY <3>1 DEF Registered
    <3> QED  BY <1>2, <3>2 DEF Swept
  <2> QED  BY <2>1, <2>2
<1> QED  BY <1>1, <1>2, RegistrySteps

\* Without a flag that reads true by accident, the flag says who is registered.
LEMMA FlaggedNext ==
  ASSUME GarbageFlags \subseteq {FALSE}, IInv, Enlisted, Flagged, [Next]_vars
  PROVE  Flagged'
<1>0. /\ state \in [Conn -> State] /\ key \in [Conn -> ServerID \cup {NoID}]
      /\ registry \in [ServerID -> SUBSET Conn] /\ NoID \notin ServerID
  BY PoolAssumption DEF IInv, TypeOK
<1> DEFINE F(d) == /\ d \in uniqueVerified' /\ state'[d] # "notuse" => key'[d] \in ServerID /\ registry'[key'[d]] = {d}
                   /\ state'[d] \in {"sync", "okay"} => d \in uniqueVerified'
<1> SUFFICES ASSUME NEW d \in Conn PROVE F(d)
  BY DEF Flagged
\* a connection not yet verified has no flag
<1>1. state[d] \in {"none", "verify"} => d \notin uniqueVerified
  BY <1>0 DEF Flagged, Enlisted
<1>2. CASE RegistryQuiet
  BY <1>2 DEF RegistryQuiet, Flagged
<1>3. ASSUME NEW c \in Conn, Joins(c) PROVE F(d)
  BY <1>0, <1>1, <1>3 DEF Flagged, Joins, SetState
<1>4. ASSUME NEW c \in Conn, Leaves(c) \/ Serves(c) PROVE F(d)
  BY <1>0, <1>4 DEF Flagged, Leaves, Serves, SetState
<1>5. ASSUME NEW c \in Conn, NEW k \in ServerID, Registers(c, k) PROVE F(d)
  <2>1. CASE d = c
    BY <1>0, <1>5, <2>1 DEF Registers, SetState
  <2>2. CASE d # c
    <3>1. /\ state'[d] = state[d] /\ key'[d] = key[d] /\ (d \in uniqueVerified' => d \in uniqueVerified)
          /\ uniqueVerified \subseteq uniqueVerified'
      BY <1>0, <1>5, <2>2 DEF Registers, SetState
    <3>2. ASSUME d \in uniqueVerified, state[d] # "notuse"
          PROVE  key[d] \in ServerID /\ registry[key[d]] = {d} /\ registry'[key[d]] = {d}
      <4>1. key[d] \in ServerID /\ registry[key[d]] = {d}
        BY <3>2 DEF Flagged
      <4>2. key[d] # k
        BY <1>5, <4>1 DEF Registers
      <4> QED  BY <1>0, <1>5, <4>1, <4>2 DEF Registers
    <3> QED  BY <3>1, <3>2 DEF Flagged
  <2> QED  BY <2>1, <2>2
<1>6. ASSUME NEW c \in Conn, NEW k \in ServerID, Duplicate(c, k) PROVE F(d)
  BY <1>0, <1>1, <1>6 DEF Flagged, Duplicate, SetState
<1>7. ASSUME NEW c \in Conn, Deletes(c) PROVE F(d)
  <2>1. CASE d = c
    BY <1>0, <1>7, <2>1 DEF Deletes, SetState
  <2>2. CASE d # c
    <3>1. state'[d] = state[d] /\ key' = key /\ uniqueVerified' = uniqueVerified
      BY <1>0, <1>7, <2>2 DEF Deletes, SetState
    <3>2. ASSUME d \in uniqueVerified, state[d] # "notuse"
          PROVE  key[d] \in ServerID /\ registry'[key[d]] = {d}
      <4>1. key[d] \in ServerID /\ registry[key[d]] = {d}
        BY <3>2 DEF Flagged
      <4>2. c \in uniqueVerified => registry[key[c]] = {c}
        BY <1>7 DEF Flagged, Deletes
      <4>3. c \in uniqueVerified => key[d] # key[c]
        BY <2>2, <4>1, <4>2
      <4> QED  BY <1>0, <1>7, <4>1, <4>3 DEF Deletes, uniqueRemove
    <3> QED  BY <3>1, <3>2 DEF Flagged
  <2> QED  BY <2>1, <2>2
<1> HIDE DEF F
<1> QED  BY <1>2, <1>3, <1>4, <1>5, <1>6, <1>7, RegistrySteps DEF RegistryStep

\* What execEvery is about to look at has not been deleted: a registered task is
\* taken out of the registry before it is, under the lock execEvery holds.
THEOREM SweepSafe == Spec => []SweptAlive
<1> DEFINE Inv == IInv /\ Enlisted /\ Swept
<1>1. Init => Inv
  BY TypeInit, PlacementInit DEF IInv, Init, Enlisted, Swept
<1>2. Inv /\ [Next]_vars => Inv'
  BY TypeNext, PlacementNext, EnlistedNext, SweptNext DEF IInv
<1>3. Inv => SweptAlive
  <2> SUFFICES ASSUME Inv, NEW c \in sweep \cup visit PROVE state[c] # "notuse"
    BY DEF SweptAlive
  <2>1. PICK k \in ServerID : c \in registry[k]
    BY DEF Swept, Registered
  <2> QED  BY <2>1 DEF Enlisted
<1> QED  BY <1>1, <1>2, <1>3, PTL DEF Spec

\* A connection past verification is the one registered under its id, if the
\* uninitialised uniqueVerified of a rejected duplicate reads false.
THEOREM Registration == GarbageFlags \subseteq {FALSE} => (Spec => []LiveIsRegistered)
<1> SUFFICES ASSUME GarbageFlags \subseteq {FALSE}
             PROVE  Spec => []LiveIsRegistered
  OBVIOUS
<1> DEFINE Inv == IInv /\ Enlisted /\ Flagged
<1>1. Init => Inv
  BY TypeInit, PlacementInit DEF IInv, Init, Enlisted, Flagged
<1>2. Inv /\ [Next]_vars => Inv'
  BY TypeNext, PlacementNext, EnlistedNext, FlaggedNext DEF IInv
<1>3. Inv => LiveIsRegistered
  BY DEF Flagged, LiveIsRegistered
<1> QED  BY <1>1, <1>2, <1>3, PTL DEF Spec

(***************************************************************************)
(* The recycle handshake of the Session server.  The main loop agrees to    *)
(* the deletion of a connection (recycle_state 2) when it has removed its   *)
(* users, and looks at that connection no more; the recycle thread waits    *)
(* for that, as long as the main loop runs.                                 *)
(***************************************************************************)
Agreed ==
  \A c \in Conn :
    /\ recycle_state[c] = 2 => c \notin users \cup visit
    /\ ticking /\ state[c] = "notuse" => recycle_state[c] = 2

\* A thread is in its last loop only when it was stopped, after the main loop.
Stopping == /\ stop # {} => ~ticking
            /\ \A t \in Thread : phase[t] = "final" => t \in stop

Handshake == /\ Stopping /\ borrowed = {}
             /\ Server = "Session" => Agreed
             /\ Server = "Super" => users = {}

\* No thread is stopped while the main loop still ticks.
LEMMA StoppingNext == ASSUME TypeOK, Stopping, [Next]_vars PROVE Stopping'
<1>1. ASSUME NEW t \in Thread, Add(t) \/ CheckQueue(t) \/ EndWalk(t) \/ LeaveLoop(t) \/ Exit(t)
      PROVE  Stopping'
  <2>1. UNCHANGED <<stop, ticking>>
    BY <1>1 DEF Add, CheckQueue, EndWalk, LeaveLoop, Exit, serverVars
  <2>2. ASSUME NEW u \in Thread, phase'[u] = "final"
        PROVE  phase[u] = "final" \/ u \in stop
    BY <1>1, <2>2, FirstWalkType DEF Add, CheckQueue, EndWalk, LeaveLoop, Exit, TypeOK, Walking
  <2> QED  BY <2>1, <2>2 DEF Stopping
<1>2. ASSUME NEW n \in OkayThread, ThreadUp(n)
      PROVE  Stopping'
  BY <1>2 DEF ThreadUp, serverVars, Stopping, TypeOK
<1>3. ASSUME UNCHANGED <<phase, stop>>, ticking' => ticking
      PROVE  Stopping'
  BY <1>3 DEF Stopping
<1>4. ASSUME NEW t \in Thread, StopThread(t)
      PROVE  Stopping'
  <2>1. /\ stop' = stop \cup {t} /\ ticking' = ticking /\ ~ticking
    BY <1>4 DEF StopThread, serverVars
  <2>2. \A u \in Thread : phase'[u] = "final" => phase[u] = "final"
    BY <1>4 DEF StopThread, TypeOK
  <2> QED  BY <2>1, <2>2 DEF Stopping
<1>5. ASSUME NEW v \in VerifyThread, VerifyStep(v)
      PROVE  UNCHANGED <<phase, stop, ticking>>
  BY <1>5 DEF VerifyStep, CheckVerifyTimeout, VerifyNothing, VerifyFailed, VerifyOK, VerifyFinal,
              Dismiss, HandOver, serverVars
<1>6. ASSUME SyncStep
      PROVE  UNCHANGED <<phase, stop, ticking>>
  BY <1>6 DEF SyncStep, WaitSync, SyncFailed, AddOkayFailed, SyncFinal, AddOkay, StartOkay, EnterOkay,
              Dismiss, HandOver, serverVars
<1>7. ASSUME NEW n \in OkayThread, NEW c \in Conn, CheckSignal(n, c) \/ InputOutput(n, c) \/ OkayFinal(n, c)
      PROVE  UNCHANGED <<phase, stop, ticking>>
  BY <1>7 DEF CheckSignal, InputOutput, OkayFinal, LeaveOkay, Dismiss, HandOver
<1>8. ASSUME RecycleStep
      PROVE  UNCHANGED <<phase, stop, ticking>>
  BY <1>8 DEF RecycleStep, RecycleConn, RecycleDone, RecycleFreed, RecycleFinal, Reclaim, serverVars
<1>9. ASSUME NEW t \in Thread, ThreadStep(t)
      PROVE  Stopping'
  BY <1>1, <1>2, <1>3, <1>5, <1>6, <1>7, <1>8, <1>9 DEF ThreadStep, LoopStep, OkayStep
<1>10. MainStep \/ Outside \/ (\E c \in Conn : Grow(c)) \/ UNCHANGED vars
         => UNCHANGED <<phase, stop>> /\ (ticking' => ticking)
  BY DEF MainStep, ExecEvery, CheckRecycle, DoCmd, Outside, Accept, TerminateWait, GetTaskByID, AddUser,
         StopTicking, Grow, vars, threadVars, serverVars
<1> QED  BY <1>3, <1>4, <1>9, <1>10 DEF Next, StopStep

\* Who may be recycled, who is a user and who is being looked at.
LEMMA AgreedNext ==
  ASSUME Server = "Session", IInv, Stopping, borrowed = {}, Agreed, [Next]_vars
  PROVE  Agreed'
<1>0. /\ state \in [Conn -> State] /\ recycle_state \in [Conn -> 0 .. 2] /\ ticking \in BOOLEAN
  BY DEF IInv, TypeOK
<1>1. ASSUME UNCHANGED <<recycle_state, users, visit, ticking>>,
             \A c \in Conn : state'[c] = "notuse" => state[c] = "notuse"
      PROVE  Agreed'
  BY <1>1 DEF Agreed
<1>2. ASSUME NEW t \in Thread, LoopStep(t)
      PROVE  Agreed'
  BY <1>1, <1>2 DEF LoopStep, Add, CheckQueue, EndWalk, LeaveLoop, Exit, taskVars, serverVars
<1>3. ASSUME NEW v \in VerifyThread, VerifyStep(v)
      PROVE  Agreed'
  <2>1. UNCHANGED <<recycle_state, users, visit, ticking>>
    BY <1>3 DEF VerifyStep, CheckVerifyTimeout, VerifyNothing, VerifyFailed, VerifyOK, VerifyFinal,
                taskVars, serverVars
  <2>2. \A c \in Conn : state'[c] = "notuse" => state[c] = "notuse"
    <3>1. PICK c \in Conn : \/ UNCHANGED state \/ SetState(c, "recycle") \/ SetState(c, "sync")
                            \/ state' = [state EXCEPT ![c] = IF @ = "notuse" THEN @ ELSE "recycle"]
      BY <1>3 DEF VerifyStep, CheckVerifyTimeout, VerifyNothing, VerifyFailed, VerifyOK, VerifyFinal,
                  Dismiss, taskVars
    <3> QED  BY <1>0, <3>1 DEF SetState
  <2> QED  BY <1>1, <2>1, <2>2
<1>4. ASSUME SyncStep \/ \E n \in OkayThread : OkayStep(n)
      PROVE  Agreed'
  <2>1. UNCHANGED <<recycle_state, users, visit, ticking>>
    BY <1>4 DEF SyncStep, WaitSync, SyncFailed, AddOkayFailed, SyncFinal, AddOkay, StartOkay, EnterOkay,
                OkayStep, ThreadUp, CheckSignal, InputOutput, OkayFinal, taskVars, serverVars
  <2>2. UNCHANGED state \/ \E c \in Conn : SetState(c, "recycle") \/ SetState(c, "okay")
    BY <1>4 DEF SyncStep, WaitSync, SyncFailed, AddOkayFailed, SyncFinal, AddOkay, StartOkay, EnterOkay,
                OkayStep, ThreadUp, CheckSignal, InputOutput, OkayFinal, LeaveOkay, Dismiss, taskVars
  <2>3. \A c \in Conn : state'[c] = "notuse" => state[c] = "notuse"
    BY <1>0, <2>2 DEF SetState
  <2> QED  BY <1>1, <2>1, <2>3
<1>5. ASSUME NEW c \in Conn, RecycleConn(c)
      PROVE  Agreed'
  <2>1. /\ recycle_state[c] # 2 /\ state[c] = "recycle" /\ recycle_state' = [recycle_state EXCEPT ![c] = 1]
        /\ UNCHANGED <<state, users, visit, ticking>>
    BY <1>5 DEF RecycleConn, Recyclable, SessionRecyclable, serverVars
  <2> QED  BY <1>0, <2>1 DEF Agreed
<1>6. ASSUME NEW c \in Conn, RecycleDone(c) \/ RecycleFinal(c)
      PROVE  Agreed'
  <2>1. SetState(c, "notuse") /\ UNCHANGED <<recycle_state, users, visit, ticking>>
    BY <1>6 DEF RecycleDone, RecycleFinal, Reclaim
  <2>2. ticking => recycle_state[c] = 2
    <3>1. CASE RecycleDone(c)
      BY <3>1 DEF RecycleDone, Recyclable, SessionRecyclable
    <3>2. CASE RecycleFinal(c)
      BY <3>2 DEF RecycleFinal, At, Stopping, Thread
    <3> QED  BY <1>6, <3>1, <3>2
  <2> QED  BY <1>0, <2>1, <2>2 DEF Agreed, SetState
<1>7. ASSUME NEW c \in Conn, RecycleFreed(c)
      PROVE  Agreed'
  BY <1>1, <1>7 DEF RecycleFreed, taskVars, serverVars
<1>8. ASSUME NEW t \in Thread, ThreadStep(t)
      PROVE  Agreed'
  BY <1>2, <1>3, <1>4, <1>5, <1>6, <1>7, <1>8 DEF ThreadStep, RecycleStep
<1>9. ASSUME NEW c \in Conn, CheckRecycle(c)
      PROVE  Agreed'
  <2>1. visit = {} /\ UNCHANGED <<state, ticking>>
    BY <1>9 DEF CheckRecycle
  <2>2. \/ recycle_state[c] = 0 /\ visit' = {c} /\ UNCHANGED <<users, recycle_state>>
        \/ /\ users' = users \ {c} /\ recycle_state' = [recycle_state EXCEPT ![c] = 2] /\ UNCHANGED visit
        \/ UNCHANGED <<users, recycle_state, visit>>
    BY <1>9 DEF CheckRecycle
  <2> QED  BY <1>0, <2>1, <2>2 DEF Agreed
<1>10. ASSUME NEW c \in Conn, DoCmd(c)
       PROVE  Agreed'
  <2>1. /\ c \in visit /\ visit' = {} /\ UNCHANGED <<state, recycle_state, ticking>>
        /\ users' = users \cup {c} \/ UNCHANGED users
    BY <1>10 DEF DoCmd, taskVars
  <2> QED  BY <2>1 DEF Agreed
<1>11. ASSUME NEW c \in Conn, NEW v \in VerifyThread, Accept(c, v)
       PROVE  Agreed'
  <2>1. SetState(c, "verify") /\ UNCHANGED <<recycle_state, users, visit, ticking>>
    BY <1>11 DEF Accept, serverVars
  <2> QED  BY <1>0, <2>1 DEF Agreed, SetState
<1>12. ExecEvery \/ StopStep \/ (\E c \in Conn : TerminateWait(c) \/ Grow(c)) \/ UNCHANGED vars
         => UNCHANGED <<state, recycle_state, users, visit, ticking>>
  BY DEF ExecEvery, StopStep, StopThread, TerminateWait, Grow, vars, taskVars, serverVars
<1>13. ASSUME StopTicking
       PROVE  Agreed'
  BY <1>13 DEF StopTicking, Agreed, taskVars
<1>14. ~AddUser /\ \A k \in ServerID : ~GetTaskByID(k)
  BY DEF AddUser, GetTaskByID
<1> QED  BY <1>1, <1>8, <1>9, <1>10, <1>11, <1>12, <1>13, <1>14 DEF Next, MainStep, Outside

\* The handshake's invariant is inductive where no pointer is borrowed.
LEMMA HandshakeNext ==
  ASSUME Server # "Bill", IInv, Handshake, [Next]_vars
  PROVE  Handshake'
<1>1. Stopping'
  BY StoppingNext DEF Handshake, IInv
<1>2. Server = "Session" => Agreed'
  BY AgreedNext DEF Handshake
<1>3. borrowed' = {} /\ (Server = "Super" => users' = {})
  <2>1. ASSUME UNCHANGED <<users, borrowed>>
        PROVE  borrowed' = {} /\ (Server = "Super" => users' = {})
    BY <2>1 DEF Handshake
  <2>2. ASSUME NEW t \in Thread, ThreadStep(t)
        PROVE  UNCHANGED <<users, borrowed>>
    <3>1. LoopStep(t) => UNCHANGED <<users, borrowed>>
      BY DEF LoopStep, Add, CheckQueue, EndWalk, LeaveLoop, Exit, serverVars
    <3>2. VerifyStep(t) => UNCHANGED <<users, borrowed>>
      BY DEF VerifyStep, CheckVerifyTimeout, VerifyNothing, VerifyFailed, VerifyOK, VerifyFinal, serverVars
    <3>3. SyncStep => UNCHANGED <<users, borrowed>>
      BY DEF SyncStep, WaitSync, SyncFailed, AddOkayFailed, SyncFinal, AddOkay, StartOkay, EnterOkay, serverVars
    <3>4. OkayStep(t) => UNCHANGED <<users, borrowed>>
      BY DEF OkayStep, ThreadUp, CheckSignal, InputOutput, OkayFinal, serverVars
    <3>5. RecycleStep => UNCHANGED <<users, borrowed>>
      BY DEF RecycleStep, RecycleConn, RecycleDone, RecycleFreed, RecycleFinal, Reclaim, serverVars
    <3> QED  BY <2>2, <3>1, <3>2, <3>3, <3>4, <3>5 DEF ThreadStep
  <2>3. ASSUME NEW c \in Conn, CheckRecycle(c) \/ DoCmd(c)
        PROVE  borrowed' = {} /\ (Server = "Super" => users' = {})
    BY <2>3 DEF CheckRecycle, DoCmd, Handshake
  <2>4. ExecEvery \/ StopStep \/ (\E c \in Conn : TerminateWait(c) \/ Grow(c))
          \/ (\E c \in Conn, v \in VerifyThread : Accept(c, v)) \/ StopTicking \/ UNCHANGED vars
          => UNCHANGED <<users, borrowed>>
    BY DEF ExecEvery, StopStep, StopThread, TerminateWait, Grow, Accept, StopTicking, vars, serverVars
  <2>5. ~AddUser /\ \A k \in ServerID : ~GetTaskByID(k)
    BY DEF AddUser, GetTaskByID, Handshake
  <2> QED  BY <2>1, <2>2, <2>3, <2>4, <2>5 DEF Next, MainStep, Outside
<1> QED  BY <1>1, <1>2, <1>3 DEF Handshake

\* While the Session server runs, none of its users points to a deleted
\* connection; the Super server has no such users.  (In the Bill server the
\* thread of another connection makes users without the handshake, and the
\* property is not claimed of it.)
THEOREM UsersAlive == Server # "Bill" => (Spec => []NoDanglingUser)
<1> SUFFICES ASSUME Server # "Bill"
             PROVE  Spec => []NoDanglingUser
  OBVIOUS
<1> DEFINE Inv == IInv /\ Handshake
<1>1. Init => Inv
  BY TypeInit, PlacementInit DEF IInv, Init, Handshake, Stopping, Agreed, Thread
<1>2. Inv /\ [Next]_vars => Inv'
  BY TypeNext, PlacementNext, HandshakeNext DEF IInv
<1>3. Inv => NoDanglingUser
  BY PoolAssumption DEF Handshake, Agreed, NoDanglingUser, IInv, TypeOK
<1> QED  BY <1>1, <1>2, <1>3, PTL DEF Spec

(***************************************************************************)
(* Shutting down.  A thread that has gone leaves nothing in its list or in  *)
(* its hand, the threads go in the order in which they feed each other, and *)
(* a task is deleted or still held.                                         *)
(***************************************************************************)
Ends ==
  \A t \in Thread :
    /\ phase[t] \in {"top", "down", "exited"} => hand[t] = {} /\ todo[t] = {}
    /\ phase[t] \in {"down", "exited"} => tasks[t] = {}
    /\ phase[t] = "final" /\ t \notin VerifyThread => todo[t] = tasks[t]
    /\ phase[t] = "final" /\ t \in VerifyThread => todo[t] # {}

Order == /\ RecycleThread \in stop => \A t \in Thread \ {RecycleThread} : Exited(t)
         /\ Exited(RecycleThread) => RecycleThread \in stop

NotStarted == \A n \in OkayThread : starts[n] = 0 => phase[n] \in {"down", "exited"}

Covered == \A c \in Conn : state[c] \in {"none", "notuse"} \/ \E t \in Thread : c \in Held(t)

\* The thread that moves is alone in what changes; what it keeps or hands over.
Mine(t) == \A u \in Thread \ {t} : /\ phase'[u] = phase[u] /\ tasks'[u] = tasks[u]
                                   /\ hand'[u] = hand[u] /\ todo'[u] = todo[u]

\* A thread goes on with its walk: it skips, erases, or takes in hand.
Walks(t) ==
  /\ Mine(t) /\ phase[t] \in Walking \cup {"final"} /\ phase'[t] = phase[t]
  /\ phase[t] = "final" => t \notin VerifyThread /\ (todo[t] = tasks[t] => todo'[t] = tasks'[t])

\* A thread that goes on with its walk keeps Ends.
LEMMA WalkEnds == ASSUME Ends, NEW t \in Thread, Walks(t) PROVE Ends'
<1>1. phase[t] \notin {"top", "down", "exited"}
  BY DEF Walks, Walking
<1>2. phase[t] = "final" => t \notin VerifyThread /\ todo'[t] = tasks'[t]
  BY DEF Walks, Ends
<1> QED  BY <1>1, <1>2 DEF Ends, Walks, Mine

\* At a task of its walk a thread skips it or hands it over.
LEMMA SkipWalks ==
  ASSUME TypeOK, NEW t \in Thread, NEW walk \in Walking, NEW c, At(t, walk, c), Skip(t, c), UNCHANGED <<hand, phase>>
  PROVE  Walks(t)
BY DEF At, Skip, Walks, Mine, TypeOK, Walking

\* A hand-over is a step of a walk;
LEMMA HandOverWalks ==
  ASSUME TypeOK, NEW t \in Thread, NEW u \in Thread, NEW walk \in Walking \cup {"final"}, NEW c, At(t, walk, c),
         HandOver(t, c, u), t \in VerifyThread => walk # "final"
  PROVE  Walks(t)
BY DEF At, HandOver, Erase, Walks, Mine, TypeOK

\* so are the steps of a verify thread,
LEMMA VerifyWalks ==
  ASSUME TypeOK, NEW v \in VerifyThread, VerifyStep(v)
  PROVE  Walks(v) \/ UNCHANGED <<phase, tasks, hand, todo>>
<1>0. v \in Thread /\ SyncThread \in Thread /\ RecycleThread \in Thread /\ {"timeout", "recv"} \subseteq Walking
  BY DEF Thread, Walking
<1>1. ASSUME NEW c \in Conn, NEW walk \in {"timeout", "recv"}, At(v, walk, c),
             \/ Skip(v, c) /\ UNCHANGED <<hand, phase>>
             \/ \E u \in {SyncThread, RecycleThread} : HandOver(v, c, u)
      PROVE  Walks(v)
  BY <1>0, <1>1, SkipWalks, HandOverWalks DEF Walking
<1>2. ASSUME NEW c \in Conn, CheckVerifyTimeout(v, c) \/ VerifyNothing(v, c) \/ VerifyFailed(v, c) \/ VerifyOK(v, c)
      PROVE  Walks(v)
  BY <1>1, <1>2 DEF CheckVerifyTimeout, VerifyNothing, VerifyFailed, VerifyOK, Dismiss
<1>3. ASSUME NEW c \in Conn, VerifyFinal(v, c)
      PROVE  UNCHANGED <<phase, tasks, hand, todo>>
  BY <1>3 DEF VerifyFinal
<1> QED  BY <1>2, <1>3 DEF VerifyStep

\* the synchronisation thread,
LEMMA SyncWalks == ASSUME TypeOK, SyncStep PROVE Walks(SyncThread)
<1>0. SyncThread \in Thread \ VerifyThread /\ RecycleThread \in Thread /\ "sync" \in Walking
  BY PoolAssumption DEF Thread, Walking
<1>1. ASSUME NEW c \in Conn, WaitSync(c) PROVE Walks(SyncThread)
  BY <1>0, <1>1, SkipWalks DEF WaitSync
<1>2. ASSUME NEW c \in Conn, SyncFailed(c) \/ AddOkayFailed(c) \/ SyncFinal(c) PROVE Walks(SyncThread)
  BY <1>0, <1>2, HandOverWalks DEF SyncFailed, AddOkayFailed, SyncFinal, Dismiss
<1>3. ASSUME NEW c \in Conn, NEW n \in OkayThread, AddOkay(c, n) \/ StartOkay(c, n) PROVE Walks(SyncThread)
  <2>1. /\ At(SyncThread, "sync", c) /\ Erase(SyncThread, c)
        /\ hand' = [hand EXCEPT ![SyncThread] = {c}] /\ phase' = phase
    BY <1>3 DEF AddOkay, StartOkay, EnterOkay
  <2> QED  BY <1>0, <2>1 DEF At, Erase, Walks, Mine, TypeOK, Walking
<1> QED  BY <1>1, <1>2, <1>3 DEF SyncStep

\* an okay thread,
LEMMA OkayWalks ==
  ASSUME TypeOK, NEW n \in OkayThread, OkayStep(n)
  PROVE  Walks(n) \/ ThreadUp(n)
<1>0. n \in Thread \ VerifyThread /\ RecycleThread \in Thread /\ {"check", "io"} \subseteq Walking
  BY PoolAssumption DEF Thread, Walking
<1>1. ASSUME NEW c \in Conn, NEW walk \in {"check", "io"}, At(n, walk, c), Skip(n, c), UNCHANGED <<hand, phase>>
      PROVE  Walks(n)
  BY <1>0, <1>1, SkipWalks
<1>2. ASSUME NEW c \in Conn, NEW walk \in {"check", "final"}, At(n, walk, c), Dismiss(n, c)
      PROVE  Walks(n)
  BY <1>0, <1>2, HandOverWalks DEF Dismiss
<1>3. ASSUME NEW c \in Conn, CheckSignal(n, c) \/ InputOutput(n, c) \/ OkayFinal(n, c)
      PROVE  Walks(n)
  BY <1>1, <1>2, <1>3 DEF CheckSignal, InputOutput, OkayFinal, LeaveOkay
<1> QED  BY <1>3 DEF OkayStep

\* and the recycle thread.
LEMMA RecycleWalks == ASSUME TypeOK, Ends, RecycleStep PROVE Walks(RecycleThread)
<1>0. /\ RecycleThread \in Thread \ VerifyThread /\ "recycle" \in Walking
      /\ phase[RecycleThread] \in Walking \cup {"down", "top", "final", "exited"}
  BY PoolAssumption DEF Thread, Walking, TypeOK
<1>1. ASSUME NEW c \in Conn, RecycleConn(c) PROVE Walks(RecycleThread)
  BY <1>0, <1>1, SkipWalks DEF RecycleConn
<1>2. ASSUME NEW c \in todo[RecycleThread], Erase(RecycleThread, c), UNCHANGED <<hand, phase>>
      PROVE  Walks(RecycleThread)
  <2>1. phase[RecycleThread] \in Walking \cup {"final"}
    BY <1>0, <1>2 DEF Ends
  <2> QED  BY <1>0, <1>2, <2>1 DEF Erase, Walks, Mine, TypeOK
<1> QED  BY <1>1, <1>2 DEF RecycleStep, RecycleDone, RecycleFreed, RecycleFinal, Reclaim, At

\* A thread that has ended has nothing left, also when it was started twice.
LEMMA EndsNext ==
  ASSUME TypeOK, Contained, Ends, NotStarted, [Next]_vars
  PROVE  Ends'
<1>1. CASE UNCHANGED <<phase, tasks, hand, todo>>
  BY <1>1 DEF Ends
<1>2. ASSUME NEW t \in Thread, Add(t) PROVE Ends'
  BY <1>2 DEF Add, Ends, TypeOK
<1>3. ASSUME NEW t \in Thread, CheckQueue(t) PROVE Ends'
  <2>1. /\ phase'[t] \in Walking
        /\ \A u \in Thread \ {t} : phase'[u] = phase[u] /\ tasks'[u] = tasks[u] /\ todo'[u] = todo[u]
        /\ hand' = hand
    BY <1>3, FirstWalkType DEF CheckQueue, TypeOK
  <2> QED  BY <2>1 DEF Ends, Walking
<1>4. ASSUME NEW t \in Thread, EndWalk(t) PROVE Ends'
  <2>1. /\ phase'[t] \in {"recv", "io", "top"} /\ (phase'[t] = "top" => todo'[t] = {}) /\ hand[t] = {}
        /\ \A u \in Thread \ {t} : phase'[u] = phase[u] /\ todo'[u] = todo[u]
        /\ hand' = hand /\ tasks' = tasks
    BY <1>4 DEF EndWalk, TypeOK
  <2> QED  BY <2>1 DEF Ends
<1>5. ASSUME NEW t \in Thread, LeaveLoop(t) PROVE Ends'
  <2>1. /\ phase \in [Thread -> Walking \cup {"down", "top", "final", "exited"}]
        /\ todo \in [Thread -> SUBSET Conn]
    BY DEF TypeOK
  <2>2. ASSUME tasks[t] # {}
        PROVE  /\ phase' = [phase EXCEPT ![t] = "final"]
               /\ \E S : todo' = [todo EXCEPT ![t] = S] /\ IF t \in VerifyThread THEN S # {} ELSE S = tasks[t]
    <3>1. CASE t \in VerifyThread
      <4>1. PICK c \in tasks[t] : todo' = [todo EXCEPT ![t] = {c}]
        BY <1>5, <2>2, <3>1 DEF LeaveLoop
      <4>2. {c} # {}
        OBVIOUS
      <4> QED  BY <1>5, <2>2, <3>1, <4>1, <4>2 DEF LeaveLoop
    <3>2. CASE t \notin VerifyThread
      BY <1>5, <2>2, <3>2 DEF LeaveLoop
    <3> QED  BY <3>1, <3>2
  <2>3. CASE tasks[t] = {}
    BY <1>5, <2>1, <2>3 DEF LeaveLoop, Ends
  <2>4. CASE tasks[t] # {}
    <3>1. PICK S : todo' = [todo EXCEPT ![t] = S] /\ IF t \in VerifyThread THEN S # {} ELSE S = tasks[t]
      BY <2>4, <2>2
    <3>2. phase'[t] = "final" /\ todo'[t] = S /\ \A u \in Thread \ {t} : phase'[u] = phase[u] /\ todo'[u] = todo[u]
      BY <2>1, <2>4, <2>2, <3>1
    <3>3. hand' = hand /\ tasks' = tasks
      BY <1>5 DEF LeaveLoop
    <3> QED  BY <3>1, <3>2, <3>3 DEF Ends
  <2> QED  BY <2>3, <2>4
<1>6. ASSUME NEW t \in Thread, Exit(t) PROVE Ends'
  <2>1. /\ phase[t] = "final" /\ todo[t] = {} /\ hand[t] = {} /\ phase'[t] = "exited"
        /\ hand' = hand /\ tasks' = tasks /\ todo' = todo
        /\ \A u \in Thread \ {t} : phase'[u] = phase[u]
    BY <1>6 DEF Exit, TypeOK
  <2> QED  BY <2>1 DEF Ends
<1>7. ASSUME NEW n \in OkayThread, ThreadUp(n) PROVE Ends'
  <2>1. n \in Thread
    BY DEF Thread
  <2>2. /\ phase[n] = "down" /\ phase'[n] = "top" /\ hand' = hand /\ tasks' = tasks /\ todo' = todo
        /\ \A u \in Thread \ {n} : phase'[u] = phase[u]
    BY <1>7, <2>1 DEF ThreadUp, TypeOK
  <2> QED  BY <2>1, <2>2 DEF Ends
<1>8. ASSUME NEW t \in Thread, StopThread(t) PROVE Ends'
  <2>1. hand' = hand /\ tasks' = tasks /\ todo' = todo
    BY <1>8 DEF StopThread
  <2>2. CASE t \in OkayThread /\ starts[t] = 0
    <3>1. phase[t] \in {"down", "exited"} /\ phase'[t] = "exited" /\ \A u \in Thread \ {t} : phase'[u] = phase[u]
      BY <1>8, <2>2 DEF StopThread, NotStarted, TypeOK
    <3> QED  BY <2>1, <3>1 DEF Ends
  <2>3. CASE ~(t \in OkayThread /\ starts[t] = 0)
    BY <1>1, <1>8, <2>1, <2>3 DEF StopThread
  <2> QED  BY <2>2, <2>3
<1>9. ASSUME NEW t \in Thread, ThreadStep(t) PROVE Ends'
  <2>1. LoopStep(t) => Ends'
    BY <1>2, <1>3, <1>4, <1>5, <1>6 DEF LoopStep
  <2>2. t \in VerifyThread /\ VerifyStep(t) => Ends'
    BY <1>1, VerifyWalks, WalkEnds
  <2>3. t \in OkayThread /\ OkayStep(t) => Ends'
    BY <1>7, OkayWalks, WalkEnds
  <2>4. t = SyncThread /\ SyncStep => Ends'
    BY SyncWalks, WalkEnds
  <2>5. t = RecycleThread /\ RecycleStep => Ends'
    BY RecycleWalks, WalkEnds
  <2> QED  BY <1>9, <2>1, <2>2, <2>3, <2>4, <2>5 DEF ThreadStep
<1>10. MainStep \/ Outside \/ (\E c \in Conn : Grow(c)) \/ UNCHANGED vars => UNCHANGED <<phase, tasks, hand, todo>>
  BY DEF MainStep, ExecEvery, CheckRecycle, DoCmd, Outside, Accept, TerminateWait, GetTaskByID, AddUser,
         StopTicking, Grow, vars, threadVars
<1> QED  BY <1>1, <1>8, <1>9, <1>10 DEF Next, StopStep

\* Phases change in the head and at the end of a loop only, and in StopThread.
LEMMA PhaseSteps ==
  ASSUME TypeOK, [Next]_vars, NEW t \in Thread
  PROVE  \/ phase'[t] = phase[t]
         \/ phase[t] \in {"top", "final"} \cup Walking /\ phase'[t] # "exited"
         \/ (phase[t] = "top" /\ t \in stop) \/ phase[t] = "final"
         \/ t \in OkayThread /\ phase[t] = "down" /\ starts[t] > 0 /\ phase'[t] = "top"
         \/ t \in OkayThread /\ starts[t] = 0 /\ phase'[t] = "exited"
<1> DEFINE P == \/ phase'[t] = phase[t]
                \/ phase[t] \in {"top", "final"} \cup Walking /\ phase'[t] # "exited"
                \/ (phase[t] = "top" /\ t \in stop) \/ phase[t] = "final"
                \/ t \in OkayThread /\ phase[t] = "down" /\ starts[t] > 0 /\ phase'[t] = "top"
                \/ t \in OkayThread /\ starts[t] = 0 /\ phase'[t] = "exited"
<1> SUFFICES P
  OBVIOUS
<1>0. phase \in [Thread -> Walking \cup {"down", "top", "final", "exited"}] /\ OkayThread \subseteq Thread
  BY DEF TypeOK, Thread
<1>1. ASSUME NEW u \in Thread, LoopStep(u) PROVE P
  BY <1>0, <1>1, FirstWalkType DEF LoopStep, Add, CheckQueue, EndWalk, LeaveLoop, Exit, Walking
<1>2. ASSUME NEW n \in OkayThread, ThreadUp(n) PROVE P
  BY <1>0, <1>2 DEF ThreadUp
<1>3. ASSUME NEW u \in Thread, StopThread(u) PROVE P
  BY <1>0, <1>3 DEF StopThread
<1>4. ASSUME NEW u \in Thread, ThreadStep(u) PROVE P
  <2>1. ASSUME NEW v \in VerifyThread, VerifyStep(v) PROVE phase' = phase
    BY <2>1 DEF VerifyStep, CheckVerifyTimeout, VerifyNothing, VerifyFailed, VerifyOK, VerifyFinal, Dismiss, HandOver
  <2>2. SyncStep => phase' = phase
    BY DEF SyncStep, WaitSync, SyncFailed, AddOkayFailed, SyncFinal, AddOkay, StartOkay, EnterOkay, Dismiss, HandOver
  <2>3. ASSUME NEW n \in OkayThread, NEW c \in Conn, CheckSignal(n, c) \/ InputOutput(n, c) \/ OkayFinal(n, c)
        PROVE  phase' = phase
    BY <2>3 DEF CheckSignal, InputOutput, OkayFinal, LeaveOkay, Dismiss, HandOver
  <2>4. RecycleStep => phase' = phase
    BY DEF RecycleStep, RecycleConn, RecycleDone, RecycleFreed, RecycleFinal, Reclaim
  <2> QED  BY <1>1, <1>2, <1>4, <2>1, <2>2, <2>3, <2>4 DEF ThreadStep, OkayStep
<1>5. MainStep \/ Outside \/ (\E c \in Conn : Grow(c)) \/ UNCHANGED vars => phase' = phase
  BY DEF MainStep, ExecEvery, CheckRecycle, DoCmd, Outside, Accept, TerminateWait, GetTaskByID, AddUser,
         StopTicking, Grow, vars, threadVars
<1> HIDE DEF P
<1>6. phase' = phase => P
  BY DEF P
<1> QED  BY <1>3, <1>4, <1>5, <1>6 DEF Next, StopStep

\* A thread that was never started has not come up.
LEMMA NotStartedNext == ASSUME TypeOK, NotStarted, [Next]_vars PROVE NotStarted'
<1>1. ASSUME NEW n \in OkayThread, starts'[n] = 0 PROVE starts[n] = 0
  <2>1. starts' = starts \/ \E m \in OkayThread : starts' = [starts EXCEPT ![m] = @ + 1]
    BY DEF Next, ThreadStep, LoopStep, Add, CheckQueue, EndWalk, LeaveLoop, Exit,
           VerifyStep, CheckVerifyTimeout, VerifyNothing, VerifyFailed, VerifyOK, VerifyFinal, Dismiss, HandOver,
           SyncStep, WaitSync, SyncFailed, AddOkayFailed, SyncFinal, AddOkay, StartOkay,
           OkayStep, ThreadUp, CheckSignal, InputOutput, OkayFinal, LeaveOkay,
           RecycleStep, RecycleConn, RecycleDone, RecycleFreed, RecycleFinal, Reclaim,
           MainStep, ExecEvery, CheckRecycle, DoCmd, StopStep, StopThread, Outside, Accept, TerminateWait,
           GetTaskByID, AddUser, StopTicking, Grow, vars, threadVars
  <2> QED  BY <1>1, <2>1 DEF TypeOK
<1>2. ASSUME NEW n \in OkayThread, starts'[n] = 0 PROVE phase'[n] \in {"down", "exited"}
  <2>1. phase[n] \in {"down", "exited"} /\ starts[n] = 0 /\ n \in Thread
    BY <1>1, <1>2 DEF NotStarted, Thread
  <2> QED  BY <2>1, PhaseSteps DEF Walking
<1> QED  BY <1>2 DEF NotStarted

\* The recycle thread is stopped last.
LEMMA OrderNext == ASSUME TypeOK, Stopping, Order, [Next]_vars PROVE Order'
<1>0. RecycleThread \in Thread /\ RecycleThread \notin OkayThread
  BY PoolAssumption DEF Thread
<1>1. ASSUME NEW t \in Thread, Exited(t) PROVE phase'[t] = "exited"
  BY <1>1, PhaseSteps DEF Exited, Walking
<1>2. stop' = stop \/ \E t \in Thread : StopThread(t)
  BY DEF Next, ThreadStep, LoopStep, Add, CheckQueue, EndWalk, LeaveLoop, Exit,
         VerifyStep, CheckVerifyTimeout, VerifyNothing, VerifyFailed, VerifyOK, VerifyFinal, Dismiss, HandOver,
         SyncStep, WaitSync, SyncFailed, AddOkayFailed, SyncFinal, AddOkay, StartOkay, EnterOkay,
         OkayStep, ThreadUp, CheckSignal, InputOutput, OkayFinal, LeaveOkay,
         RecycleStep, RecycleConn, RecycleDone, RecycleFreed, RecycleFinal, Reclaim,
         MainStep, ExecEvery, CheckRecycle, DoCmd, StopStep, Outside, Accept, TerminateWait,
         GetTaskByID, AddUser, StopTicking, Grow, vars, threadVars
<1>3. stop \subseteq stop'
  BY <1>2 DEF StopThread
<1>4. ASSUME RecycleThread \in stop', NEW t \in Thread \ {RecycleThread} PROVE phase'[t] = "exited"
  <2>1. CASE RecycleThread \in stop
    BY <1>1, <2>1 DEF Order
  <2>2. CASE RecycleThread \notin stop
    <3>1. StopThread(RecycleThread)
      BY <1>2, <1>4, <2>2 DEF StopThread
    <3>2. Before(RecycleThread) = Thread \ {RecycleThread}
      BY PoolAssumption DEF Before
    <3>3. Exited(t)
      BY <3>1, <3>2 DEF StopThread
    <3> QED  BY <1>1, <3>3
  <2> QED  BY <2>1, <2>2
<1>5. ASSUME phase'[RecycleThread] = "exited" PROVE RecycleThread \in stop'
  <2>1. RecycleThread \in stop
    BY <1>0, <1>5, PhaseSteps DEF Order, Exited, Stopping
  <2> QED  BY <1>3, <2>1
<1> QED  BY <1>4, <1>5 DEF Order, Exited

\* Every task is on its way, until it is deleted.
StillHeld(d) == \E t \in Thread : d \in queue'[t] \cup tasks'[t] \cup hand'[t]

\* Nothing is lost when a task is skipped, handed over or deleted.
LEMMA SkipKeeps ==
  ASSUME UNCHANGED <<queue, tasks, hand>>, NEW d, NEW t \in Thread, d \in Held(t)
  PROVE  StillHeld(d)
BY DEF StillHeld, Held

\* A hand-over keeps every task with some thread,
LEMMA HandOverKeeps ==
  ASSUME TypeOK, NEW u \in Thread, NEW c, Erase(u, c), hand[u] = {}, hand' = [hand EXCEPT ![u] = {c}],
         UNCHANGED queue, NEW d, NEW t \in Thread, d \in Held(t)
  PROVE  StillHeld(d)
<1>1. /\ \A x \in Thread : tasks'[x] = IF x = u THEN tasks[x] \ {c} ELSE tasks[x]
      /\ \A x \in Thread : hand'[x] = IF x = u THEN {c} ELSE hand[x]
      /\ queue' = queue
  BY DEF Erase, TypeOK
<1>2. CASE d = c
  BY <1>1, <1>2 DEF StillHeld
<1>3. CASE d # c
  BY <1>1, <1>3 DEF StillHeld, Held
<1> QED  BY <1>2, <1>3

\* and erasing loses only the task erased.
LEMMA EraseKeeps ==
  ASSUME TypeOK, NEW u \in Thread, NEW c, Erase(u, c), UNCHANGED <<queue, hand>>,
         NEW d, NEW t \in Thread, d \in Held(t)
  PROVE  d = c \/ StillHeld(d)
<1>1. \A x \in Thread : tasks'[x] = IF x = u THEN tasks[x] \ {c} ELSE tasks[x]
  BY DEF Erase, TypeOK
<1> QED  BY <1>1 DEF StillHeld, Held

\* What a step does to a task some thread holds, and to one nobody holds yet.
CoverStep(d) ==
  /\ (\E t \in Thread : d \in Held(t)) => StillHeld(d) \/ state'[d] = "notuse"
  /\ state[d] \in {"none", "notuse"} => StillHeld(d) \/ state'[d] \in {"none", "notuse"}

\* The head of a loop,
LEMMA CoverLoop ==
  ASSUME TypeOK, NEW u \in Thread, LoopStep(u), NEW d \in Conn
  PROVE  CoverStep(d)
<1>0. state' = state
  BY DEF LoopStep, Add, CheckQueue, EndWalk, LeaveLoop, Exit, taskVars
<1>1. ASSUME NEW t \in Thread, d \in Held(t) PROVE StillHeld(d)
  <2>1. CASE Add(u)
    <3>1. /\ dest[u] \in Thread /\ tasks' = tasks
          /\ \A x \in Thread : queue'[x] = IF x = dest[u] THEN queue[x] \cup hand[u] ELSE queue[x]
          /\ \A x \in Thread : hand'[x] = IF x = u THEN {} ELSE hand[x]
      BY <2>1 DEF Add, TypeOK
    <3>2. CASE d \in hand[u]
      BY <3>1, <3>2 DEF StillHeld
    <3>3. CASE d \notin hand[u]
      BY <1>1, <3>1, <3>3 DEF StillHeld, Held
    <3> QED  BY <3>2, <3>3
  <2>2. CASE CheckQueue(u)
    <3>1. /\ hand' = hand
          /\ \A x \in Thread : tasks'[x] = IF x = u THEN tasks[x] \cup queue[x] ELSE tasks[x]
          /\ \A x \in Thread : queue'[x] = IF x = u THEN {} ELSE queue[x]
      BY <2>2 DEF CheckQueue, TypeOK
    <3> QED  BY <1>1, <3>1 DEF StillHeld, Held
  <2>3. CASE EndWalk(u) \/ LeaveLoop(u) \/ Exit(u)
    BY <1>1, <2>3, SkipKeeps DEF EndWalk, LeaveLoop, Exit
  <2> QED  BY <2>1, <2>2, <2>3 DEF LoopStep
<1> QED  BY <1>0, <1>1 DEF CoverStep

\* a verify thread,
LEMMA CoverVerify ==
  ASSUME IInv, NEW v \in VerifyThread, VerifyStep(v), NEW d \in Conn
  PROVE  CoverStep(d)
<1>0. /\ v \in Thread /\ v # RecycleThread /\ StateOf(v) = "verify" /\ RecycleThread \in Thread
      /\ state \in [Conn -> State] /\ TypeOK
  BY PoolAssumption DEF Thread, StateOf, IInv, TypeOK
<1>1. ASSUME NEW c \in Conn, CheckVerifyTimeout(v, c) \/ VerifyNothing(v, c) \/ VerifyFailed(v, c) \/ VerifyOK(v, c)
      PROVE  CoverStep(d)
  <2>1. state[c] = "verify"
    BY <1>0, <1>1, AtState DEF IInv, CheckVerifyTimeout, VerifyNothing, VerifyFailed, VerifyOK
  <2>2. /\ \/ Skip(v, c) /\ UNCHANGED <<queue, hand, state>>
           \/ \E u \in Thread : HandOver(v, c, u) /\ (SetState(c, "recycle") \/ SetState(c, "sync"))
        /\ hand[v] = {}
    BY <1>1, PoolAssumption DEF CheckVerifyTimeout, VerifyNothing, VerifyFailed, VerifyOK, Dismiss, At, taskVars, Thread
  <2>3. ASSUME NEW t \in Thread, d \in Held(t) PROVE StillHeld(d)
    BY <1>0, <2>2, <2>3, SkipKeeps, HandOverKeeps DEF Skip, HandOver
  <2>4. state[d] \in {"none", "notuse"} => state'[d] = state[d]
    BY <1>0, <2>1, <2>2 DEF SetState
  <2> QED  BY <2>3, <2>4 DEF CoverStep
<1>2. ASSUME NEW c \in Conn, VerifyFinal(v, c)
      PROVE  CoverStep(d)
  <2>1. c \in Stuck
    BY <1>2 DEF VerifyFinal, At, Stuck
  <2>2. state[c] \in {"verify", "recycle", "notuse"}
    BY <2>1, Placed DEF IInv
  <2>3. /\ tasks' = tasks /\ hand' = hand /\ \A x \in Thread : queue[x] \subseteq queue'[x]
        /\ state' = [state EXCEPT ![c] = IF @ = "notuse" THEN @ ELSE "recycle"]
    BY <1>0, <1>2 DEF VerifyFinal, TypeOK
  <2> QED  BY <1>0, <2>2, <2>3 DEF CoverStep, StillHeld, Held
<1> QED  BY <1>1, <1>2 DEF VerifyStep

\* the synchronisation thread,
LEMMA CoverSync ==
  ASSUME IInv, SyncStep, NEW d \in Conn
  PROVE  CoverStep(d)
<1>0. /\ SyncThread \in Thread \ VerifyThread /\ SyncThread # RecycleThread /\ StateOf(SyncThread) = "sync"
      /\ state \in [Conn -> State] /\ TypeOK
  BY PoolAssumption DEF Thread, StateOf, IInv, TypeOK
<1>1. PICK c \in Conn : \/ WaitSync(c) \/ SyncFailed(c) \/ AddOkayFailed(c) \/ SyncFinal(c)
                        \/ \E n \in OkayThread : AddOkay(c, n) \/ StartOkay(c, n)
  BY DEF SyncStep
<1>2. state[c] = "sync" /\ hand[SyncThread] = {}
  BY <1>0, <1>1, AtState
  DEF IInv, WaitSync, SyncFailed, AddOkayFailed, SyncFinal, AddOkay, StartOkay, At
<1>3. /\ \/ Skip(SyncThread, c) /\ UNCHANGED hand
         \/ Erase(SyncThread, c) /\ hand' = [hand EXCEPT ![SyncThread] = {c}]
      /\ UNCHANGED queue
      /\ UNCHANGED state \/ SetState(c, "recycle") \/ SetState(c, "okay")
  BY <1>1 DEF WaitSync, SyncFailed, AddOkayFailed, SyncFinal, AddOkay, StartOkay, EnterOkay,
              Dismiss, HandOver, taskVars
<1>4. ASSUME NEW t \in Thread, d \in Held(t) PROVE StillHeld(d)
  BY <1>0, <1>2, <1>3, <1>4, SkipKeeps, HandOverKeeps DEF Skip
<1>5. state[d] \in {"none", "notuse"} => state'[d] = state[d]
  BY <1>0, <1>2, <1>3 DEF SetState
<1> QED  BY <1>4, <1>5 DEF CoverStep

\* an okay thread,
LEMMA CoverOkay ==
  ASSUME IInv, NEW n \in OkayThread, OkayStep(n), NEW d \in Conn
  PROVE  CoverStep(d)
<1>0. /\ n \in Thread \ VerifyThread /\ n # RecycleThread /\ StateOf(n) = "okay"
      /\ state \in [Conn -> State] /\ TypeOK
  BY PoolAssumption DEF Thread, StateOf, IInv, TypeOK
<1>1. CASE ThreadUp(n)
  BY <1>1, SkipKeeps DEF ThreadUp, taskVars, CoverStep
<1>2. ASSUME NEW c \in Conn, CheckSignal(n, c) \/ InputOutput(n, c) \/ OkayFinal(n, c)
      PROVE  CoverStep(d)
  <2>1. state[c] = "okay" /\ hand[n] = {}
    BY <1>0, <1>2, AtState DEF IInv, CheckSignal, InputOutput, OkayFinal, At
  <2>2. /\ \/ Skip(n, c) /\ UNCHANGED <<hand, state>>
           \/ Erase(n, c) /\ hand' = [hand EXCEPT ![n] = {c}] /\ SetState(c, "recycle")
        /\ UNCHANGED queue
    BY <1>2 DEF CheckSignal, InputOutput, OkayFinal, LeaveOkay, Dismiss, HandOver, taskVars
  <2>3. ASSUME NEW t \in Thread, d \in Held(t) PROVE StillHeld(d)
    BY <1>0, <2>1, <2>2, <2>3, SkipKeeps, HandOverKeeps DEF Skip
  <2>4. state[d] \in {"none", "notuse"} => state'[d] = state[d]
    BY <1>0, <2>1, <2>2 DEF SetState
  <2> QED  BY <2>3, <2>4 DEF CoverStep
<1> QED  BY <1>1, <1>2 DEF OkayStep

\* and the recycle thread lose no task but the one they delete.
LEMMA CoverRecycle ==
  ASSUME IInv, RecycleStep, NEW d \in Conn
  PROVE  CoverStep(d)
<1>0. RecycleThread \in Thread /\ state \in [Conn -> State] /\ TypeOK
  BY DEF Thread, IInv, TypeOK
<1>1. ASSUME NEW c \in Conn, RecycleConn(c)
      PROVE  CoverStep(d)
  BY <1>1, SkipKeeps DEF RecycleConn, Skip, CoverStep
<1>2. ASSUME NEW c \in Conn, Erase(RecycleThread, c), UNCHANGED <<queue, hand>>, state'[c] = "notuse",
             \A b \in Conn \ {c} : state'[b] = state[b]
      PROVE  CoverStep(d)
  BY <1>0, <1>2, EraseKeeps DEF CoverStep
<1>3. ASSUME NEW c \in Conn, Reclaim(c)
      PROVE  CoverStep(d)
  BY <1>0, <1>2, <1>3 DEF Reclaim, SetState
<1>4. ASSUME NEW c \in Conn, RecycleFreed(c)
      PROVE  CoverStep(d)
  BY <1>2, <1>4 DEF RecycleFreed, taskVars
<1> QED  BY <1>1, <1>3, <1>4 DEF RecycleStep, RecycleDone, RecycleFinal

\* Covered is inductive, given the invariant.
LEMMA CoveredNext == ASSUME IInv, Covered, [Next]_vars PROVE Covered'
<1> SUFFICES ASSUME NEW d \in Conn PROVE state'[d] \in {"none", "notuse"} \/ StillHeld(d)
  BY DEF Covered, StillHeld, Held
<1>1. CoverStep(d) => state'[d] \in {"none", "notuse"} \/ StillHeld(d)
  BY DEF CoverStep, Covered
<1>2. ASSUME UNCHANGED <<state, queue, tasks, hand>> PROVE CoverStep(d)
  BY <1>2, SkipKeeps DEF CoverStep
<1>3. ASSUME NEW t \in Thread, ThreadStep(t) PROVE CoverStep(d)
  BY <1>3, CoverLoop, CoverVerify, CoverSync, CoverOkay, CoverRecycle DEF ThreadStep, IInv
<1>4. ASSUME NEW c \in Conn, NEW v \in VerifyThread, Accept(c, v) PROVE CoverStep(d)
  <2>1. /\ v \in Thread /\ tasks' = tasks /\ hand' = hand /\ (\A x \in Thread : queue[x] \subseteq queue'[x])
        /\ c \in queue'[v] /\ state' = [state EXCEPT ![c] = "verify"]
    BY <1>4 DEF Accept, SetState, IInv, TypeOK, Thread
  <2>2. d # c => state'[d] = state[d]
    BY <2>1 DEF IInv, TypeOK
  <2> QED  BY <2>1, <2>2 DEF CoverStep, StillHeld, Held
<1>5. MainStep \/ StopStep \/ (\E c \in Conn : TerminateWait(c) \/ Grow(c)) \/ (\E k \in ServerID : GetTaskByID(k))
        \/ AddUser \/ StopTicking \/ UNCHANGED vars
        => UNCHANGED <<state, queue, tasks, hand>>
  BY DEF MainStep, ExecEvery, CheckRecycle, DoCmd, StopStep, StopThread, TerminateWait, Grow, GetTaskByID,
         AddUser, StopTicking, vars, taskVars, threadVars
<1> QED  BY <1>1, <1>2, <1>3, <1>4, <1>5 DEF Next, Outside

\* When final returns, a task that was not deleted lies in an inbox that no
\* thread read again: every list and every hand is empty by then.
THEOREM Shutdown == Spec => []LeftInInboxes
<1> DEFINE Inv == IInv /\ Stopping /\ Ends /\ NotStarted /\ Order /\ Covered
<1>1. Init => Inv
  BY TypeInit, PlacementInit, PoolAssumption
  DEF IInv, Init, Stopping, Ends, NotStarted, Order, Exited, Covered, Thread
<1>2. Inv /\ [Next]_vars => Inv'
  BY TypeNext, PlacementNext, StoppingNext, EndsNext, NotStartedNext, OrderNext, CoveredNext DEF IInv, Placement
<1>3. Inv => LeftInInboxes
  <2> SUFFICES ASSUME Inv, Exited(RecycleThread), NEW c \in Conn, state[c] \notin {"none", "notuse"}
               PROVE  \E t \in Thread : c \in queue[t]
    BY DEF LeftInInboxes
  <2>1. PICK t \in Thread : c \in Held(t)
    BY DEF Covered
  <2>2. Exited(t)
    BY DEF Order
  <2> QED  BY <2>1, <2>2 DEF Ends, Exited, Held
<1> QED  BY <1>1, <1>2, <1>3, PTL DEF Spec

(***************************************************************************)
(* The load of the okay threads.  Only the sync thread gives a connection   *)
(* to an okay thread, one at a time, and the one in its hand is counted     *)
(* nowhere; so the room a thread needs includes the one that is coming.     *)
(***************************************************************************)
Coming(n) == hand[SyncThread] # {} /\ dest[SyncThread] = n

Loaded ==
  \A n \in OkayThread :
    /\ IsFiniteSet(queue[n]) /\ IsFiniteSet(tasks[n])
    /\ starts[n] = 0 => queue[n] = {} /\ tasks[n] = {} /\ ~Coming(n)
    /\ \/ starts[n] > 1
       \/ size(n) <= connPerThread /\ (Coming(n) => size(n) < connPerThread)

OneGiver == /\ \A t \in Thread : dest[t] \in OkayThread => t = SyncThread
            /\ \E c : hand[SyncThread] \subseteq {c}

\* Only the synchronisation thread hands tasks to okay threads.
LEMMA OneGiverNext == ASSUME TypeOK, OneGiver, [Next]_vars PROVE OneGiver'
<1>0. /\ dest \in [Thread -> Thread] /\ hand \in [Thread -> SUBSET Conn]
      /\ SyncThread \in Thread \ OkayThread /\ RecycleThread \in Thread \ OkayThread
      /\ VerifyThread \subseteq Thread \ (OkayThread \cup {SyncThread}) /\ OkayThread \subseteq Thread
      /\ RecycleThread # SyncThread
  BY PoolAssumption DEF TypeOK, Thread
<1>1. CASE UNCHANGED <<hand, dest>>
  BY <1>1 DEF OneGiver
<1>2. ASSUME NEW t \in Thread, NEW c, NEW u \in {SyncThread, RecycleThread}, HandOver(t, c, u) PROVE OneGiver'
  BY <1>0, <1>2 DEF HandOver, OneGiver
<1>3. ASSUME NEW c \in Conn, NEW n \in OkayThread, EnterOkay(c, n) PROVE OneGiver'
  <2>1. hand' = [hand EXCEPT ![SyncThread] = {c}] /\ dest' = [dest EXCEPT ![SyncThread] = n]
    BY <1>3 DEF EnterOkay
  <2> QED  BY <1>0, <2>1 DEF OneGiver
<1>4. ASSUME NEW t \in Thread, Add(t) PROVE OneGiver'
  <2>1. hand' = [hand EXCEPT ![t] = {}] /\ dest' = [dest EXCEPT ![t] = RecycleThread]
    BY <1>4 DEF Add
  <2>2. hand'[SyncThread] \subseteq hand[SyncThread]
    BY <1>0, <2>1
  <2> QED  BY <1>0, <2>1, <2>2 DEF OneGiver
<1>5. ASSUME NEW v \in VerifyThread, VerifyStep(v) PROVE OneGiver'
  BY <1>0, <1>1, <1>2, <1>5 DEF VerifyStep, CheckVerifyTimeout, VerifyNothing, VerifyFailed, VerifyOK, VerifyFinal, Dismiss
<1>6. ASSUME SyncStep PROVE OneGiver'
  BY <1>0, <1>1, <1>2, <1>3, <1>6 DEF SyncStep, WaitSync, SyncFailed, AddOkayFailed, SyncFinal, AddOkay, StartOkay, Dismiss
<1>7. ASSUME NEW n \in OkayThread, OkayStep(n) PROVE OneGiver'
  BY <1>0, <1>1, <1>2, <1>7 DEF OkayStep, ThreadUp, CheckSignal, InputOutput, OkayFinal, LeaveOkay, Dismiss
<1>8. ASSUME NEW t \in Thread, ThreadStep(t) PROVE OneGiver'
  BY <1>1, <1>4, <1>5, <1>6, <1>7, <1>8
  DEF ThreadStep, LoopStep, CheckQueue, EndWalk, LeaveLoop, Exit,
      RecycleStep, RecycleConn, RecycleDone, RecycleFreed, RecycleFinal, Reclaim
<1>9. MainStep \/ StopStep \/ Outside \/ (\E c \in Conn : Grow(c)) \/ UNCHANGED vars => UNCHANGED <<hand, dest>>
  BY DEF MainStep, ExecEvery, CheckRecycle, DoCmd, StopStep, StopThread, Outside, Accept, TerminateWait,
         GetTaskByID, AddUser, StopTicking, Grow, vars, threadVars
<1> QED  BY <1>1, <1>8, <1>9 DEF Next

\* What a step may do to the load of an okay thread.
Shrinks(n)  == /\ queue'[n] \subseteq queue[n] /\ tasks'[n] \subseteq tasks[n] /\ starts'[n] = starts[n]
               /\ hand'[SyncThread] # {} /\ dest'[SyncThread] = n => Coming(n)
Takes(n)    == /\ queue'[n] = {} /\ tasks'[n] = tasks[n] \cup queue[n] /\ starts'[n] = starts[n]
               /\ UNCHANGED <<hand, dest>>
Receives(n) == /\ Coming(n) /\ queue'[n] = queue[n] \cup hand[SyncThread] /\ tasks'[n] = tasks[n]
               /\ starts'[n] = starts[n] /\ hand'[SyncThread] = {}
Expects(n)  == /\ queue'[n] = queue[n] /\ tasks'[n] = tasks[n] /\ starts'[n] = starts[n]
               /\ starts[n] # 0 /\ size(n) < connPerThread
Restarts(n) == queue'[n] = queue[n] /\ tasks'[n] = tasks[n] /\ starts'[n] = starts[n] + 1

LoadStep(n) == Shrinks(n) \/ Takes(n) \/ Receives(n) \/ Expects(n) \/ Restarts(n)

\* What may happen to the load of an okay thread in one step.
LEMMA LoadSteps ==
  ASSUME TypeOK, OneGiver, NotStarted, [Next]_vars, NEW n \in OkayThread
  PROVE  LoadStep(n)
<1>0. /\ dest \in [Thread -> Thread] /\ hand \in [Thread -> SUBSET Conn]
      /\ queue \in [Thread -> SUBSET Conn] /\ tasks \in [Thread -> SUBSET Conn] /\ starts \in [OkayThread -> Nat]
      /\ SyncThread \in Thread \ OkayThread /\ RecycleThread \in Thread \ OkayThread
      /\ VerifyThread \subseteq Thread \ (OkayThread \cup {SyncThread, RecycleThread}) /\ n \in Thread
      /\ RecycleThread # SyncThread
  BY PoolAssumption DEF TypeOK, Thread
<1>1. ASSUME queue'[n] = queue[n], tasks'[n] \subseteq tasks[n], starts' = starts,
             hand'[SyncThread] = hand[SyncThread] \/ hand'[SyncThread] = {} \/ dest'[SyncThread] # n,
             dest'[SyncThread] = dest[SyncThread] \/ dest'[SyncThread] # n
      PROVE  LoadStep(n)
  BY <1>1 DEF LoadStep, Shrinks, Coming
<1>2. ASSUME NEW t \in Thread, NEW c, NEW u \in {SyncThread, RecycleThread}, HandOver(t, c, u) PROVE LoadStep(n)
  <2>1. /\ queue' = queue /\ starts' = starts /\ tasks'[n] \subseteq tasks[n]
        /\ hand' = [hand EXCEPT ![t] = {c}] /\ dest' = [dest EXCEPT ![t] = u]
    BY <1>0, <1>2 DEF HandOver, Erase
  <2> QED  BY <1>0, <1>1, <2>1
<1>3. ASSUME NEW c \in Conn, NEW m \in OkayThread, EnterOkay(c, m),
             \/ m \in pmin /\ starts' = starts
             \/ starts' = [starts EXCEPT ![m] = @ + 1]
      PROVE  LoadStep(n)
  <2>1. /\ queue' = queue /\ tasks'[n] = tasks[n] /\ dest'[SyncThread] = m
    BY <1>0, <1>3 DEF EnterOkay, Erase
  <2>2. CASE m # n
    BY <1>0, <1>3, <2>1, <2>2 DEF LoadStep, Shrinks
  <2>3. CASE m = n /\ m \in pmin /\ starts' = starts
    <3>1. size(n) < connPerThread /\ isAlive(n)
      BY <2>3, PoolAssumption DEF pmin, Running, OkayThread
    <3>2. starts[n] # 0
      BY <3>1 DEF NotStarted, isAlive
    <3> QED  BY <2>1, <2>3, <3>1, <3>2 DEF LoadStep, Expects
  <2>4. CASE m = n /\ starts' = [starts EXCEPT ![m] = @ + 1]
    BY <1>0, <2>1, <2>4 DEF LoadStep, Restarts
  <2> QED  BY <1>3, <2>2, <2>3, <2>4
<1>4. ASSUME NEW t \in Thread, Add(t) PROVE LoadStep(n)
  <2>1. /\ hand' = [hand EXCEPT ![t] = {}] /\ dest' = [dest EXCEPT ![t] = RecycleThread] /\ hand[t] # {}
        /\ queue' = [queue EXCEPT ![dest[t]] = @ \cup hand[t]] /\ tasks' = tasks /\ starts' = starts
    BY <1>4 DEF Add
  <2>2. CASE dest[t] = n
    <3>1. t = SyncThread
      BY <2>2 DEF OneGiver
    <3> QED  BY <1>0, <2>1, <2>2, <3>1 DEF LoadStep, Receives, Coming
  <2>3. CASE dest[t] # n
    BY <1>0, <1>1, <2>1, <2>3
  <2> QED  BY <2>2, <2>3
<1>5. ASSUME NEW t \in Thread, CheckQueue(t) PROVE LoadStep(n)
  <2>1. /\ hand' = hand /\ dest' = dest /\ starts' = starts
        /\ tasks' = [tasks EXCEPT ![t] = @ \cup queue[t]] /\ queue' = [queue EXCEPT ![t] = {}]
    BY <1>5 DEF CheckQueue
  <2>2. CASE t = n
    BY <1>0, <2>1, <2>2 DEF LoadStep, Takes
  <2>3. CASE t # n
    BY <1>0, <1>1, <2>1, <2>3
  <2> QED  BY <2>2, <2>3
<1>6. ASSUME UNCHANGED <<queue, tasks, starts, hand, dest>> PROVE LoadStep(n)
  BY <1>1, <1>6
<1>7. ASSUME NEW v \in VerifyThread, VerifyStep(v) PROVE LoadStep(n)
  <2>1. ASSUME NEW c \in Conn, VerifyFinal(v, c) PROVE LoadStep(n)
    BY <1>0, <1>1, <2>1 DEF VerifyFinal
  <2> QED  BY <1>0, <1>2, <1>6, <1>7, <2>1
           DEF VerifyStep, CheckVerifyTimeout, VerifyNothing, VerifyFailed, VerifyOK, Dismiss, Skip
<1>8. ASSUME SyncStep PROVE LoadStep(n)
  BY <1>0, <1>2, <1>3, <1>6, <1>8
  DEF SyncStep, WaitSync, SyncFailed, AddOkayFailed, SyncFinal, AddOkay, StartOkay, Dismiss, Skip
<1>9. ASSUME NEW m \in OkayThread, OkayStep(m) PROVE LoadStep(n)
  <2>1. m \in Thread
    BY DEF Thread
  <2> QED  BY <1>0, <1>2, <1>6, <1>9, <2>1
           DEF OkayStep, ThreadUp, CheckSignal, InputOutput, OkayFinal, LeaveOkay, Dismiss, Skip
<1>10. ASSUME RecycleStep PROVE LoadStep(n)
  <2>1. queue' = queue /\ hand' = hand /\ dest' = dest /\ starts' = starts
    BY <1>10 DEF RecycleStep, RecycleConn, RecycleDone, RecycleFreed, RecycleFinal, Reclaim
  <2>2. tasks'[n] \subseteq tasks[n]
    BY <1>0, <1>10 DEF RecycleStep, RecycleConn, RecycleDone, RecycleFreed, RecycleFinal, Reclaim, Skip, Erase
  <2> QED  BY <1>1, <2>1, <2>2
<1>11. ASSUME NEW t \in Thread, ThreadStep(t) PROVE LoadStep(n)
  <2>1. EndWalk(t) \/ LeaveLoop(t) \/ Exit(t) => UNCHANGED <<queue, tasks, starts, hand, dest>>
    BY DEF EndWalk, LeaveLoop, Exit
  <2> QED  BY <1>4, <1>5, <1>6, <1>7, <1>8, <1>9, <1>10, <1>11, <2>1 DEF ThreadStep, LoopStep
<1>12. ASSUME NEW c \in Conn, NEW v \in VerifyThread, Accept(c, v) PROVE LoadStep(n)
  BY <1>0, <1>1, <1>12 DEF Accept
<1>13. MainStep \/ StopStep \/ (\E c \in Conn : TerminateWait(c) \/ Grow(c)) \/ (\E k \in ServerID : GetTaskByID(k))
         \/ AddUser \/ StopTicking \/ UNCHANGED vars => UNCHANGED <<queue, tasks, starts, hand, dest>>
  BY DEF MainStep, ExecEvery, CheckRecycle, DoCmd, StopStep, StopThread, TerminateWait,
         GetTaskByID, AddUser, StopTicking, Grow, vars, threadVars
<1> QED  BY <1>6, <1>11, <1>12, <1>13 DEF Next, Outside

\* Sizes are numbers, and a smaller set has no more members.
LEMMA Smaller ==
  ASSUME NEW A, NEW B, IsFiniteSet(B), A \subseteq B
  PROVE  IsFiniteSet(A) /\ Cardinality(A) \in Nat /\ Cardinality(B) \in Nat /\ Cardinality(A) <= Cardinality(B)
BY FS_Subset, FS_CardinalityType

\* Loaded is inductive.
LEMMA LoadedNext == ASSUME TypeOK, OneGiver, NotStarted, Loaded, [Next]_vars PROVE Loaded'
<1> SUFFICES ASSUME NEW n \in OkayThread
             PROVE  /\ IsFiniteSet(queue'[n]) /\ IsFiniteSet(tasks'[n])
                    /\ starts'[n] = 0 => /\ queue'[n] = {} /\ tasks'[n] = {}
                                         /\ ~(hand'[SyncThread] # {} /\ dest'[SyncThread] = n)
                    /\ \/ starts'[n] > 1
                       \/ /\ Cardinality(queue'[n]) + Cardinality(tasks'[n]) <= connPerThread
                          /\ hand'[SyncThread] # {} /\ dest'[SyncThread] = n
                             => Cardinality(queue'[n]) + Cardinality(tasks'[n]) < connPerThread
  BY DEF Loaded, size, Coming
<1>1. /\ IsFiniteSet(queue[n]) /\ IsFiniteSet(tasks[n])
      /\ starts[n] = 0 => queue[n] = {} /\ tasks[n] = {} /\ ~Coming(n)
      /\ \/ starts[n] > 1
         \/ /\ Cardinality(queue[n]) + Cardinality(tasks[n]) <= connPerThread
            /\ Coming(n) => Cardinality(queue[n]) + Cardinality(tasks[n]) < connPerThread
  BY DEF Loaded, size
<1>2. /\ Cardinality(queue[n]) \in Nat /\ Cardinality(tasks[n]) \in Nat /\ connPerThread \in Nat \ {0}
      /\ starts[n] \in Nat
  BY <1>1, FS_CardinalityType, PoolAssumption DEF TypeOK
<1>3. CASE Shrinks(n)
  <2>1. /\ IsFiniteSet(queue'[n]) /\ Cardinality(queue'[n]) \in Nat /\ Cardinality(queue'[n]) <= Cardinality(queue[n])
        /\ IsFiniteSet(tasks'[n]) /\ Cardinality(tasks'[n]) \in Nat /\ Cardinality(tasks'[n]) <= Cardinality(tasks[n])
    BY <1>1, <1>3, Smaller DEF Shrinks
  <2> QED  BY <1>1, <1>2, <1>3, <2>1 DEF Shrinks
<1>4. CASE Takes(n)
  <2>1. /\ IsFiniteSet(tasks[n] \cup queue[n])
        /\ Cardinality(tasks[n] \cup queue[n]) = Cardinality(tasks[n]) + Cardinality(queue[n]) - Cardinality(tasks[n] \cap queue[n])
        /\ IsFiniteSet(tasks[n] \cap queue[n])
    BY <1>1, FS_Union, FS_Intersection
  <2>2. Cardinality(tasks[n] \cap queue[n]) \in Nat /\ Cardinality(tasks[n] \cup queue[n]) \in Nat
    BY <2>1, FS_CardinalityType
  <2>3. IsFiniteSet({}) /\ Cardinality({}) = 0
    BY FS_EmptySet
  <2>4. queue'[n] = {} /\ tasks'[n] = tasks[n] \cup queue[n] /\ starts'[n] = starts[n] /\ hand' = hand /\ dest' = dest
    BY <1>4 DEF Takes
  <2>5. Cardinality(queue'[n]) + Cardinality(tasks'[n]) <= Cardinality(queue[n]) + Cardinality(tasks[n])
    BY <1>2, <2>1, <2>2, <2>3, <2>4
  <2>6. Cardinality(queue'[n]) \in Nat /\ Cardinality(tasks'[n]) \in Nat /\ IsFiniteSet(queue'[n]) /\ IsFiniteSet(tasks'[n])
    BY <2>1, <2>2, <2>3, <2>4
  <2> QED  BY <1>1, <1>2, <2>4, <2>5, <2>6 DEF Coming
<1>5. CASE Receives(n)
  <2>1. PICK c : hand[SyncThread] = {c}
    <3>1. PICK c : hand[SyncThread] \subseteq {c}
      BY DEF OneGiver
    <3> QED  BY <1>5, <3>1 DEF Receives, Coming
  <2>2. queue'[n] = queue[n] \cup {c} /\ tasks'[n] = tasks[n] /\ starts'[n] = starts[n] /\ hand'[SyncThread] = {} /\ Coming(n)
    BY <1>5, <2>1 DEF Receives
  <2>3. IsFiniteSet(queue'[n]) /\ Cardinality(queue'[n]) \in Nat /\ Cardinality(queue'[n]) <= Cardinality(queue[n]) + 1
    BY <1>1, <1>2, <2>2, FS_AddElement, FS_CardinalityType
  <2> QED  BY <1>1, <1>2, <2>2, <2>3
<1>6. CASE Expects(n)
  BY <1>1, <1>2, <1>6 DEF Expects, size
<1>7. CASE Restarts(n)
  <2>1. CASE starts[n] = 0
    <3>1. Cardinality(queue[n]) = 0 /\ Cardinality(tasks[n]) = 0
      BY <1>1, <2>1, FS_EmptySet
    <3> QED  BY <1>1, <1>2, <1>7, <2>1, <3>1 DEF Restarts
  <2>2. CASE starts[n] # 0
    BY <1>1, <1>2, <1>7, <2>2 DEF Restarts
  <2> QED  BY <2>1, <2>2
<1> QED  BY <1>3, <1>4, <1>5, <1>6, <1>7, LoadSteps DEF LoadStep

\* An okay thread serves more connections than connPerThread only if addOkay
\* started it twice: the choice of the thread and the handing over are two
\* steps, and the connection in between is in no list that size counts.
THEOREM NoOverload == Spec => []OverloadOnlyByRestart
<1> DEFINE Inv == TypeOK /\ OneGiver /\ NotStarted /\ Loaded
<1>1. Init => Inv
  <2> SUFFICES ASSUME Init PROVE Inv
    OBVIOUS
  <2>1. TypeOK /\ NotStarted
    BY TypeInit DEF Init, NotStarted, Thread
  <2>2. OneGiver
    BY PoolAssumption DEF Init, OneGiver, Thread
  <2>3. \A n \in OkayThread : queue[n] = {} /\ tasks[n] = {} /\ hand[SyncThread] = {}
    BY DEF Init, Thread
  <2>4. IsFiniteSet({}) /\ Cardinality({}) = 0
    BY FS_EmptySet
  <2>5. \A n \in OkayThread : size(n) = 0
    BY <2>3, <2>4 DEF size
  <2>6. Loaded
    BY <2>3, <2>4, <2>5, PoolAssumption DEF Loaded, Coming
  <2> QED  BY <2>1, <2>2, <2>6
<1>2. Inv /\ [Next]_vars => Inv'
  BY TypeNext, OneGiverNext, NotStartedNext, LoadedNext
<1>3. Inv => OverloadOnlyByRestart
  BY DEF Loaded, OverloadOnlyByRestart
<1> QED  BY <1>1, <1>2, <1>3, PTL DEF Spec
=============================================================================
