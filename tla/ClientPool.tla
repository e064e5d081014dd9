----------------------------- MODULE ClientPool -----------------------------
(***************************************************************************)
(* The pool that keeps a server's outgoing connections up                  *)
(* (zTCPClientTaskPool, zTCPClientTask): to the login server, the billing  *)
(* platform, the info server, the scene servers.                           *)
(*                                                                         *)
(* The timer connects a closed task, adds it to the wait thread and calls   *)
(* its getNextState; the wait thread, once the other end has answered, adds  *)
(* it to a main thread and calls getNextState; a main thread whose task was  *)
(* terminated erases it and calls getNextState; and the timer closes it      *)
(* again.  A task is added elsewhere BEFORE its state changes and            *)
(* getNextState takes no lock, so the calls of different threads may         *)
(* overlap: a call reads the state, works on the container, then sets the     *)
(* state.                                                                    *)
(***************************************************************************)
EXTENDS Integers, SequencesExt

CONSTANTS
  Conn,           \* the tasks put into the pool at start-up
  Timer, Wait,    \* zCheckconnectThread and zCheckwaitThread
  MaxMain,        \* bound: main threads that can be started
  connPerThread,  \* connections a main thread may serve
  GarbageEvents   \* what a read before the first descriptor may return

Main == 1 .. MaxMain
Thread == {Timer, Wait} \cup Main

ASSUME ClientPoolAssumption ==
  /\ MaxMain \in Nat \ {0} /\ connPerThread \in Nat \ {0}
  /\ Timer \notin Main /\ Wait \notin Main \cup {Timer}
  /\ GarbageEvents \in SUBSET {"none", "input", "error"}

VARIABLES
  state,      \* zTCPClientTask::state
  aged,       \* tasks whose lifeTime is 4 s ago or more
  sock,       \* pSocket: "null", or what the connection has to say
  terminate,  \* tasks told to Terminate
  container,  \* tasks between addToContainer and removeFromContainer
  inbox,      \* the locked queue of a thread
  waiting,    \* the wait thread's tasks, in order
  pfds,       \* its descriptors: whose socket, and the events WaitRecvAll saw
  it, i,      \* its walk: place in waiting (0 when there is none), index in pfds
  serving,    \* the main threads' tasks
  running,    \* main threads started
  hand, pc, old   \* getNextState: the task, how far the call is, the state read

connVars == <<state, aged, sock, terminate, container>>
waitVars == <<waiting, pfds, it, i>>
callVars == <<hand, pc, old>>
vars == <<connVars, inbox, waitVars, serving, running, callVars>>

State == {"close", "sync", "okay", "recycle"}
Socket == {"null", "open", "answered", "refused", "broken"}
Event == {"none", "input", "error"}

TypeOK ==
  /\ state \in [Conn -> State]
  /\ aged \subseteq Conn /\ terminate \subseteq Conn /\ container \subseteq Conn
  /\ sock \in [Conn -> Socket]
  /\ inbox \in [Thread -> Seq(Conn)]
  /\ waiting \in Seq(Conn)
  /\ pfds \in Seq([of : Conn, revents : Event]) /\ Len(pfds) = Len(waiting)
  /\ it \in 0 .. Len(waiting) + 1 /\ i \in Int /\ i < it
  /\ serving \in [Main -> SUBSET Conn]
  /\ running \in Main
  /\ hand \in [Thread -> SUBSET Conn]
  /\ pc \in [Thread -> {"idle", "add", "call", "effect", "set"}]
  /\ old \in [Thread -> State]

\* init starts the timer, the wait thread and one main thread; put has filled
\* the pool with closed tasks.
Init ==
  /\ state = [c \in Conn |-> "close"]
  /\ aged = {} /\ terminate = {} /\ container = {}
  /\ sock = [c \in Conn |-> "null"]
  /\ inbox = [t \in Thread |-> <<>>]
  /\ waiting = <<>> /\ pfds = <<>> /\ it = 0 /\ i = -1
  /\ serving = [n \in Main |-> {}]
  /\ running = 1
  /\ hand = [t \in Thread |-> {}]
  /\ pc = [t \in Thread |-> "idle"]
  /\ old = [t \in Thread |-> "close"]

(***************************************************************************)
(* getNextState, by any thread, and resetState, by the wait thread.        *)
(***************************************************************************)
\* The thread is about to do `first' with c: add it, or call its getNextState.
Take(t, c, first) == /\ hand' = [hand EXCEPT ![t] = {c}]
                     /\ pc' = [pc EXCEPT ![t] = first]
                     /\ UNCHANGED old

\* getState and lifeTime.now().  Only from sync and okay is anything called
\* before the state is set: nobody terminates with TM_service_close, which
\* recycleConn is for.
GetState(t, c) ==
  /\ pc[t] = "call" /\ c \in hand[t]
  /\ old' = [old EXCEPT ![t] = state[c]]
  /\ pc' = [pc EXCEPT ![t] = IF state[c] \in {"sync", "okay"} THEN "effect" ELSE "set"]
  /\ aged' = aged \ {c}
  /\ UNCHANGED <<state, sock, terminate, container, inbox, waitVars, serving, running, hand>>

\* Seeded fault: addToContainer is not called.
OutOnly(t, c) ==
  /\ pc[t] = "effect" /\ c \in hand[t]
  /\ container' = IF old[t] = "sync" THEN container ELSE container \ {c}
  /\ pc' = [pc EXCEPT ![t] = "set"]
  /\ UNCHANGED <<state, aged, sock, terminate, inbox, waitVars, serving, running, hand, old>>

\* addToContainer or removeFromContainer
InOrOut(t, c) ==
  /\ pc[t] = "effect" /\ c \in hand[t]
  /\ container' = IF old[t] = "sync" THEN container \cup {c} ELSE container \ {c}
  /\ pc' = [pc EXCEPT ![t] = "set"]
  /\ UNCHANGED <<state, aged, sock, terminate, inbox, waitVars, serving, running, hand, old>>

NextOf(s) == CASE s = "close" -> "sync" [] s = "sync" -> "okay"
               [] s = "okay" -> "recycle" [] s = "recycle" -> "close"

\* final: the socket is deleted, the task may be used again.
Final(c) == /\ sock' = [sock EXCEPT ![c] = "null"]
            /\ terminate' = terminate \ {c}

\* setState, and final after recycle
SetState(t, c) ==
  /\ pc[t] = "set" /\ c \in hand[t]
  /\ state' = [state EXCEPT ![c] = NextOf(old[t])]
  /\ IF old[t] = "recycle" THEN Final(c) ELSE UNCHANGED <<sock, terminate>>
  /\ hand' = [hand EXCEPT ![t] = {}] /\ pc' = [pc EXCEPT ![t] = "idle"]
  /\ UNCHANGED <<aged, container, inbox, waitVars, serving, running, old>>

resetState(c) == /\ state' = [state EXCEPT ![c] = "close"]
                 /\ aged' = aged \ {c}
                 /\ Final(c)

(***************************************************************************)
(* The timer: timeAction.                                                  *)
(***************************************************************************)
\* Seeded fault: a task in sync is connected again too.
ConnectSync(c) ==
  /\ pc[Timer] = "idle"
  /\ state[c] = "sync" \/ (state[c] = "close" /\ c \in aged)
  /\ sock' = [sock EXCEPT ![c] = "open"]
  /\ Take(Timer, c, "add")
  /\ UNCHANGED <<state, aged, terminate, container, inbox, waitVars, serving, running>>

\* connect succeeds: a new socket, over which the login command went out.
Connect(c) ==
  /\ pc[Timer] = "idle" /\ state[c] = "close" /\ c \in aged
  /\ sock' = [sock EXCEPT ![c] = "open"]
  /\ Take(Timer, c, "add")
  /\ UNCHANGED <<state, aged, terminate, container, inbox, waitVars, serving, running>>

\* connect opened the socket but could not send the login command.
ConnectFailed(c) ==
  /\ pc[Timer] = "idle" /\ state[c] = "close" /\ c \in aged
  /\ sock' = [sock EXCEPT ![c] = "open"]
  /\ UNCHANGED <<state, aged, terminate, container, inbox, waitVars, serving, running, callVars>>

\* addCheckwait: add comes first, getNextState second.
AddCheckwait(c) ==
  /\ pc[Timer] = "add" /\ c \in hand[Timer]
  /\ inbox' = [inbox EXCEPT ![Wait] = Append(@, c)]
  /\ pc' = [pc EXCEPT ![Timer] = "call"]
  /\ UNCHANGED <<connVars, waitVars, serving, running, hand, old>>

\* Four seconds in recycle: on to close.
Recycle(c) ==
  /\ pc[Timer] = "idle" /\ state[c] = "recycle" /\ c \in aged
  /\ Take(Timer, c, "call")
  /\ UNCHANGED <<connVars, inbox, waitVars, serving, running>>

(***************************************************************************)
(* The wait thread.                                                        *)
(***************************************************************************)
\* What WaitRecvAll finds on a socket; input may be less than a command.
EventsOf(s) == CASE s = "broken" -> {"error"}
                 [] s \in {"answered", "refused"} -> {"input"}
                 [] OTHER -> {"none", "input"}

\* check_queue, then WaitRecvAll; the walk starts when something has happened.
CheckWait ==
  /\ pc[Wait] = "idle" /\ it = 0
  /\ waiting' = waiting \o inbox[Wait]
  /\ waiting' # <<>>
  /\ inbox' = [inbox EXCEPT ![Wait] = <<>>]
  /\ LET all == [k \in DOMAIN pfds |-> pfds[k].of] \o inbox[Wait]
     IN \E e \in [DOMAIN all -> Event] :
          /\ \A k \in DOMAIN all : e[k] \in EventsOf(sock[all[k]])
          /\ pfds' = [k \in DOMAIN all |-> [of |-> all[k], revents |-> e[k]]]
          /\ IF \E k \in DOMAIN all : e[k] # "none"
             THEN it' = 1 /\ i' = 0 ELSE UNCHANGED <<it, i>>
  /\ UNCHANGED <<connVars, serving, running, callVars>>

\* The events the walk looks at: after remove(it,i--) these may be those of
\* another task, or what happens to be stored before the first descriptor.
revents == IF i < 0 THEN GarbageEvents ELSE {pfds[i + 1].revents}

\* Seeded fault: the task is erased, not its descriptor.
removeTask(p) == waiting' = RemoveAt(waiting, it) /\ UNCHANGED pfds

\* remove(it,p): both lists shrink, at different places if p is not it's index;
\* nothing happens if there is no descriptor p.
remove(p) ==
  IF p \in 0 .. Len(pfds) - 1
  THEN waiting' = RemoveAt(waiting, it) /\ pfds' = RemoveAt(pfds, p + 1)
  ELSE UNCHANGED <<waiting, pfds>>

Walking(c, e) == /\ pc[Wait] = "idle" /\ it \in 1 .. Len(waiting)
                 /\ c = waiting[it] /\ e \in revents

WaitError(c) ==
  /\ Walking(c, "error")
  /\ remove(i) /\ i' = i - 1 /\ UNCHANGED it
  /\ resetState(c)
  /\ UNCHANGED <<container, inbox, serving, running, callVars>>

\* checkRebound -1
WaitRefused(c) ==
  /\ Walking(c, "input") /\ sock[c] \in {"refused", "broken"}
  /\ remove(i) /\ UNCHANGED <<it, i>>
  /\ resetState(c)
  /\ UNCHANGED <<container, inbox, serving, running, callVars>>

\* No input, or checkRebound 0: "a time-out is handled below" - it is not.
WaitMore(c) ==
  /\ \/ Walking(c, "none")
     \/ Walking(c, "input") /\ sock[c] = "open"
  /\ it' = it + 1 /\ i' = i + 1
  /\ UNCHANGED <<connVars, inbox, waiting, pfds, serving, running, callVars>>

size(n) == Len(inbox[n]) + Cardinality(serving[n])
Free == {n \in 1 .. running : size(n) < connPerThread}

\* addMain: the first thread with room, or else a new one; add comes first,
\* getNextState second.
AddMain(c, n) ==
  /\ \/ n \in Free /\ (\A m \in Free : n <= m) /\ UNCHANGED running
     \/ Free = {} /\ n = running + 1 /\ n \in Main /\ running' = n
  /\ inbox' = [inbox EXCEPT ![n] = Append(@, c)]
  /\ Take(Wait, c, "call")

\* checkRebound 1
WaitVerified(c, n) ==
  /\ Walking(c, "input") /\ sock[c] = "answered"
  /\ remove(i) /\ UNCHANGED <<it, i>>
  /\ sock' = [sock EXCEPT ![c] = "open"]
  /\ AddMain(c, n)
  /\ UNCHANGED <<state, aged, terminate, container, serving>>

\* checkRebound 1, but no thread has room and no new one starts.
WaitNoThread(c) ==
  /\ Walking(c, "input") /\ sock[c] = "answered" /\ Free = {}
  /\ remove(i) /\ UNCHANGED <<it, i>>
  /\ resetState(c)
  /\ UNCHANGED <<container, inbox, serving, running, callVars>>

WaitEnd ==
  /\ pc[Wait] = "idle" /\ it > Len(waiting)
  /\ it' = 0 /\ i' = -1
  /\ UNCHANGED <<connVars, inbox, waiting, pfds, serving, running, callVars>>

(***************************************************************************)
(* The main threads.                                                       *)
(***************************************************************************)
\* check_queue, and what the new tasks had buffered is parsed.
CheckMain(n) ==
  /\ pc[n] = "idle" /\ inbox[n] # <<>>
  /\ serving' = [serving EXCEPT ![n] = @ \cup ToSet(inbox[n])]
  /\ inbox' = [inbox EXCEPT ![n] = <<>>]
  /\ UNCHANGED <<connVars, waitVars, running, callVars>>

\* Receiving or sending failed.
SocketError(n, c) ==
  /\ pc[n] = "idle" /\ c \in serving[n] \ terminate /\ sock[c] = "broken"
  /\ terminate' = terminate \cup {c}
  /\ UNCHANGED <<state, aged, sock, container, inbox, waitVars, serving, running, callVars>>

\* Seeded fault: no getNextState after the erase.
LeaveSilent(n, c) ==
  /\ pc[n] = "idle" /\ c \in serving[n] \cap terminate
  /\ serving' = [serving EXCEPT ![n] = @ \ {c}]
  /\ UNCHANGED <<connVars, inbox, waitVars, running, callVars>>

\* isTerminate: erase, then getNextState.
Leave(n, c) ==
  /\ pc[n] = "idle" /\ c \in serving[n] \cap terminate
  /\ serving' = [serving EXCEPT ![n] = @ \ {c}]
  /\ Take(n, c, "call")
  /\ UNCHANGED <<connVars, inbox, waitVars, running>>

(***************************************************************************)
(* The other end, and the clock.                                           *)
(***************************************************************************)
InMain(c) == \E n \in Main : c \in ToSet(inbox[n]) \cup serving[n]
Busy(c) == \E t \in Thread : c \in hand[t]

\* The other end answers the login command.
Answer(c) ==
  /\ sock[c] = "open" /\ state[c] \in {"close", "sync"} /\ ~InMain(c)
  /\ \E s \in {"answered", "refused"} : sock' = [sock EXCEPT ![c] = s]
  /\ UNCHANGED <<state, aged, terminate, container, inbox, waitVars, serving, running, callVars>>

Break(c) ==
  /\ sock[c] \in {"open", "answered", "refused"}
  /\ sock' = [sock EXCEPT ![c] = "broken"]
  /\ UNCHANGED <<state, aged, terminate, container, inbox, waitVars, serving, running, callVars>>

\* Four seconds pass; no call of getNextState takes that long.
Elapse(c) ==
  /\ c \notin aged /\ state[c] \in {"close", "recycle"} /\ ~Busy(c)
  /\ aged' = aged \cup {c}
  /\ UNCHANGED <<state, sock, terminate, container, inbox, waitVars, serving, running, callVars>>

CallStep(t) == \E c \in Conn : GetState(t, c) \/ InOrOut(t, c) \/ SetState(t, c)
TimerStep(c) == Connect(c) \/ AddCheckwait(c) \/ Recycle(c)
WaitStep == \/ CheckWait \/ WaitEnd
            \/ \E c \in Conn : \/ WaitError(c) \/ WaitRefused(c) \/ WaitMore(c)
                               \/ WaitNoThread(c)
                               \/ \E n \in Main : WaitVerified(c, n)
MainStep(n) == \/ CheckMain(n)
               \/ \E c \in Conn : SocketError(n, c) \/ Leave(n, c)

Next == \/ \E t \in Thread : CallStep(t)
        \/ WaitStep
        \/ \E n \in Main : MainStep(n)
        \/ \E c \in Conn : \/ TimerStep(c) \/ ConnectFailed(c)
                           \/ Answer(c) \/ Break(c) \/ Elapse(c)

Spec == Init /\ [][Next]_vars

\* Every thread goes on with what it has begun, the main threads look at their
\* tasks, the clock runs, and the timer comes to every task; whether connect
\* succeeds, and whether the other end ever answers, is left open.
Fairness ==
  /\ \A t \in Thread : WF_vars(CallStep(t))
  /\ \A n \in Main : WF_vars(MainStep(n))
  /\ \A c \in Conn : /\ WF_vars(AddCheckwait(c)) /\ SF_vars(Recycle(c))
                     /\ WF_vars(Elapse(c))

FairSpec == Spec /\ Fairness

(***************************************************************************)
(* Properties                                                              *)
(***************************************************************************)
\* Where c is, in the inboxes and the lists of the threads.
Indices(s, c) == {k \in DOMAIN s : s[k] = c}
Places(c) == ({"inbox"} \X UNION {{t} \X Indices(inbox[t], c) : t \in Thread})
             \cup ({"list"} \X ({Wait} \X Indices(waiting, c)))
             \cup ({"list"} \X {<<n, 0>> : n \in {m \in Main : c \in serving[m]}})

\* Although calls of getNextState overlap, the timer never connects a task that
\* another thread still has: a task is in one place at most, and there not
\* without the socket that resetState and final delete.
OnePlace == \A c \in Conn : /\ \A p, q \in Places(c) : p = q
                            /\ Places(c) # {} => sock[c] # "null"

\* Broadcasts reach every connection that is in service (addToContainer comes
\* before setState, removeFromContainer before the next setState).
OkayIsListed ==
  \A c \in Conn : state[c] = "okay" /\ ~Busy(c) => c \in container

\* A connection that is in service and breaks is closed, so that the timer can
\* connect it again, although the timer may be busy with other tasks.  It is
\* stated of one connection, which may be any of them.
BrokenIsClosed ==
  LET c == CHOOSE d \in Conn : TRUE
  IN  (InMain(c) /\ state[c] = "okay" /\ ~Busy(c) /\ sock[c] = "broken") ~> state[c] = "close"
=============================================================================
