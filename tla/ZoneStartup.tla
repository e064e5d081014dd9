----------------------------- MODULE ZoneStartup -----------------------------
(***************************************************************************)
(* How the servers of a zone start: SuperServer's ServerTask and           *)
(* ServerManager on one side, the zSubNetService of each server on the     *)
(* other.  A server asks for its number, is kept in the sync thread while  *)
(* the servers it depends on are told of it (NotifyOther) and answer, gets *)
(* the list of them (NotifyMe), starts, and confirms with t_Startup_OK.    *)
(* Later it may ask that a server which restarted be told of it again.     *)
(*                                                                         *)
(* The pool's threads: several verify threads, one sync thread (sync), the *)
(* okay threads that read the confirmed connections, the recycle thread.   *)
(* TaskPool.tla models the pool itself; here a connection ("task") is in   *)
(* one of its phases.                                                      *)
(***************************************************************************)
EXTENDS Naturals, Sequences, FiniteSets, FiniteSetsExt

CONSTANTS Procs,      \* server processes
          ProcType,   \* the type each of them is started as
          ServerID,   \* the numbers of the SERVERLIST table
          TypeOf,     \* the type of each row of the table
          serverSequence, \* the types a type depends on, in the order checked
          Required,   \* the types without which a type's init fails
          Reasks,     \* the types a type asks SuperServer to notify again
          Crashable,  \* the processes that may crash, once each (a bound)
          Tasks,      \* connection objects of SuperServer, numbered (a bound)
          None

\* the types a type depends on
Dependencies(k) == {serverSequence[k][i] : i \in DOMAIN serverSequence[k]}

ASSUME ZoneAssumption ==
  /\ ServerID \subseteq Nat \ {0} /\ Tasks \subseteq Nat /\ None \notin Tasks \cup Procs
  /\ \A p \in Procs : ProcType[p] \in DOMAIN serverSequence
  /\ \A k \in DOMAIN serverSequence : Required[k] \cup Reasks[k] \subseteq Dependencies(k)

\* initServerSequence: no two types depend on each other, nor a type on itself
ASSUME SequenceAssumption ==
  \A k, l \in DOMAIN serverSequence : l \in Dependencies(k) => k \notin Dependencies(l)

VARIABLES
  phase,      \* of a process: down, start (zSubNetService::init), told (NotifyMe
              \* received, initialising), up (t_Startup_OK sent)
  wdServerID, \* the number a process believes to have, 0 when none
  serverList, \* the server entries a process knows
  conn,       \* the task its connection to SuperServer ends at
  crashed,    \* processes that have crashed
  task,       \* the tasks: [st, proc, id, ses, hasSeq, told]
  taskUniqueContainer, \* number -> the task registered
  sync,       \* the task the sync thread is about to call notifyMe of, if any
  net         \* the commands in flight, of every connection

procVars == <<phase, wdServerID, serverList, conn, crashed>>
vars == <<phase, wdServerID, serverList, conn, crashed, task, taskUniqueContainer, sync, net>>

Rows(k) == {i \in ServerID : TypeOf[i] = k}

\* a command in flight: to a process (Response, NotifyMe, NotifyOther) or from
\* one (Request, OK, Ack, Restart), by the task at SuperServer's end
Msg(t, kind, id, src) == [task |-> t, kind |-> kind, id |-> id, src |-> src]
NotifyMe(t, list) == [task |-> t, kind |-> "NotifyMe", list |-> list]

Fresh == [st |-> "free", proc |-> None, id |-> 0, ses |-> [i \in {} |-> FALSE], hasSeq |-> FALSE, told |-> FALSE]

\* ServerManager: container holds the tasks of the okay thread
Container  == {t \in Tasks : task[t].st = "okay"}
getServer(id) == {t \in Container : task[t].id = id}
open(t) == \E p \in Procs : conn[p] = t

TypeOK ==
  /\ phase \in [Procs -> {"down", "start", "told", "up"}]
  /\ wdServerID \in [Procs -> ServerID \cup {0}]
  /\ serverList \in [Procs -> SUBSET ServerID]
  /\ conn \in [Procs -> Tasks \cup {None}] /\ crashed \subseteq Procs
  /\ \A t \in Tasks :
       /\ task[t].st \in {"free", "verify", "chosen", "sync", "okay", "recycle"}
       /\ task[t].proc \in Procs \cup {None} /\ task[t].id \in ServerID \cup {0}
       /\ DOMAIN task[t].ses \subseteq ServerID
       /\ \A i \in DOMAIN task[t].ses : task[t].ses[i] \in BOOLEAN
  /\ taskUniqueContainer \in [ServerID -> Tasks \cup {None}]
  /\ sync \in Tasks \cup {None}

Init ==
  /\ phase = [p \in Procs |-> "down"] /\ wdServerID = [p \in Procs |-> 0]
  /\ serverList = [p \in Procs |-> {}] /\ conn = [p \in Procs |-> None]
  /\ crashed = {}
  /\ task = [t \in Tasks |-> Fresh]
  /\ taskUniqueContainer = [i \in ServerID |-> None]
  /\ sync = None /\ net = {}

-----------------------------------------------------------------------------
(* a server process: zSubNetService and SuperClient *)

\* zSubNetService::init connects (first and after each failure) and asks
Connect(p) ==
  /\ phase[p] \in {"down", "start"} /\ conn[p] = None
  /\ LET free == {t \in Tasks : task[t].st = "free"}
         t    == Min(free)     \* which object is taken makes no difference
     IN  /\ free # {}
         /\ task' = [task EXCEPT ![t] = [Fresh EXCEPT !.st = "verify", !.proc = p]]
         /\ conn' = [conn EXCEPT ![p] = t]
         /\ net' = net \cup {Msg(t, "Request", 0, 0)}
  /\ phase' = [phase EXCEPT ![p] = "start"]
  /\ UNCHANGED <<wdServerID, serverList, crashed, taskUniqueContainer, sync>>

\* setServerInfo
GetResponse(p) ==
  /\ phase[p] = "start"
  /\ \E m \in net :
       /\ m.task = conn[p] /\ m.kind = "Response"
       /\ wdServerID' = [wdServerID EXCEPT ![p] = m.id]
       /\ net' = net \ {m}
  /\ UNCHANGED <<phase, serverList, conn, crashed, task, taskUniqueContainer, sync>>

\* addServerEntry of each, and verified = true
GetNotifyMe(p) ==
  /\ phase[p] = "start"
  /\ ~\E m \in net : m.task = conn[p] /\ m.kind = "Response"
  /\ \E m \in net :
       /\ m.task = conn[p] /\ m.kind = "NotifyMe"
       /\ serverList' = [serverList EXCEPT ![p] = @ \cup m.list]
       /\ net' = net \ {m}
  /\ phase' = [phase EXCEPT ![p] = "told"]
  /\ UNCHANGED <<wdServerID, conn, crashed, task, taskUniqueContainer, sync>>

\* the command is sent back as the answer
GetNotifyOther(p) ==
  /\ phase[p] \in {"told", "up"}
  /\ \E m \in net :
       /\ m.task = conn[p] /\ m.kind = "NotifyOther"
       /\ serverList' = [serverList EXCEPT ![p] = @ \cup {m.id}]
       /\ net' = (net \ {m}) \cup {[m EXCEPT !.kind = "Ack"]}
  /\ UNCHANGED <<phase, wdServerID, conn, crashed, task, taskUniqueContainer, sync>>

Known(p) == {TypeOf[i] : i \in serverList[p]}

\* the service's own init, which needs an entry of each required type, and
\* zSubNetService::validate
Validate(p) ==
  /\ phase[p] = "told" /\ Required[ProcType[p]] \subseteq Known(p)
  /\ phase' = [phase EXCEPT ![p] = "up"]
  /\ net' = net \cup {Msg(conn[p], "OK", wdServerID[p], 0)}
  /\ UNCHANGED <<wdServerID, serverList, conn, crashed, task, taskUniqueContainer, sync>>

\* the client of server i, which has restarted and refuses its login, asks at
\* each attempt to connect (MiniClient::run and its like in the gateway)
Refused(p, i) ==
  \E q \in Procs : phase[q] \in {"told", "up"} /\ wdServerID[q] = i /\ wdServerID[p] \notin serverList[q]

Reask(p) ==
  /\ phase[p] = "up" /\ conn[p] # None
  /\ \E i \in serverList[p] :
       /\ TypeOf[i] \in Reasks[ProcType[p]] /\ Refused(p, i)
       /\ net' = net \cup {Msg(conn[p], "Restart", wdServerID[p], i)}
  /\ UNCHANGED <<procVars, task, taskUniqueContainer, sync>>

\* the process is gone with all it knew, and with what its connection carried
Exit(p) ==
  /\ phase' = [phase EXCEPT ![p] = "down"]
  /\ wdServerID' = [wdServerID EXCEPT ![p] = 0]
  /\ serverList' = [serverList EXCEPT ![p] = {}]
  /\ conn' = [conn EXCEPT ![p] = None]
  /\ net' = {m \in net : m.task # conn[p]}
  /\ UNCHANGED <<task, taskUniqueContainer, sync>>

InitFails(p) ==
  /\ phase[p] = "told" /\ ~(Required[ProcType[p]] \subseteq Known(p))
  /\ Exit(p) /\ UNCHANGED crashed

Crash(p) ==
  /\ phase[p] # "down" /\ p \in Crashable \ crashed
  /\ Exit(p) /\ crashed' = crashed \cup {p}

-----------------------------------------------------------------------------
(* SuperServer: verify threads *)

SetTask(t, st) == task' = [task EXCEPT ![t].st = st]

\* the pool closes the connection and leaves the task to the recycle thread;
\* the process, if it lives, sees its connection break
Close(t) ==
  /\ SetTask(t, "recycle")
  /\ conn' = [p \in Procs |-> IF conn[p] = t THEN None ELSE conn[p]]
  /\ net' = {m \in net : m.task # t}

\* ServerTask::verify: the first row of the type whose number is not in use
FreeRows(t) == {i \in Rows(ProcType[task[t].proc]) : taskUniqueContainer[i] = None}

Verify(t) ==
  /\ task[t].st = "verify" /\ Msg(t, "Request", 0, 0) \in net /\ FreeRows(t) # {}
  /\ task' = [task EXCEPT ![t].st = "chosen", ![t].id = Min(FreeRows(t))]
  /\ net' = (net \ {Msg(t, "Request", 0, 0)}) \cup {Msg(t, "Response", Min(FreeRows(t)), 0)}
  /\ UNCHANGED <<procVars, taskUniqueContainer, sync>>

VerifyFails(t) ==
  /\ task[t].st = "verify" /\ Msg(t, "Request", 0, 0) \in net /\ FreeRows(t) = {}
  /\ Close(t)
  /\ UNCHANGED <<phase, wdServerID, serverList, crashed, taskUniqueContainer, sync>>

\* Seeded fault: the number is taken over from the task that holds it.
uniqueAddAny(t) ==
  /\ task[t].st = "chosen"
  /\ taskUniqueContainer' = [taskUniqueContainer EXCEPT ![task[t].id] = t]
  /\ SetTask(t, "sync")
  /\ UNCHANGED <<procVars, sync, net>>

uniqueAdd(t) ==
  /\ task[t].st = "chosen" /\ taskUniqueContainer[task[t].id] = None
  /\ taskUniqueContainer' = [taskUniqueContainer EXCEPT ![task[t].id] = t]
  /\ SetTask(t, "sync")
  /\ UNCHANGED <<procVars, sync, net>>

uniqueAddFails(t) ==
  /\ task[t].st = "chosen" /\ taskUniqueContainer[task[t].id] # None
  /\ Close(t)
  /\ UNCHANGED <<phase, wdServerID, serverList, crashed, taskUniqueContainer, sync>>

-----------------------------------------------------------------------------
(* SuperServer: the sync thread, ServerTask::waitSync *)

\* the confirmation takes the connection to the okay thread and, by
\* addToContainer, into the container
SyncOK(t) ==
  /\ sync = None /\ task[t].st = "sync"
  /\ \E m \in net :
       /\ m.task = t /\ m.kind = "OK" /\ m.id = task[t].id
       /\ net' = net \ {m}
  /\ SetTask(t, "okay")
  /\ UNCHANGED <<procVars, taskUniqueContainer, sync>>

\* verifyTypeOK: the type has rows, and every one of them is in the container
Complete(k) == Rows(k) # {} /\ \A i \in Rows(k) : getServer(i) # {}

\* the dependencies before the first type that is not complete
Prefix(seq) ==
  {i \in ServerID : \E n \in DOMAIN seq : TypeOf[i] = seq[n] /\ \A m \in 1 .. n : Complete(seq[m])}

\* Seeded fault: the list is made anew in each round, complete or not.
ListAnew(t) ==
  [task[t] EXCEPT !.ses = [i \in Prefix(serverSequence[ProcType[task[t].proc]]) |-> FALSE]]

\* processSequence rebuilds the list, without the answers it had, until it is
\* complete once
List(t) ==
  LET seq == serverSequence[ProcType[task[t].proc]]
  IN  IF task[t].hasSeq THEN task[t]
      ELSE [task[t] EXCEPT !.ses = [i \in Prefix(seq) |-> FALSE],
                           !.hasSeq = \A n \in DOMAIN seq : Complete(seq[n])]

\* notifyOther: broadcastByID to each server of the list that is in the container
Asked(t, ids) ==
  {Msg(d, "NotifyOther", task[t].id, task[d].id) : d \in {d \in Container : task[d].id \in ids /\ open(d)}}

\* nothing to read: the three calls are made one after the other, whatever
\* they return
SyncRound(t) ==
  /\ sync = None /\ task[t].st = "sync" /\ open(t)
  /\ ~\E m \in net : m.task = t /\ m.kind = "OK"
  /\ task' = [task EXCEPT ![t] = List(t)]
  /\ net' = net \cup Asked(t, DOMAIN List(t).ses)
  /\ sync' = t
  /\ UNCHANGED <<procVars, taskUniqueContainer>>

\* Seeded fault: one answer is enough.
OneAnswered(t) == DOMAIN task[t].ses = {} \/ \E i \in DOMAIN task[t].ses : task[t].ses[i]
\* the list goes out once, when every server on it has answered
AllAnswered(t) == \A i \in DOMAIN task[t].ses : task[t].ses[i]

notifyMe ==
  LET t == sync
  IN  /\ sync # None
      /\ \/ /\ ~task[t].told /\ AllAnswered(t) /\ open(t)
            /\ net' = net \cup {NotifyMe(t, DOMAIN task[t].ses)}
            /\ task' = [task EXCEPT ![t].told = TRUE]
         \/ /\ task[t].told \/ ~AllAnswered(t) \/ ~open(t)
            /\ UNCHANGED <<net, task>>
      /\ sync' = None
      /\ UNCHANGED <<procVars, taskUniqueContainer>>

-----------------------------------------------------------------------------
(* SuperServer: the okay threads and the recycle thread *)

\* Seeded fault: ses[srcID] = true, which inserts what is not there.
ResponseOtherInserts(d) ==
  /\ task[d].st = "okay"
  /\ \E m \in net :
       /\ m.task = d /\ m.kind = "Ack"
       /\ net' = net \ {m}
       /\ LET w == taskUniqueContainer[m.id]
          IN  task' = IF w # None
                      THEN [task EXCEPT ![w].ses = [i \in DOMAIN @ \cup {m.src} |-> i = m.src \/ @[i]]]
                      ELSE task
  /\ UNCHANGED <<procVars, taskUniqueContainer, sync>>

\* msgParse_Startup and ServerManager::responseOther: m.id is the server that
\* waits, m.src the one that answers
ResponseOther(d) ==
  /\ task[d].st = "okay"
  /\ \E m \in net :
       /\ m.task = d /\ m.kind = "Ack"
       /\ net' = net \ {m}
       /\ LET w == taskUniqueContainer[m.id]
          IN  task' = IF w # None /\ m.src \in DOMAIN task[w].ses
                      THEN [task EXCEPT ![w].ses[m.src] = TRUE] ELSE task
  /\ UNCHANGED <<procVars, taskUniqueContainer, sync>>

\* Seeded fault: the server that asks is notified, not the one it names.
RestartNotifyAsker(d) ==
  /\ task[d].st = "okay"
  /\ \E m \in net :
       /\ m.task = d /\ m.kind = "Restart"
       /\ net' = (net \ {m}) \cup {Msg(d, "NotifyOther", m.id, 0)}
  /\ UNCHANGED <<procVars, task, taskUniqueContainer, sync>>

\* notifyOther(dstID), whose command names no srcID: the answer counts for nothing
RestartNotify(d) ==
  /\ task[d].st = "okay"
  /\ \E m \in net :
       /\ m.task = d /\ m.kind = "Restart"
       /\ LET dst == {e \in getServer(m.src) :
                       open(e) /\ \E w \in getServer(m.id) : m.src \in DOMAIN task[w].ses}
          IN  net' = (net \ {m}) \cup {Msg(e, "NotifyOther", m.id, 0) : e \in dst}
  /\ UNCHANGED <<procVars, task, taskUniqueContainer, sync>>

\* a thread finds the connection broken; removeFromContainer
TaskLost(t) ==
  /\ task[t].st \in {"verify", "chosen", "sync", "okay"} /\ ~open(t) /\ sync # t
  /\ SetTask(t, "recycle")
  /\ UNCHANGED <<procVars, taskUniqueContainer, sync, net>>

\* uniqueRemove, if this task is the one registered, and delete
Recycle(t) ==
  /\ task[t].st = "recycle"
  /\ taskUniqueContainer' =
       [i \in ServerID |-> IF taskUniqueContainer[i] = t THEN None ELSE taskUniqueContainer[i]]
  /\ task' = [task EXCEPT ![t] = Fresh]
  /\ UNCHANGED <<procVars, sync, net>>

-----------------------------------------------------------------------------
Serve(p) == GetResponse(p) \/ GetNotifyMe(p) \/ GetNotifyOther(p) \/ Validate(p) \/ InitFails(p) \/ Reask(p)
VerifyThread(t) == Verify(t) \/ VerifyFails(t) \/ uniqueAdd(t) \/ uniqueAddFails(t)
SyncThread(t) == SyncOK(t) \/ SyncRound(t)
Others(t) == ResponseOther(t) \/ RestartNotify(t) \/ TaskLost(t) \/ Recycle(t)

Next ==
  \/ \E p \in Procs : Connect(p) \/ Serve(p) \/ Crash(p)
  \/ \E t \in Tasks : VerifyThread(t) \/ SyncThread(t) \/ Others(t)
  \/ notifyMe

Spec == Init /\ [][Next]_vars

\* Every thread goes on; the sync thread takes the waiting tasks in turn.  A
\* server that has asked once asks again every two seconds, one that is down is
\* started by hand.
Retry(p) == phase[p] = "start" /\ Connect(p)

LiveSpec ==
  /\ Spec /\ WF_vars(notifyMe)
  /\ \A p \in Procs : WF_vars(Serve(p)) /\ SF_vars(Retry(p))
  /\ \A t \in Tasks : WF_vars(VerifyThread(t)) /\ SF_vars(SyncThread(t)) /\ WF_vars(Others(t))

-----------------------------------------------------------------------------
(* properties *)

Running(p) == phase[p] \in {"told", "up"}
DependsOn(p) == Dependencies(ProcType[p])
Listed(p) == {i \in serverList[p] : TypeOf[i] \in DependsOn(p)}

\* A number belongs to one server at a time although the verify threads choose
\* it without holding it: the loser of the race is told the number, yet never
\* gets as far as NotifyMe.
UniqueNumbers ==
  \A p, q \in Procs : p # q /\ Running(p) /\ Running(q) => wdServerID[p] # wdServerID[q]

\* A server that starts may connect to each server it was told of: that server
\* has finished its own start and knows the newcomer (its verifyLogin looks the
\* number up), whatever answers arrived late or were cleared by a new round of
\* processSequence.  Only a dependency that crashed since may not.  And of a type
\* it is told all servers of the table or none.
DependencyKnows ==
  \A p \in Procs : Running(p) =>
    /\ \A i \in Listed(p) :
         \/ \E q \in crashed : TypeOf[i] = ProcType[q]
         \/ \E q \in Procs : /\ wdServerID[q] = i /\ phase[q] = "up"
                             /\ wdServerID[p] \in serverList[q]
    /\ \A k \in DependsOn(p) : Rows(k) \subseteq serverList[p] \/ Rows(k) \cap serverList[p] = {}

\* A server that waits is told in the end once its dependencies are up and stay
\* so, also when its first answers were lost to a round that started the list
\* anew or to a dependency that restarted meanwhile.
WaiterIsTold ==
  \A p \in Procs :
    <>[](phase[p] # "down" /\ \A k \in DependsOn(p) : Complete(k)) => <>[]Running(p)

\* A server that restarts comes to know again the servers that were connected to
\* it before, if they are of the types that ask for it.  Those that do not ask
\* (a session or scene server whose record server restarts) stay refused.
KnownAgain ==
  \A p, q \in Procs :
    <>[](/\ phase[p] = "up" /\ phase[q] = "up" /\ wdServerID[q] \in serverList[p]
         /\ ProcType[q] \in Reasks[ProcType[p]]) => <>[](wdServerID[p] \in serverList[q])
=============================================================================
