------------------------- MODULE ZoneStartupProofs -------------------------
(***************************************************************************)
(* For any servers, types, table and dependencies without a circle of two: *)
(* a number belongs to one server at a time, although the verify threads   *)
(* race for it; and a server that starts is known to those it was told of. *)
(***************************************************************************)
EXTENDS ZoneStartup, WellFoundedInduction, TLAPS

(***************************************************************************)
(* The inductive invariant.                                                *)
(***************************************************************************)
\* the servers asked, and whether they have answered
Ses == UNION {[D -> BOOLEAN] : D \in SUBSET ServerID}

ServerTask == [st : {"free", "verify", "chosen", "sync", "okay", "recycle"}, proc : Procs \cup {None},
               id : ServerID \cup {0}, ses : Ses, hasSeq : BOOLEAN, told : BOOLEAN]

Commands == [task : Tasks, kind : {"Request", "Response", "NotifyOther", "OK", "Ack", "Restart"},
             id : ServerID \cup {0}, src : ServerID \cup {0}]
Lists == [task : Tasks, kind : {"NotifyMe"}, list : SUBSET ServerID]

Types ==
  /\ phase \in [Procs -> {"down", "start", "told", "up"}]
  /\ wdServerID \in [Procs -> ServerID \cup {0}]
  /\ serverList \in [Procs -> SUBSET ServerID]
  /\ conn \in [Procs -> Tasks \cup {None}] /\ crashed \subseteq Procs
  /\ task \in [Tasks -> ServerTask]
  /\ taskUniqueContainer \in [ServerID -> Tasks \cup {None}]
  /\ sync \in Tasks \cup {None}
  /\ net \subseteq Commands \cup Lists

\* A task past verify has a number, and past uniqueAdd it holds that number.
Numbered ==
  \A t \in Tasks : /\ task[t].st \in {"chosen", "sync", "okay"} => task[t].id \in ServerID
                   /\ task[t].st \in {"sync", "okay"} => taskUniqueContainer[task[t].id] = t

\* A connection ends at the task of its process.
Connected ==
  \A p \in Procs : conn[p] # None =>
    /\ phase[p] # "down" /\ task[conn[p]].proc = p /\ task[conn[p]].st \notin {"free", "recycle"}

\* What goes over a connection goes to or comes from a task still in use.
MsgFits(m) ==
  /\ open(m.task)
  /\ m.kind = "Response" => m.id = task[m.task].id /\ task[m.task].st \notin {"free", "verify"}
  /\ m.kind = "NotifyMe" => task[m.task].st \in {"sync", "okay"}
  /\ m.kind \in {"NotifyOther", "Ack", "Restart"} => m.id \in ServerID
Messages == \A m \in net : MsgFits(m)
InSync == sync # None => task[sync].st = "sync"

\* A process knows the number of its task unless the answer is still to come;
\* one that runs knows it, and its task holds it.
Answered(t) == \A m \in net : ~(m.task = t /\ m.kind = "Response")
Told ==
  \A p \in Procs :
    /\ conn[p] # None /\ task[conn[p]].st # "verify" /\ Answered(conn[p]) => wdServerID[p] = task[conn[p]].id
    /\ Running(p) => conn[p] # None /\ task[conn[p]].st \in {"sync", "okay"} /\ Answered(conn[p])

ZoneInv == Types /\ Numbered /\ Connected /\ Messages /\ InSync /\ Told

-----------------------------------------------------------------------------
(* Helpers.                                                                *)
Less == {p \in Nat \X Nat : p[1] < p[2]}

\* A set of numbers that is not empty has a least one, and Min is one.
LEMMA Smallest ==
  ASSUME NEW S \in SUBSET Nat, S # {}
  PROVE  Min(S) \in S
<1>1. IsWellFoundedOn(Less, Nat)
      BY NatLessThanWellFounded DEF OpToRel, Less
<1>2. PICK x \in S : \A y \in S : <<y, x>> \notin Less
      BY <1>1, WFMin
<1>3. ASSUME NEW y \in S PROVE x <= y
      <2>1. x \in Nat /\ y \in Nat /\ <<y, x>> \in Nat \X Nat
            OBVIOUS
      <2>2. y < x => <<y, x>> \in Less
            BY <2>1 DEF Less
      <2> QED BY <1>2, <2>1, <2>2
<1> QED BY <1>3 DEF Min

\* Lists of the servers asked: what they are, a new one, and one answer more.
LEMMA SesIs ==
  /\ \A s \in Ses : DOMAIN s \subseteq ServerID /\ \A i \in DOMAIN s : s[i] \in BOOLEAN
  /\ \A s \in Ses : \A j : [s EXCEPT ![j] = TRUE] \in Ses
  /\ \A D \in SUBSET ServerID : [i \in D |-> FALSE] \in Ses
<1>1. ASSUME NEW s \in Ses
      PROVE  DOMAIN s \subseteq ServerID /\ \A i \in DOMAIN s : s[i] \in BOOLEAN
      BY DEF Ses
<1>2. ASSUME NEW s \in Ses, NEW j PROVE [s EXCEPT ![j] = TRUE] \in Ses
      <2>1. PICK D \in SUBSET ServerID : s \in [D -> BOOLEAN]
            BY DEF Ses
      <2>2. [s EXCEPT ![j] = TRUE] \in [D -> BOOLEAN]
            BY <2>1
      <2> QED BY <2>2 DEF Ses
<1>3. ASSUME NEW D \in SUBSET ServerID PROVE [i \in D |-> FALSE] \in Ses
      <2>1. [i \in D |-> FALSE] \in [D -> BOOLEAN]
            OBVIOUS
      <2> QED BY <2>1 DEF Ses
<1> QED BY <1>1, <1>2, <1>3

\* The state of a task, its process and its number.
Same(t) == task'[t].st = task[t].st /\ task'[t].proc = task[t].proc /\ task'[t].id = task[t].id

\* A task changes its state and nothing else.
LEMMA SetTaskIs ==
  ASSUME Types, NEW t \in Tasks, NEW st \in {"free", "verify", "chosen", "sync", "okay", "recycle"}, SetTask(t, st)
  PROVE  /\ task' \in [Tasks -> ServerTask]
         /\ task'[t].st = st /\ task'[t].proc = task[t].proc /\ task'[t].id = task[t].id
         /\ \A u \in Tasks : u # t => Same(u)
<1>1. task \in [Tasks -> ServerTask] /\ task[t] \in ServerTask
      BY DEF Types
<1>2. /\ [task[t] EXCEPT !.st = st] \in ServerTask
      /\ [task[t] EXCEPT !.st = st].st = st
      /\ [task[t] EXCEPT !.st = st].proc = task[t].proc
      /\ [task[t] EXCEPT !.st = st].id = task[t].id
      BY <1>1 DEF ServerTask
<1>3. task' = [task EXCEPT ![t] = [task[t] EXCEPT !.st = st]]
      BY <1>1 DEF SetTask
<1> QED BY <1>1, <1>2, <1>3 DEF Same

\* A task that is not used yet.
LEMMA FreshIs == Fresh \in ServerTask /\ Fresh.st = "free"
<1>1. [i \in {} |-> FALSE] \in Ses
      BY SesIs
<1> QED BY <1>1 DEF Fresh, ServerTask

\* A command has the fields it is made with.
LEMMA MsgIs ==
  ASSUME NEW t \in Tasks, NEW kind \in {"Request", "Response", "NotifyOther", "OK", "Ack", "Restart"},
         NEW id \in ServerID \cup {0}, NEW src \in ServerID \cup {0}
  PROVE  /\ Msg(t, kind, id, src) \in Commands /\ Msg(t, kind, id, src).task = t
         /\ Msg(t, kind, id, src).kind = kind /\ Msg(t, kind, id, src).id = id
BY DEF Msg, Commands

\* What is in flight belongs to a task, and its fields are numbers.
LEMMA NetIs ==
  ASSUME Types, NEW m \in net
  PROVE  /\ m.task \in Tasks /\ m.task # None
         /\ m.kind = "NotifyMe" => m \in Lists /\ m.list \subseteq ServerID
         /\ m.kind # "NotifyMe" => m \in Commands /\ m.id \in ServerID \cup {0} /\ m.src \in ServerID \cup {0}
<1>1. m \in Commands \/ m \in Lists
      BY DEF Types
<1>2. CASE m \in Commands
      BY <1>2, ZoneAssumption DEF Commands
<1>3. CASE m \in Lists
      BY <1>3, ZoneAssumption DEF Lists
<1> QED BY <1>1, <1>2, <1>3

-----------------------------------------------------------------------------
(* What the actions do to the tasks.                                       *)
\* A connection is made with a task that was free.
LEMMA ConnectIs ==
  ASSUME Types, NEW p \in Procs, Connect(p)
  PROVE  \E t \in Tasks :
           /\ task[t].st = "free" /\ conn[p] = None
           /\ task' \in [Tasks -> ServerTask] /\ task'[t].st = "verify" /\ task'[t].proc = p
           /\ \A u \in Tasks : u # t => Same(u)
           /\ conn' = [conn EXCEPT ![p] = t] /\ phase' = [phase EXCEPT ![p] = "start"]
           /\ net' = net \cup {Msg(t, "Request", 0, 0)}
<1> DEFINE free == {t \in Tasks : task[t].st = "free"}
           t == Min(free)
<1>1. /\ free # {} /\ conn[p] = None
      /\ task' = [task EXCEPT ![t] = [Fresh EXCEPT !.st = "verify", !.proc = p]]
      /\ conn' = [conn EXCEPT ![p] = t] /\ phase' = [phase EXCEPT ![p] = "start"]
      /\ net' = net \cup {Msg(t, "Request", 0, 0)}
      BY DEF Connect
<1>2. t \in free
      <2>1. free \in SUBSET Nat
            BY ZoneAssumption
      <2> HIDE DEF free
      <2> QED BY <1>1, <2>1, Smallest
<1> HIDE DEF t
<1>3. /\ [Fresh EXCEPT !.st = "verify"] \in ServerTask
      /\ [Fresh EXCEPT !.st = "verify"].st = "verify"
      BY FreshIs DEF ServerTask
<1>4. /\ [[Fresh EXCEPT !.st = "verify"] EXCEPT !.proc = p] \in ServerTask
      /\ [[Fresh EXCEPT !.st = "verify"] EXCEPT !.proc = p].st = "verify"
      /\ [[Fresh EXCEPT !.st = "verify"] EXCEPT !.proc = p].proc = p
      BY <1>3 DEF ServerTask
<1>5. task \in [Tasks -> ServerTask]
      BY DEF Types
<1>6. [Fresh EXCEPT !.st = "verify", !.proc = p] = [[Fresh EXCEPT !.st = "verify"] EXCEPT !.proc = p]
      BY FreshIs DEF ServerTask
<1>7. task' \in [Tasks -> ServerTask] /\ task'[t].st = "verify" /\ task'[t].proc = p
      BY <1>1, <1>2, <1>4, <1>5, <1>6
<1>8. \A u \in Tasks : u # t => Same(u)
      BY <1>1, <1>5 DEF Same
<1> QED BY <1>1, <1>2, <1>7, <1>8

\* verify chooses a number of the table.
LEMMA VerifyIs ==
  ASSUME Types, NEW t \in Tasks, Verify(t)
  PROVE  \E id \in ServerID :
           /\ task[t].st = "verify"
           /\ task' \in [Tasks -> ServerTask] /\ task'[t].st = "chosen" /\ task'[t].proc = task[t].proc
           /\ task'[t].id = id
           /\ \A u \in Tasks : u # t => Same(u)
           /\ net' = (net \ {Msg(t, "Request", 0, 0)}) \cup {Msg(t, "Response", id, 0)}
<1> DEFINE id == Min(FreeRows(t))
<1>1. id \in ServerID
      <2>1. FreeRows(t) \in SUBSET Nat /\ FreeRows(t) \subseteq ServerID /\ FreeRows(t) # {}
            BY ZoneAssumption DEF FreeRows, Rows, Verify
      <2> QED BY <2>1, Smallest
<1>2. /\ task[t].st = "verify" /\ task' = [task EXCEPT ![t].st = "chosen", ![t].id = id]
      /\ net' = (net \ {Msg(t, "Request", 0, 0)}) \cup {Msg(t, "Response", id, 0)}
      BY DEF Verify
<1> HIDE DEF id
<1>3. task \in [Tasks -> ServerTask] /\ task[t] \in ServerTask
      BY DEF Types
<1> DEFINE r == [task[t] EXCEPT !.st = "chosen"]
           s == [r EXCEPT !.id = id]
<1>4. r \in ServerTask /\ r.st = "chosen" /\ r.proc = task[t].proc
      BY <1>3 DEF ServerTask
<1>5. s \in ServerTask /\ s.st = "chosen" /\ s.proc = task[t].proc /\ s.id = id
      <2> HIDE DEF r
      <2> QED BY <1>1, <1>4 DEF ServerTask
<1>6. task' = [task EXCEPT ![t] = s]
      BY <1>2, <1>3
<1> HIDE DEF r, s
<1>7. task' \in [Tasks -> ServerTask] /\ task'[t] = s /\ \A u \in Tasks : u # t => task'[u] = task[u]
      BY <1>3, <1>5, <1>6
<1> QED BY <1>1, <1>2, <1>5, <1>7 DEF Same

\* The list, its answers and the notice change nothing else of a task.
LEMMA QuietIs ==
  ASSUME Types, \/ \E t \in Tasks : SyncRound(t) \/ ResponseOther(t)
                \/ notifyMe
  PROVE  task' \in [Tasks -> ServerTask] /\ \A u \in Tasks : Same(u)
<1>1. task \in [Tasks -> ServerTask]
      BY DEF Types
<1>2. ASSUME NEW t \in Tasks, NEW r \in ServerTask, task' = [task EXCEPT ![t] = r],
             r.st = task[t].st, r.proc = task[t].proc, r.id = task[t].id
      PROVE  task' \in [Tasks -> ServerTask] /\ \A u \in Tasks : Same(u)
      BY <1>1, <1>2 DEF Same
<1>3. CASE task' = task
      BY <1>1, <1>3 DEF Same
<1>4. ASSUME NEW t \in Tasks, SyncRound(t) PROVE task' \in [Tasks -> ServerTask] /\ \A u \in Tasks : Same(u)
      <2> DEFINE seq == serverSequence[ProcType[task[t].proc]]
                 ses == [i \in Prefix(seq) |-> FALSE]
                 has == \A n \in DOMAIN seq : Complete(seq[n])
                 r == [task[t] EXCEPT !.ses = ses]
                 s == [r EXCEPT !.hasSeq = has]
      <2>1. task' = [task EXCEPT ![t] = List(t)]
            BY <1>4 DEF SyncRound
      <2>2. ses \in Ses /\ has \in BOOLEAN
            <3>1. Prefix(seq) \in SUBSET ServerID
                  BY DEF Prefix
            <3> QED BY <3>1, SesIs
      <2>3. List(t) = task[t] \/ List(t) = [task[t] EXCEPT !.ses = ses, !.hasSeq = has]
            BY DEF List
      <2> HIDE DEF seq, ses, has
      <2>4. r \in ServerTask /\ r.st = task[t].st /\ r.proc = task[t].proc /\ r.id = task[t].id
            BY <1>1, <2>2 DEF ServerTask
      <2>5. s \in ServerTask /\ s.st = task[t].st /\ s.proc = task[t].proc /\ s.id = task[t].id
            <3> HIDE DEF r
            <3> QED BY <2>2, <2>4 DEF ServerTask
      <2>6. [task[t] EXCEPT !.ses = ses, !.hasSeq = has] = s
            OBVIOUS
      <2>7. task[t] \in ServerTask
            BY <1>1
      <2> HIDE DEF r, s
      <2> QED BY <1>2, <2>1, <2>3, <2>5, <2>6, <2>7
<1>5. ASSUME notifyMe PROVE task' \in [Tasks -> ServerTask] /\ \A u \in Tasks : Same(u)
      <2>1. task' = task \/ (sync \in Tasks /\ task' = [task EXCEPT ![sync].told = TRUE])
            BY <1>5 DEF notifyMe, Types
      <2>2. ASSUME sync \in Tasks, task' = [task EXCEPT ![sync].told = TRUE]
            PROVE  task' \in [Tasks -> ServerTask] /\ \A u \in Tasks : Same(u)
            <3>1. PICK t \in Tasks : t = sync
                  BY <2>2
            <3>2. /\ [task[t] EXCEPT !.told = TRUE] \in ServerTask
                  /\ [task[t] EXCEPT !.told = TRUE].st = task[t].st
                  /\ [task[t] EXCEPT !.told = TRUE].proc = task[t].proc
                  /\ [task[t] EXCEPT !.told = TRUE].id = task[t].id
                  BY <1>1 DEF ServerTask
            <3>3. task' = [task EXCEPT ![t] = [task[t] EXCEPT !.told = TRUE]]
                  BY <1>1, <2>2, <3>1
            <3> QED BY <1>2, <3>2, <3>3
      <2> QED BY <1>3, <2>1, <2>2
<1>6. ASSUME NEW d \in Tasks, ResponseOther(d) PROVE task' \in [Tasks -> ServerTask] /\ \A u \in Tasks : Same(u)
      <2>1. PICK m \in net : /\ m.task = d /\ m.kind = "Ack"
                             /\ LET w == taskUniqueContainer[m.id]
                                IN  task' = IF w # None /\ m.src \in DOMAIN task[w].ses
                                            THEN [task EXCEPT ![w].ses[m.src] = TRUE] ELSE task
            BY <1>6 DEF ResponseOther
      <2> DEFINE w == taskUniqueContainer[m.id]
      <2>2. task' = task \/ (w # None /\ task' = [task EXCEPT ![w].ses[m.src] = TRUE])
            BY <2>1
      <2> HIDE DEF w
      <2>3. ASSUME w # None, task' = [task EXCEPT ![w].ses[m.src] = TRUE]
            PROVE  task' \in [Tasks -> ServerTask] /\ \A u \in Tasks : Same(u)
            <3>1. CASE w \notin Tasks
                  <4>1. task' = task
                        BY <1>1, <2>3, <3>1
                  <4> QED BY <1>3, <4>1
            <3>2. ASSUME NEW t \in Tasks, t = w PROVE task' \in [Tasks -> ServerTask] /\ \A u \in Tasks : Same(u)
                  <4> DEFINE ses == [task[t].ses EXCEPT ![m.src] = TRUE]
                  <4>1. task[t].ses \in Ses
                        BY <1>1 DEF ServerTask
                  <4>2. ses \in Ses
                        BY <4>1, SesIs
                  <4>3. task' = [task EXCEPT ![t] = [task[t] EXCEPT !.ses = ses]]
                        BY <1>1, <2>3, <3>2
                  <4> HIDE DEF ses
                  <4>4. /\ [task[t] EXCEPT !.ses = ses] \in ServerTask
                        /\ [task[t] EXCEPT !.ses = ses].st = task[t].st
                        /\ [task[t] EXCEPT !.ses = ses].proc = task[t].proc
                        /\ [task[t] EXCEPT !.ses = ses].id = task[t].id
                        BY <1>1, <4>2 DEF ServerTask
                  <4> QED BY <1>2, <4>3, <4>4
            <3> QED BY <3>1, <3>2
      <2> QED BY <1>3, <2>2, <2>3
<1> QED BY <1>4, <1>5, <1>6

\* The number the task t held, if any, is free again.
Released(t) ==
  \A i \in ServerID : taskUniqueContainer'[i] = IF taskUniqueContainer[i] = t THEN None ELSE taskUniqueContainer[i]

\* A deleted task may be used again.
LEMMA RecycleIs ==
  ASSUME Types, NEW t \in Tasks, Recycle(t)
  PROVE  /\ task' \in [Tasks -> ServerTask] /\ task'[t].st = "free" /\ \A u \in Tasks : u # t => Same(u)
         /\ taskUniqueContainer' \in [ServerID -> Tasks \cup {None}]
         /\ Released(t)
<1>1. task \in [Tasks -> ServerTask] /\ task' = [task EXCEPT ![t] = Fresh]
      BY DEF Recycle, Types
<1>2. taskUniqueContainer' = [i \in ServerID |-> IF taskUniqueContainer[i] = t THEN None ELSE taskUniqueContainer[i]]
      BY DEF Recycle
<1> QED BY <1>1, <1>2, FreshIs DEF Types, Same, Released

\* What SuperServer asks of the servers in the container.
LEMMA AskedIs ==
  ASSUME Types, NEW t \in Tasks, NEW ids, NEW m \in Asked(t, ids)
  PROVE  m \in Commands /\ m.kind = "NotifyOther" /\ m.id = task[t].id /\ open(m.task)
<1>1. PICK d \in Container : open(d) /\ m = Msg(d, "NotifyOther", task[t].id, task[d].id)
      BY DEF Asked
<1>2. d \in Tasks /\ task[t].id \in ServerID \cup {0} /\ task[d].id \in ServerID \cup {0}
      BY <1>1 DEF Container, Types, ServerTask
<1>3. m \in Commands /\ m.kind = "NotifyOther" /\ m.id = task[t].id /\ m.task = d
      BY <1>1, <1>2, MsgIs
<1> QED BY <1>1, <1>3

\* What a restart announces are numbers, over connections that are open.
LEMMA RestartIs ==
  ASSUME Types, Messages, NEW d \in Tasks, RestartNotify(d), NEW m \in net'
  PROVE  m \in net \/ (m \in Commands /\ m.kind = "NotifyOther" /\ m.id \in ServerID /\ open(m.task))
<1>1. PICK n \in net : /\ n.kind = "Restart"
                       /\ LET dst == {e \in getServer(n.src) :
                                        open(e) /\ \E w \in getServer(n.id) : n.src \in DOMAIN task[w].ses}
                          IN  net' = (net \ {n}) \cup {Msg(e, "NotifyOther", n.id, 0) : e \in dst}
      BY DEF RestartNotify
<1>2. m \in net \/ \E e \in Tasks : open(e) /\ m = Msg(e, "NotifyOther", n.id, 0)
      BY <1>1 DEF getServer, Container
<1>3. n.id \in ServerID
      BY <1>1 DEF Messages, MsgFits
<1> QED BY <1>2, <1>3, MsgIs

-----------------------------------------------------------------------------
\* The types hold when everything starts
LEMMA InitTypes == Init => Types
BY FreshIs DEF Init, Types

\* and after every step.
LEMMA NextTypes == ASSUME Types, Messages, Told, [Next]_vars PROVE Types'
<1>1. /\ phase \in [Procs -> {"down", "start", "told", "up"}]
      /\ wdServerID \in [Procs -> ServerID \cup {0}]
      /\ serverList \in [Procs -> SUBSET ServerID]
      /\ conn \in [Procs -> Tasks \cup {None}] /\ crashed \subseteq Procs
      /\ task \in [Tasks -> ServerTask]
      /\ taskUniqueContainer \in [ServerID -> Tasks \cup {None}]
      /\ sync \in Tasks \cup {None}
      /\ net \subseteq Commands \cup Lists
      BY DEF Types
<1>2. CASE UNCHANGED vars
      BY <1>2 DEF vars, Types
\* the processes
<1>3. ASSUME NEW p \in Procs, Connect(p) PROVE Types'
      <2>1. PICK t \in Tasks :
              /\ task' \in [Tasks -> ServerTask]
              /\ conn' = [conn EXCEPT ![p] = t] /\ phase' = [phase EXCEPT ![p] = "start"]
              /\ net' = net \cup {Msg(t, "Request", 0, 0)}
            BY <1>3, ConnectIs
      <2>2. Msg(t, "Request", 0, 0) \in Commands
            BY MsgIs
      <2> QED BY <1>1, <1>3, <2>1, <2>2 DEF Connect, Types
<1>4. ASSUME NEW p \in Procs, GetResponse(p) PROVE Types'
      <2>1. PICK m \in net : m.kind = "Response" /\ wdServerID' = [wdServerID EXCEPT ![p] = m.id] /\ net' = net \ {m}
            BY <1>4 DEF GetResponse
      <2>2. m.id \in ServerID \cup {0}
            BY <2>1, NetIs
      <2>3. wdServerID' \in [Procs -> ServerID \cup {0}]
            BY <1>1, <2>1, <2>2
      <2> QED BY <1>1, <1>4, <2>1, <2>3 DEF GetResponse, Types
<1>5. ASSUME NEW p \in Procs, GetNotifyMe(p) PROVE Types'
      <2>1. PICK m \in net : m.kind = "NotifyMe" /\ serverList' = [serverList EXCEPT ![p] = @ \cup m.list] /\ net' = net \ {m}
            BY <1>5 DEF GetNotifyMe
      <2>2. m.list \subseteq ServerID
            BY <2>1, NetIs
      <2>3. serverList' \in [Procs -> SUBSET ServerID]
            BY <1>1, <2>1, <2>2
      <2>4. phase' \in [Procs -> {"down", "start", "told", "up"}]
            BY <1>1, <1>5 DEF GetNotifyMe
      <2> QED BY <1>1, <1>5, <2>1, <2>3, <2>4 DEF GetNotifyMe, Types
<1>6. ASSUME NEW p \in Procs, GetNotifyOther(p) PROVE Types'
      <2>1. PICK m \in net : /\ m.kind = "NotifyOther" /\ serverList' = [serverList EXCEPT ![p] = @ \cup {m.id}]
                             /\ net' = (net \ {m}) \cup {[m EXCEPT !.kind = "Ack"]}
            BY <1>6 DEF GetNotifyOther
      <2>2. m.id \in ServerID /\ m \in Commands
            BY <2>1, NetIs DEF Messages, MsgFits
      <2>3. serverList' \in [Procs -> SUBSET ServerID]
            BY <1>1, <2>1, <2>2
      <2>4. [m EXCEPT !.kind = "Ack"] \in Commands
            BY <2>2 DEF Commands
      <2>5. net' \subseteq Commands \cup Lists
            BY <1>1, <2>1, <2>4
      <2> QED BY <1>1, <1>6, <2>3, <2>5 DEF GetNotifyOther, Types
<1>7. ASSUME NEW p \in Procs, Validate(p) PROVE Types'
      <2>1. conn[p] \in Tasks /\ wdServerID[p] \in ServerID \cup {0} /\ net' = net \cup {Msg(conn[p], "OK", wdServerID[p], 0)}
            BY <1>1, <1>7 DEF Validate, Told, Running
      <2>2. Msg(conn[p], "OK", wdServerID[p], 0) \in Commands
            BY <2>1, MsgIs
      <2>3. phase' \in [Procs -> {"down", "start", "told", "up"}]
            BY <1>1, <1>7 DEF Validate
      <2> QED BY <1>1, <1>7, <2>1, <2>2, <2>3 DEF Validate, Types
<1>8. ASSUME NEW p \in Procs, Reask(p) PROVE Types'
      <2>1. PICK i \in serverList[p] : net' = net \cup {Msg(conn[p], "Restart", wdServerID[p], i)}
            BY <1>8 DEF Reask
      <2>2. conn[p] \in Tasks /\ wdServerID[p] \in ServerID \cup {0} /\ i \in ServerID \cup {0}
            BY <1>1, <1>8 DEF Reask
      <2>3. Msg(conn[p], "Restart", wdServerID[p], i) \in Commands
            BY <2>2, MsgIs
      <2> QED BY <1>1, <1>8, <2>1, <2>3 DEF Reask, procVars, Types
<1>9. ASSUME NEW p \in Procs, InitFails(p) \/ Crash(p) PROVE Types'
      <2>1. Exit(p) /\ crashed' \subseteq Procs
            BY <1>1, <1>9 DEF InitFails, Crash
      <2> QED BY <1>1, <2>1 DEF Exit, Types
\* SuperServer
<1>10. ASSUME NEW t \in Tasks, Verify(t) PROVE Types'
       <2>1. PICK id \in ServerID : /\ task' \in [Tasks -> ServerTask]
                                    /\ net' = (net \ {Msg(t, "Request", 0, 0)}) \cup {Msg(t, "Response", id, 0)}
             BY <1>10, VerifyIs
       <2>2. Msg(t, "Response", id, 0) \in Commands
             BY MsgIs
       <2> QED BY <1>1, <1>10, <2>1, <2>2 DEF Verify, procVars, Types
<1>11. ASSUME NEW t \in Tasks, VerifyFails(t) \/ uniqueAddFails(t) PROVE Types'
       <2>1. Close(t) /\ UNCHANGED <<phase, wdServerID, serverList, crashed, taskUniqueContainer, sync>>
             BY <1>11 DEF VerifyFails, uniqueAddFails
       <2>2. task' \in [Tasks -> ServerTask]
             BY <2>1, SetTaskIs DEF Close
       <2>3. conn' \in [Procs -> Tasks \cup {None}] /\ net' \subseteq net
             BY <1>1, <2>1 DEF Close
       <2> QED BY <1>1, <2>1, <2>2, <2>3 DEF Types
<1>12. ASSUME NEW t \in Tasks, uniqueAdd(t) PROVE Types'
       <2>1. task' \in [Tasks -> ServerTask]
             BY <1>12, SetTaskIs DEF uniqueAdd
       <2>2. taskUniqueContainer' \in [ServerID -> Tasks \cup {None}]
             BY <1>1, <1>12 DEF uniqueAdd
       <2> QED BY <1>1, <1>12, <2>1, <2>2 DEF uniqueAdd, procVars, Types
<1>13. ASSUME NEW t \in Tasks, SyncOK(t) PROVE Types'
       <2>1. task' \in [Tasks -> ServerTask]
             BY <1>13, SetTaskIs DEF SyncOK
       <2> QED BY <1>1, <1>13, <2>1 DEF SyncOK, procVars, Types
<1>14. ASSUME NEW t \in Tasks, SyncRound(t) PROVE Types'
       <2>1. task' \in [Tasks -> ServerTask]
             BY <1>14, QuietIs
       <2>2. net' = net \cup Asked(t, DOMAIN List(t).ses) /\ sync' = t
             BY <1>14 DEF SyncRound
       <2>3. net' \subseteq Commands \cup Lists
             BY <1>1, <2>2, AskedIs
       <2> QED BY <1>1, <1>14, <2>1, <2>2, <2>3 DEF SyncRound, procVars, Types
<1>15. ASSUME notifyMe PROVE Types'
       <2>1. task' \in [Tasks -> ServerTask] /\ sync' = None
             BY <1>15, QuietIs DEF notifyMe
       <2>2. net' = net \/ (sync \in Tasks /\ net' = net \cup {NotifyMe(sync, DOMAIN task[sync].ses)})
             BY <1>1, <1>15 DEF notifyMe
       <2>3. ASSUME sync \in Tasks PROVE NotifyMe(sync, DOMAIN task[sync].ses) \in Lists
             <3>1. task[sync].ses \in Ses
                   BY <1>1, <2>3 DEF ServerTask
             <3>2. DOMAIN task[sync].ses \subseteq ServerID
                   BY <3>1, SesIs
             <3> QED BY <2>3, <3>2 DEF NotifyMe, Lists
       <2>4. net' \subseteq Commands \cup Lists
             BY <1>1, <2>2, <2>3
       <2> QED BY <1>1, <1>15, <2>1, <2>4 DEF notifyMe, procVars, Types
<1>16. ASSUME NEW t \in Tasks, ResponseOther(t) PROVE Types'
       <2>1. task' \in [Tasks -> ServerTask]
             BY <1>16, QuietIs
       <2>2. net' \subseteq net
             BY <1>16 DEF ResponseOther
       <2> QED BY <1>1, <1>16, <2>1, <2>2 DEF ResponseOther, procVars, Types
<1>17. ASSUME NEW t \in Tasks, RestartNotify(t) PROVE Types'
       <2>1. net' \subseteq Commands \cup Lists
             BY <1>1, <1>17, RestartIs
       <2> QED BY <1>1, <1>17, <2>1 DEF RestartNotify, procVars, Types
<1>18. ASSUME NEW t \in Tasks, TaskLost(t) PROVE Types'
       <2>1. task' \in [Tasks -> ServerTask]
             BY <1>18, SetTaskIs DEF TaskLost
       <2> QED BY <1>1, <1>18, <2>1 DEF TaskLost, procVars, Types
<1>19. ASSUME NEW t \in Tasks, Recycle(t) PROVE Types'
       <2>1. task' \in [Tasks -> ServerTask] /\ taskUniqueContainer' \in [ServerID -> Tasks \cup {None}]
             BY <1>19, RecycleIs
       <2> QED BY <1>1, <1>19, <2>1 DEF Recycle, procVars, Types
<1> QED BY <1>2, <1>3, <1>4, <1>5, <1>6, <1>7, <1>8, <1>9, <1>10, <1>11, <1>12, <1>13, <1>14, <1>15, <1>16, <1>17,
           <1>18, <1>19 DEF Next, Serve, VerifyThread, SyncThread, Others

-----------------------------------------------------------------------------
(* The life of a task.                                                     *)
\* The task t goes from one of the states in from to the state st.
Moves(t, from, st) ==
  /\ task[t].st \in from /\ task'[t].st = st /\ \A u \in Tasks : u # t => Same(u)

\* What a step may do to the tasks and to who holds which number.
LEMMA TaskSteps ==
  ASSUME Types, [Next]_vars
  PROVE  \/ (\A u \in Tasks : Same(u)) /\ taskUniqueContainer' = taskUniqueContainer
         \/ \E t \in Tasks :
              \/ /\ Moves(t, {"free"}, "verify") /\ taskUniqueContainer' = taskUniqueContainer
                 /\ \E p \in Procs : conn[p] = None /\ conn' = [conn EXCEPT ![p] = t] /\ task'[t].proc = p
              \/ /\ Moves(t, {"verify"}, "chosen") /\ task'[t].proc = task[t].proc /\ task'[t].id \in ServerID
                 /\ taskUniqueContainer' = taskUniqueContainer
              \/ /\ Moves(t, {"verify", "chosen"}, "recycle") /\ Close(t) /\ task'[t].id = task[t].id
                 /\ taskUniqueContainer' = taskUniqueContainer
              \/ /\ Moves(t, {"chosen"}, "sync") /\ task'[t].proc = task[t].proc /\ task'[t].id = task[t].id
                 /\ taskUniqueContainer[task[t].id] = None
                 /\ taskUniqueContainer' = [taskUniqueContainer EXCEPT ![task[t].id] = t]
              \/ /\ Moves(t, {"sync"}, "okay") /\ task'[t].proc = task[t].proc /\ task'[t].id = task[t].id
                 /\ taskUniqueContainer' = taskUniqueContainer /\ sync = None /\ sync' = None
              \/ /\ Moves(t, {"verify", "chosen", "sync", "okay"}, "recycle") /\ ~open(t) /\ sync # t
                 /\ task'[t].id = task[t].id
                 /\ taskUniqueContainer' = taskUniqueContainer /\ conn' = conn /\ net' = net /\ sync' = sync
              \/ /\ Moves(t, {"recycle"}, "free") /\ conn' = conn /\ net' = net
                 /\ Released(t)
<1> DEFINE Kept == (\A u \in Tasks : Same(u)) /\ taskUniqueContainer' = taskUniqueContainer
           Step(t) ==
              \/ /\ Moves(t, {"free"}, "verify") /\ taskUniqueContainer' = taskUniqueContainer
                 /\ \E p \in Procs : conn[p] = None /\ conn' = [conn EXCEPT ![p] = t] /\ task'[t].proc = p
              \/ /\ Moves(t, {"verify"}, "chosen") /\ task'[t].proc = task[t].proc /\ task'[t].id \in ServerID
                 /\ taskUniqueContainer' = taskUniqueContainer
              \/ /\ Moves(t, {"verify", "chosen"}, "recycle") /\ Close(t) /\ task'[t].id = task[t].id
                 /\ taskUniqueContainer' = taskUniqueContainer
              \/ /\ Moves(t, {"chosen"}, "sync") /\ task'[t].proc = task[t].proc /\ task'[t].id = task[t].id
                 /\ taskUniqueContainer[task[t].id] = None
                 /\ taskUniqueContainer' = [taskUniqueContainer EXCEPT ![task[t].id] = t]
              \/ /\ Moves(t, {"sync"}, "okay") /\ task'[t].proc = task[t].proc /\ task'[t].id = task[t].id
                 /\ taskUniqueContainer' = taskUniqueContainer /\ sync = None /\ sync' = None
              \/ /\ Moves(t, {"verify", "chosen", "sync", "okay"}, "recycle") /\ ~open(t) /\ sync # t
                 /\ task'[t].id = task[t].id
                 /\ taskUniqueContainer' = taskUniqueContainer /\ conn' = conn /\ net' = net /\ sync' = sync
              \/ /\ Moves(t, {"recycle"}, "free") /\ conn' = conn /\ net' = net
                 /\ Released(t)
<1> SUFFICES Kept \/ \E t \in Tasks : Step(t)
    OBVIOUS
<1>1. CASE UNCHANGED <<task, taskUniqueContainer>>
      BY <1>1 DEF Same
<1>2. ASSUME NEW p \in Procs, Connect(p) PROVE \E t \in Tasks : Step(t)
      <2>1. PICK t \in Tasks :
              /\ task[t].st = "free" /\ conn[p] = None
              /\ task'[t].st = "verify" /\ task'[t].proc = p
              /\ \A u \in Tasks : u # t => Same(u)
              /\ conn' = [conn EXCEPT ![p] = t]
            BY <1>2, ConnectIs
      <2>2. taskUniqueContainer' = taskUniqueContainer
            BY <1>2 DEF Connect
      <2> QED BY <2>1, <2>2 DEF Moves
<1>3. ASSUME NEW p \in Procs, Serve(p) \/ Crash(p) PROVE Kept
      <2>1. task' = task /\ taskUniqueContainer' = taskUniqueContainer
            BY <1>3 DEF Serve, GetResponse, GetNotifyMe, GetNotifyOther, Validate, InitFails, Reask, Crash, Exit
      <2> QED BY <2>1 DEF Same
<1>4. ASSUME NEW t \in Tasks, Verify(t) PROVE Step(t)
      <2>1. taskUniqueContainer' = taskUniqueContainer
            BY <1>4 DEF Verify
      <2> QED BY <1>4, <2>1, VerifyIs DEF Moves
<1>5. ASSUME NEW t \in Tasks, VerifyFails(t) \/ uniqueAddFails(t) PROVE Step(t)
      <2>1. Close(t) /\ task[t].st \in {"verify", "chosen"} /\ taskUniqueContainer' = taskUniqueContainer
            BY <1>5 DEF VerifyFails, uniqueAddFails
      <2>2. task'[t].st = "recycle" /\ task'[t].id = task[t].id /\ \A u \in Tasks : u # t => Same(u)
            BY <2>1, SetTaskIs DEF Close
      <2> QED BY <2>1, <2>2 DEF Moves
<1>6. ASSUME NEW t \in Tasks, uniqueAdd(t) PROVE Step(t)
      <2>1. /\ SetTask(t, "sync") /\ task[t].st = "chosen" /\ taskUniqueContainer[task[t].id] = None
            /\ taskUniqueContainer' = [taskUniqueContainer EXCEPT ![task[t].id] = t]
            BY <1>6 DEF uniqueAdd
      <2>2. task'[t].st = "sync" /\ task'[t].proc = task[t].proc /\ task'[t].id = task[t].id /\ \A u \in Tasks : u # t => Same(u)
            BY <2>1, SetTaskIs
      <2> QED BY <2>1, <2>2 DEF Moves
<1>7. ASSUME NEW t \in Tasks, SyncOK(t) PROVE Step(t)
      <2>1. SetTask(t, "okay") /\ task[t].st = "sync" /\ taskUniqueContainer' = taskUniqueContainer /\ sync = None /\ sync' = None
            BY <1>7 DEF SyncOK
      <2>2. task'[t].st = "okay" /\ task'[t].proc = task[t].proc /\ task'[t].id = task[t].id /\ \A u \in Tasks : u # t => Same(u)
            BY <2>1, SetTaskIs
      <2> QED BY <2>1, <2>2 DEF Moves
<1>8. ASSUME \/ \E t \in Tasks : SyncRound(t) \/ ResponseOther(t)
             \/ notifyMe
      PROVE  Kept
      BY <1>8, QuietIs DEF SyncRound, ResponseOther, notifyMe
<1>9. ASSUME NEW t \in Tasks, RestartNotify(t) PROVE Kept
      <2>1. task' = task /\ taskUniqueContainer' = taskUniqueContainer
            BY <1>9 DEF RestartNotify
      <2> QED BY <2>1 DEF Same
<1>10. ASSUME NEW t \in Tasks, TaskLost(t) PROVE Step(t)
       <2>1. /\ SetTask(t, "recycle") /\ task[t].st \in {"verify", "chosen", "sync", "okay"} /\ ~open(t) /\ sync # t
             /\ taskUniqueContainer' = taskUniqueContainer /\ conn' = conn /\ net' = net /\ sync' = sync
             BY <1>10 DEF TaskLost, procVars
       <2>2. task'[t].st = "recycle" /\ task'[t].id = task[t].id /\ \A u \in Tasks : u # t => Same(u)
             BY <2>1, SetTaskIs
       <2> QED BY <2>1, <2>2 DEF Moves
<1>11. ASSUME NEW t \in Tasks, Recycle(t) PROVE Step(t)
       <2>1. task[t].st = "recycle" /\ conn' = conn /\ net' = net
             BY <1>11 DEF Recycle, procVars
       <2> QED BY <1>11, <2>1, RecycleIs DEF Moves
<1>12. CASE UNCHANGED vars
       BY <1>1, <1>12 DEF vars
<1> QED BY <1>2, <1>3, <1>4, <1>5, <1>6, <1>7, <1>8, <1>9, <1>10, <1>11, <1>12
        DEF Next, VerifyThread, SyncThread, Others

\* A number is held from uniqueAdd until the task is deleted.
LEMMA NextNumbered == ASSUME Types, Numbered, [Next]_vars PROVE Numbered'
<1>1. /\ \A u \in Tasks : task[u].id \in ServerID \cup {0}
      /\ taskUniqueContainer \in [ServerID -> Tasks \cup {None}] /\ \A u \in Tasks : u # None
      BY ZoneAssumption DEF Types, ServerTask
<1> DEFINE N(u) == /\ task'[u].st \in {"chosen", "sync", "okay"} => task'[u].id \in ServerID
                   /\ task'[u].st \in {"sync", "okay"} => taskUniqueContainer'[task'[u].id] = u
<1>2. ASSUME NEW u \in Tasks, Same(u), taskUniqueContainer' = taskUniqueContainer PROVE N(u)
      BY <1>2 DEF Numbered, Same
<1>3. ASSUME NEW t \in Tasks, NEW from, NEW st \in {"free", "verify", "recycle"}, Moves(t, from, st),
             taskUniqueContainer' = taskUniqueContainer, NEW u \in Tasks
      PROVE  N(u)
      BY <1>2, <1>3 DEF Moves
<1>4. ASSUME NEW t \in Tasks, Moves(t, {"verify"}, "chosen"), task'[t].id \in ServerID,
             taskUniqueContainer' = taskUniqueContainer, NEW u \in Tasks
      PROVE  N(u)
      BY <1>2, <1>4 DEF Moves
<1>5. ASSUME NEW t \in Tasks, Moves(t, {"chosen"}, "sync"), task'[t].id = task[t].id,
             taskUniqueContainer[task[t].id] = None,
             taskUniqueContainer' = [taskUniqueContainer EXCEPT ![task[t].id] = t], NEW u \in Tasks
      PROVE  N(u)
      <2>1. task[t].id \in ServerID
            BY <1>5 DEF Numbered, Moves
      <2>2. CASE u = t
            BY <1>1, <1>5, <2>1, <2>2 DEF Moves
      <2>3. CASE u # t
            <3>1. Same(u) /\ (task[u].st \in {"sync", "okay"} => task[u].id # task[t].id)
                  BY <1>1, <1>5, <2>3 DEF Moves, Numbered
            <3> QED BY <1>5, <3>1 DEF Same, Numbered
      <2> QED BY <2>2, <2>3
<1>6. ASSUME NEW t \in Tasks, Moves(t, {"sync"}, "okay"), task'[t].id = task[t].id,
             taskUniqueContainer' = taskUniqueContainer, NEW u \in Tasks
      PROVE  N(u)
      BY <1>2, <1>6 DEF Moves, Numbered
<1>7. ASSUME NEW t \in Tasks, Moves(t, {"recycle"}, "free"),
             Released(t),
             NEW u \in Tasks
      PROVE  N(u)
      BY <1>7 DEF Moves, Numbered, Same, Released
<1>8. \A u \in Tasks : N(u)
      <2> HIDE DEF N
      <2> QED BY <1>2, <1>3, <1>4, <1>5, <1>6, <1>7, TaskSteps
<1> QED BY <1>8 DEF Numbered

-----------------------------------------------------------------------------
(* Connections.                                                            *)
\* A task in use goes on from verify to okay, with the number it was given.
Onward(t) ==
  /\ task'[t].proc = task[t].proc /\ task'[t].st \notin {"free", "recycle"}
  /\ task[t].st # "verify" => task'[t].id = task[t].id /\ task'[t].st # "verify"
  /\ task[t].st \in {"sync", "okay"} => task'[t].st \in {"sync", "okay"}

\* A process that is connected after a step was so before, to the same task, or
\* has just connected.
LEMMA ConnectedSteps ==
  ASSUME Types, Connected, [Next]_vars, NEW p \in Procs, conn'[p] # None
  PROVE  \/ conn'[p] = conn[p] /\ Onward(conn[p]) /\ phase'[p] # "down"
         \/ /\ conn[p] = None /\ conn'[p] \in Tasks
            /\ task'[conn'[p]].proc = p /\ task'[conn'[p]].st = "verify" /\ phase'[p] = "start"
<1> DEFINE Goes == \/ conn'[p] = conn[p] /\ Onward(conn[p]) /\ phase'[p] # "down"
                   \/ /\ conn[p] = None /\ conn'[p] \in Tasks
                      /\ task'[conn'[p]].proc = p /\ task'[conn'[p]].st = "verify" /\ phase'[p] = "start"
<1>1. /\ conn \in [Procs -> Tasks \cup {None}] /\ phase \in [Procs -> {"down", "start", "told", "up"}]
      /\ \A t \in Tasks : t # None
      BY ZoneAssumption DEF Types
<1>2. conn[p] # None => /\ conn[p] \in Tasks /\ phase[p] # "down" /\ task[conn[p]].proc = p
                        /\ task[conn[p]].st \notin {"free", "recycle"}
      BY <1>1 DEF Connected
<1>3. ASSUME conn'[p] = conn[p], phase'[p] # "down", Same(conn[p]) PROVE Goes
      BY <1>2, <1>3 DEF Onward, Same
<1>4. ASSUME conn'[p] = conn[p], phase'[p] # "down", NEW t \in Tasks,
             \A u \in Tasks : u # t => Same(u), conn[p] = t => Onward(t)
      PROVE  Goes
      BY <1>2, <1>3, <1>4
<1>5. ASSUME NEW q \in Procs, Connect(q) PROVE Goes
      <2>1. PICK t \in Tasks :
              /\ task[t].st = "free" /\ conn[q] = None
              /\ task'[t].st = "verify" /\ task'[t].proc = q
              /\ \A u \in Tasks : u # t => Same(u)
              /\ conn' = [conn EXCEPT ![q] = t] /\ phase' = [phase EXCEPT ![q] = "start"]
            BY <1>5, ConnectIs
      <2>2. CASE q = p
            BY <1>1, <2>1, <2>2
      <2>3. CASE q # p
            <3>1. conn'[p] = conn[p] /\ phase'[p] = phase[p]
                  BY <1>1, <2>1, <2>3
            <3> QED BY <1>2, <1>4, <2>1, <3>1
      <2> QED BY <2>2, <2>3
<1>6. ASSUME NEW q \in Procs, GetResponse(q) \/ GetNotifyMe(q) \/ GetNotifyOther(q) \/ Validate(q) \/ Reask(q)
      PROVE  Goes
      <2>1. conn' = conn /\ task' = task /\ (phase[p] # "down" => phase'[p] # "down")
            BY <1>1, <1>6 DEF GetResponse, GetNotifyMe, GetNotifyOther, Validate, Reask, procVars
      <2>2. Same(conn[p])
            BY <2>1 DEF Same
      <2> QED BY <1>2, <1>3, <2>1, <2>2
<1>7. ASSUME NEW q \in Procs, InitFails(q) \/ Crash(q) PROVE Goes
      <2>1. /\ conn' = [conn EXCEPT ![q] = None] /\ task' = task /\ phase' = [phase EXCEPT ![q] = "down"]
            BY <1>7 DEF InitFails, Crash, Exit
      <2>2. q # p /\ Same(conn[p])
            BY <1>1, <2>1 DEF Same
      <2>3. conn'[p] = conn[p] /\ phase'[p] = phase[p]
            BY <1>1, <2>1, <2>2
      <2> QED BY <1>2, <1>3, <2>2, <2>3
<1>8. ASSUME NEW t \in Tasks, Verify(t) PROVE Goes
      <2>1. /\ conn' = conn /\ phase' = phase
            /\ task[t].st = "verify" /\ task'[t].st = "chosen" /\ task'[t].proc = task[t].proc
            /\ \A u \in Tasks : u # t => Same(u)
            BY <1>8, VerifyIs DEF Verify, procVars
      <2>2. Onward(t)
            BY <2>1 DEF Onward
      <2> QED BY <1>2, <1>4, <2>1, <2>2
<1>9. ASSUME NEW t \in Tasks, VerifyFails(t) \/ uniqueAddFails(t) PROVE Goes
      <2>1. Close(t) /\ phase' = phase
            BY <1>9 DEF VerifyFails, uniqueAddFails
      <2>2. /\ conn' = [q \in Procs |-> IF conn[q] = t THEN None ELSE conn[q]]
            /\ \A u \in Tasks : u # t => Same(u)
            BY <2>1, SetTaskIs DEF Close
      <2>3. conn[p] # t /\ conn'[p] = conn[p]
            BY <2>2
      <2> QED BY <1>2, <1>4, <2>1, <2>2, <2>3
<1>10. ASSUME NEW t \in Tasks, uniqueAdd(t) PROVE Goes
       <2>1. SetTask(t, "sync") /\ task[t].st = "chosen" /\ conn' = conn /\ phase' = phase
             BY <1>10 DEF uniqueAdd, procVars
       <2>2. /\ task'[t].st = "sync" /\ task'[t].proc = task[t].proc /\ task'[t].id = task[t].id
             /\ \A u \in Tasks : u # t => Same(u)
             BY <2>1, SetTaskIs
       <2>3. Onward(t)
             BY <2>1, <2>2 DEF Onward
       <2> QED BY <1>2, <1>4, <2>1, <2>2, <2>3
<1>11. ASSUME NEW t \in Tasks, SyncOK(t) PROVE Goes
       <2>1. SetTask(t, "okay") /\ task[t].st = "sync" /\ conn' = conn /\ phase' = phase
             BY <1>11 DEF SyncOK, procVars
       <2>2. /\ task'[t].st = "okay" /\ task'[t].proc = task[t].proc /\ task'[t].id = task[t].id
             /\ \A u \in Tasks : u # t => Same(u)
             BY <2>1, SetTaskIs
       <2>3. Onward(t)
             BY <2>1, <2>2 DEF Onward
       <2> QED BY <1>2, <1>4, <2>1, <2>2, <2>3
<1>12. ASSUME \/ \E t \in Tasks : SyncRound(t) \/ ResponseOther(t)
              \/ notifyMe
       PROVE  Goes
       <2>1. conn' = conn /\ phase' = phase /\ \A u \in Tasks : Same(u)
             BY <1>12, QuietIs DEF SyncRound, ResponseOther, notifyMe, procVars
       <2> QED BY <1>2, <1>3, <2>1
<1>13. ASSUME NEW t \in Tasks, RestartNotify(t) PROVE Goes
       <2>1. conn' = conn /\ phase' = phase /\ task' = task
             BY <1>13 DEF RestartNotify, procVars
       <2>2. Same(conn[p])
             BY <2>1 DEF Same
       <2> QED BY <1>2, <1>3, <2>1, <2>2
<1>14. ASSUME NEW t \in Tasks, TaskLost(t) PROVE Goes
       <2>1. SetTask(t, "recycle") /\ ~open(t) /\ conn' = conn /\ phase' = phase
             BY <1>14 DEF TaskLost, procVars
       <2>2. conn[p] # t /\ \A u \in Tasks : u # t => Same(u)
             BY <2>1, SetTaskIs DEF open
       <2> QED BY <1>2, <1>4, <2>1, <2>2
<1>15. ASSUME NEW t \in Tasks, Recycle(t) PROVE Goes
       <2>1. task[t].st = "recycle" /\ conn' = conn /\ phase' = phase
             BY <1>15 DEF Recycle, procVars
       <2>2. conn[p] # t /\ \A u \in Tasks : u # t => Same(u)
             BY <1>2, <1>15, <2>1, RecycleIs
       <2> QED BY <1>2, <1>4, <2>1, <2>2
<1>16. ASSUME UNCHANGED vars PROVE Goes
       <2>1. conn' = conn /\ phase' = phase /\ task' = task
             BY <1>16 DEF vars
       <2>2. Same(conn[p])
             BY <2>1 DEF Same
       <2> QED BY <1>2, <1>3, <2>1, <2>2
<1> HIDE DEF Goes
<1>17. Goes
       <2>1. ASSUME NEW q \in Procs, Connect(q) \/ Serve(q) \/ Crash(q) PROVE Goes
             BY <1>5, <1>6, <1>7, <2>1 DEF Serve
       <2>2. ASSUME NEW t \in Tasks, VerifyThread(t) PROVE Goes
             BY <1>8, <1>9, <1>10, <2>2 DEF VerifyThread
       <2>3. ASSUME NEW t \in Tasks, SyncThread(t) \/ Others(t) PROVE Goes
             BY <1>11, <1>12, <1>13, <1>14, <1>15, <2>3 DEF SyncThread, Others
       <2>4. CASE notifyMe
             BY <1>12, <2>4
       <2>5. Next => Goes
             BY <2>1, <2>2, <2>3, <2>4 DEF Next
       <2> QED BY <1>16, <2>5
<1> QED BY <1>17 DEF Goes

\* A connection ends at the task of its process.
LEMMA NextConnected == ASSUME Types, Connected, [Next]_vars PROVE Connected'
<1>1. SUFFICES ASSUME NEW p \in Procs, conn'[p] # None
               PROVE  /\ phase'[p] # "down" /\ task'[conn'[p]].proc = p
                      /\ task'[conn'[p]].st \notin {"free", "recycle"}
      BY DEF Connected
<1>2. conn[p] # None => task[conn[p]].proc = p
      BY DEF Connected
<1> QED BY <1>1, <1>2, ConnectedSteps DEF Onward

\* The task in the round of the sync thread stays where it is.
LEMMA NextInSync == ASSUME Types, InSync, [Next]_vars PROVE InSync'
<1>1. sync \in Tasks \cup {None} /\ task \in [Tasks -> ServerTask]
      BY DEF Types
<1>2. sync # None => task'[sync].st = "sync"
      BY <1>1, TaskSteps DEF InSync, Moves, Same
<1>3. \/ sync' = sync \/ sync' = None
      \/ \E t \in Tasks : SyncRound(t)
      BY DEF Next, Connect, Serve, GetResponse, GetNotifyMe, GetNotifyOther, Validate, Reask, InitFails, Crash, Exit,
             VerifyThread, Verify, VerifyFails, uniqueAdd, uniqueAddFails, SyncThread, SyncOK, notifyMe,
             Others, ResponseOther, RestartNotify, TaskLost, Recycle, vars
<1>4. ASSUME NEW t \in Tasks, SyncRound(t) PROVE sync' = t /\ task'[t].st = "sync"
      BY <1>4, QuietIs DEF SyncRound, Same
<1> QED BY <1>2, <1>3, <1>4 DEF InSync

-----------------------------------------------------------------------------
(* What is in flight.                                                      *)
\* A command that stays in flight still belongs to an open connection.
LEMMA StaysOpen ==
  ASSUME Types, [Next]_vars, NEW m \in net, m \in net', open(m.task)
  PROVE  \E p \in Procs : conn[p] = m.task /\ conn'[p] = m.task
<1>1. /\ conn \in [Procs -> Tasks \cup {None}]
      /\ m.task # None
      BY NetIs DEF Types
<1>2. PICK p \in Procs : conn[p] = m.task
      BY DEF open
<1>3. ASSUME NEW q \in Procs, Connect(q) PROVE conn'[p] = conn[p]
      <2>1. conn[q] = None /\ \E t : conn' = [conn EXCEPT ![q] = t]
            BY <1>3 DEF Connect
      <2> QED BY <1>1, <1>2, <2>1
<1>4. ASSUME NEW q \in Procs, InitFails(q) \/ Crash(q) PROVE conn'[p] = conn[p]
      <2>1. conn' = [conn EXCEPT ![q] = None] /\ net' = {n \in net : n.task # conn[q]}
            BY <1>4 DEF InitFails, Crash, Exit
      <2> QED BY <1>1, <1>2, <2>1
<1>5. ASSUME NEW t \in Tasks, VerifyFails(t) \/ uniqueAddFails(t) PROVE conn'[p] = conn[p]
      <2>1. /\ conn' = [q \in Procs |-> IF conn[q] = t THEN None ELSE conn[q]]
            /\ net' = {n \in net : n.task # t}
            BY <1>5 DEF VerifyFails, uniqueAddFails, Close
      <2> QED BY <1>1, <1>2, <2>1
<1>6. \/ conn' = conn
      \/ \E q \in Procs : Connect(q) \/ InitFails(q) \/ Crash(q)
      \/ \E t \in Tasks : VerifyFails(t) \/ uniqueAddFails(t)
      BY DEF Next, Serve, GetResponse, GetNotifyMe, GetNotifyOther, Validate, Reask, VerifyThread, Verify, uniqueAdd,
             SyncThread, SyncOK, SyncRound, notifyMe, Others, ResponseOther, RestartNotify, TaskLost, Recycle,
             procVars, vars
<1>7. conn'[p] = conn[p]
      BY <1>3, <1>4, <1>5, <1>6
<1> QED BY <1>2, <1>7

\* A running server knows its number, which is one of the table.
LEMMA RunningHasNumber ==
  ASSUME Types, Numbered, Told, NEW p \in Procs, Running(p)
  PROVE  /\ conn[p] \in Tasks /\ task[conn[p]].st \in {"sync", "okay"}
         /\ wdServerID[p] = task[conn[p]].id /\ wdServerID[p] \in ServerID
         /\ taskUniqueContainer[wdServerID[p]] = conn[p]
<1>1. /\ conn[p] # None /\ task[conn[p]].st \in {"sync", "okay"} /\ Answered(conn[p])
      /\ wdServerID[p] = task[conn[p]].id
      BY DEF Told
<1>2. conn[p] \in Tasks
      BY <1>1 DEF Types
<1> QED BY <1>1, <1>2 DEF Numbered

\* What a step adds to what is in flight.
LEMMA NewMessages ==
  ASSUME Types, Numbered, Connected, Messages, InSync, Told, [Next]_vars, NEW m \in net', m \notin net
  PROVE  /\ \E p \in Procs : conn'[p] = m.task
         /\ m.kind = "Response" => m.id = task'[m.task].id /\ task'[m.task].st \notin {"free", "verify"}
         /\ m.kind = "NotifyMe" => task'[m.task].st \in {"sync", "okay"}
         /\ m.kind \in {"NotifyOther", "Ack", "Restart"} => m.id \in ServerID
         /\ m.kind = "Response" => task[m.task].st = "verify"
<1> DEFINE Fits == /\ \E p \in Procs : conn'[p] = m.task
                   /\ m.kind = "Response" => m.id = task'[m.task].id /\ task'[m.task].st \notin {"free", "verify"}
                   /\ m.kind = "NotifyMe" => task'[m.task].st \in {"sync", "okay"}
                   /\ m.kind \in {"NotifyOther", "Ack", "Restart"} => m.id \in ServerID
                   /\ m.kind = "Response" => task[m.task].st = "verify"
<1> SUFFICES Fits
    OBVIOUS
<1>1. /\ conn \in [Procs -> Tasks \cup {None}] /\ serverList \in [Procs -> SUBSET ServerID]
      /\ \A t \in Tasks : t # None
      BY ZoneAssumption DEF Types
<1>2. ASSUME NEW p \in Procs, Connect(p) PROVE Fits
      <2>1. PICK t \in Tasks : conn' = [conn EXCEPT ![p] = t] /\ net' = net \cup {Msg(t, "Request", 0, 0)}
            BY <1>2, ConnectIs
      <2>2. m.task = t /\ m.kind = "Request"
            BY <2>1 DEF Msg
      <2> QED BY <1>1, <2>1, <2>2
<1>3. ASSUME NEW p \in Procs, GetNotifyOther(p) PROVE Fits
      <2>1. PICK n \in net : /\ n.task = conn[p] /\ n.kind = "NotifyOther"
                             /\ net' = (net \ {n}) \cup {[n EXCEPT !.kind = "Ack"]}
            BY <1>3 DEF GetNotifyOther
      <2>2. n \in Commands /\ n.id \in ServerID
            BY <2>1, NetIs DEF Messages, MsgFits
      <2>3. m.task = conn[p] /\ m.kind = "Ack" /\ m.id \in ServerID
            BY <2>1, <2>2 DEF Commands
      <2>4. conn' = conn
            BY <1>3 DEF GetNotifyOther
      <2> QED BY <2>3, <2>4
<1>4. ASSUME NEW p \in Procs, Validate(p) PROVE Fits
      <2>1. m = Msg(conn[p], "OK", wdServerID[p], 0) /\ conn' = conn
            BY <1>4 DEF Validate
      <2> QED BY <2>1 DEF Msg
<1>5. ASSUME NEW p \in Procs, Reask(p) PROVE Fits
      <2>1. PICK i \in serverList[p] : m = Msg(conn[p], "Restart", wdServerID[p], i)
            BY <1>5 DEF Reask
      <2>2. conn' = conn /\ Running(p)
            BY <1>5 DEF Reask, procVars, Running
      <2>3. wdServerID[p] \in ServerID
            BY <2>2, RunningHasNumber
      <2> QED BY <2>1, <2>2, <2>3 DEF Msg
<1>6. ASSUME NEW t \in Tasks, Verify(t) PROVE Fits
      <2>1. PICK id \in ServerID : /\ task[t].st = "verify" /\ task'[t].st = "chosen" /\ task'[t].id = id
                                   /\ net' = (net \ {Msg(t, "Request", 0, 0)}) \cup {Msg(t, "Response", id, 0)}
            BY <1>6, VerifyIs
      <2>2. m.task = t /\ m.kind = "Response" /\ m.id = id
            BY <2>1 DEF Msg
      <2>3. Msg(t, "Request", 0, 0) \in net /\ Msg(t, "Request", 0, 0).task = t
            BY <1>6 DEF Verify, Msg
      <2>4. open(t) /\ conn' = conn
            BY <1>6, <2>3 DEF Messages, MsgFits, Verify, procVars
      <2> QED BY <2>1, <2>2, <2>4 DEF open
<1>7. ASSUME NEW t \in Tasks, SyncRound(t) PROVE Fits
      <2>1. m \in Asked(t, DOMAIN List(t).ses) /\ task[t].st = "sync" /\ conn' = conn
            BY <1>7 DEF SyncRound, procVars
      <2>2. PICK d \in Container : open(d) /\ m = Msg(d, "NotifyOther", task[t].id, task[d].id)
            BY <2>1 DEF Asked
      <2>3. task[t].id \in ServerID
            BY <2>1 DEF Numbered
      <2> QED BY <2>1, <2>2, <2>3 DEF Msg, open
<1>8. ASSUME notifyMe PROVE Fits
      <2>1. /\ m = NotifyMe(sync, DOMAIN task[sync].ses) /\ open(sync) /\ sync # None /\ conn' = conn
            BY <1>8 DEF notifyMe, procVars
      <2>2. sync \in Tasks /\ task'[sync].st = "sync"
            BY <1>8, <2>1, QuietIs DEF Types, InSync, Same
      <2> QED BY <2>1, <2>2 DEF NotifyMe, open
<1>9. ASSUME NEW d \in Tasks, RestartNotify(d) PROVE Fits
      <2>1. PICK n \in net :
              /\ n.task = d /\ n.kind = "Restart"
              /\ LET dst == {e \in getServer(n.src) :
                              open(e) /\ \E w \in getServer(n.id) : n.src \in DOMAIN task[w].ses}
                 IN  net' = (net \ {n}) \cup {Msg(e, "NotifyOther", n.id, 0) : e \in dst}
            BY <1>9 DEF RestartNotify
      <2>2. \E e \in getServer(n.src) : open(e) /\ m = Msg(e, "NotifyOther", n.id, 0)
            BY <2>1
      <2>3. conn' = conn /\ n.id \in ServerID
            BY <1>9, <2>1 DEF RestartNotify, procVars, Messages, MsgFits
      <2> QED BY <2>2, <2>3 DEF Msg, open
<1>10. \/ \E p \in Procs : Connect(p) \/ GetNotifyOther(p) \/ Validate(p) \/ Reask(p)
       \/ \E t \in Tasks : Verify(t) \/ SyncRound(t) \/ RestartNotify(t)
       \/ notifyMe
       \/ net' \subseteq net
       BY DEF Next, Serve, GetResponse, GetNotifyMe, InitFails, Crash, Exit, VerifyThread, VerifyFails, uniqueAddFails,
              Close, uniqueAdd, SyncThread, SyncOK, Others, ResponseOther, TaskLost, Recycle, vars
<1> HIDE DEF Fits
<1> QED BY <1>2, <1>3, <1>4, <1>5, <1>6, <1>7, <1>8, <1>9, <1>10

\* What is said of the messages on the way is inductive,
LEMMA NextMessages ==
  ASSUME Types, Numbered, Connected, Messages, InSync, Told, [Next]_vars
  PROVE  Messages'
<1>1. ASSUME NEW m \in net', m \in net
      PROVE  /\ \E p \in Procs : conn'[p] = m.task
             /\ m.kind = "Response" => m.id = task'[m.task].id /\ task'[m.task].st \notin {"free", "verify"}
             /\ m.kind = "NotifyMe" => task'[m.task].st \in {"sync", "okay"}
             /\ m.kind \in {"NotifyOther", "Ack", "Restart"} => m.id \in ServerID
      <2>1. MsgFits(m) /\ m.task # None
            BY <1>1, NetIs DEF Messages
      <2>2. PICK p \in Procs : conn[p] = m.task /\ conn'[p] = m.task
            BY <1>1, <2>1, StaysOpen DEF MsgFits
      <2>3. Onward(m.task)
            BY <2>1, <2>2, ConnectedSteps
      <2> QED BY <2>1, <2>2, <2>3 DEF MsgFits, Onward
<1> QED BY <1>1, NewMessages DEF Messages, MsgFits, open

\* Only verify takes a task on from the state in which it waits for the request.
LEMMA VerifyOnly ==
  ASSUME Types, [Next]_vars, NEW t \in Tasks, task[t].st = "verify", task'[t].st \notin {"verify", "recycle"}
  PROVE  Verify(t)
<1>1. ASSUME NEW p \in Procs, Connect(p) PROVE FALSE
      <2>1. PICK u \in Tasks : task[u].st = "free" /\ \A v \in Tasks : v # u => Same(v)
            BY <1>1, ConnectIs
      <2> QED BY <2>1 DEF Same
<1>2. ASSUME NEW u \in Tasks, NEW st \in {"sync", "okay", "recycle"}, SetTask(u, st), u = t => st = "recycle" PROVE FALSE
      BY <1>2, SetTaskIs DEF Same
<1>3. ASSUME NEW u \in Tasks, Verify(u) PROVE u = t
      BY <1>3, VerifyIs DEF Same
<1>4. ASSUME NEW u \in Tasks, VerifyThread(u) PROVE Verify(t)
      BY <1>2, <1>3, <1>4 DEF VerifyThread, VerifyFails, uniqueAdd, uniqueAddFails, Close
<1>5. ASSUME NEW u \in Tasks, SyncOK(u) \/ TaskLost(u) PROVE FALSE
      BY <1>2, <1>5 DEF SyncOK, TaskLost
<1>6. ASSUME \/ \E u \in Tasks : SyncRound(u) \/ ResponseOther(u)
             \/ notifyMe
      PROVE  FALSE
      BY <1>6, QuietIs DEF Same
<1>7. ASSUME NEW u \in Tasks, Recycle(u) PROVE FALSE
      <2>1. task[u].st = "recycle" /\ \A v \in Tasks : v # u => Same(v)
            BY <1>7, RecycleIs DEF Recycle
      <2> QED BY <2>1 DEF Same
<1>8. ASSUME task' = task PROVE FALSE
      BY <1>8
<1>9. ASSUME NEW u \in Tasks, SyncThread(u) \/ Others(u) PROVE FALSE
      BY <1>5, <1>6, <1>7, <1>8, <1>9 DEF SyncThread, Others, RestartNotify
<1>10. ASSUME NEW p \in Procs, Serve(p) \/ Crash(p) PROVE FALSE
       <2>1. task' = task
             BY <1>10 DEF Serve, GetResponse, GetNotifyMe, GetNotifyOther, Validate, InitFails, Reask, Crash, Exit
       <2> QED BY <1>8, <2>1
<1>11. Next => Verify(t)
       BY <1>1, <1>4, <1>6, <1>9, <1>10 DEF Next
<1>12. UNCHANGED vars => FALSE
       BY <1>8 DEF vars
<1> QED BY <1>11, <1>12

-----------------------------------------------------------------------------
(* What a process knows.                                                   *)
\* A process that stays connected learns its number from the Response to it
\* alone, which stays in flight until then.
LEMMA NumberSteps ==
  ASSUME Types, Connected, [Next]_vars, NEW p \in Procs, conn[p] # None, conn'[p] = conn[p]
  PROVE  \/ GetResponse(p)
         \/ /\ wdServerID'[p] = wdServerID[p]
            /\ \A m \in net : m.task = conn[p] /\ m.kind = "Response" => m \in net'
<1> DEFINE Stay == /\ wdServerID'[p] = wdServerID[p]
                   /\ \A m \in net : m.task = conn[p] /\ m.kind = "Response" => m \in net'
<1>1. /\ conn \in [Procs -> Tasks \cup {None}] /\ wdServerID \in [Procs -> ServerID \cup {0}]
      /\ \A t \in Tasks : t # None
      BY ZoneAssumption DEF Types
<1>2. ASSUME NEW q \in Procs, q # p, GetResponse(q) PROVE Stay
      <2>1. PICK n \in net : n.task = conn[q] /\ wdServerID' = [wdServerID EXCEPT ![q] = n.id] /\ net' = net \ {n}
            BY <1>2 DEF GetResponse
      <2>2. conn[q] # conn[p]
            BY <1>2 DEF Connected
      <2> QED BY <1>1, <1>2, <2>1, <2>2
<1>3. ASSUME NEW q \in Procs, InitFails(q) \/ Crash(q) PROVE Stay
      <2>1. /\ wdServerID' = [wdServerID EXCEPT ![q] = 0] /\ conn' = [conn EXCEPT ![q] = None]
            /\ net' = {n \in net : n.task # conn[q]}
            BY <1>3 DEF InitFails, Crash, Exit
      <2>2. q # p
            BY <1>1, <2>1
      <2>3. conn[q] # conn[p]
            BY <2>2 DEF Connected
      <2> QED BY <1>1, <2>1, <2>2, <2>3
<1>4. ASSUME NEW q \in Procs, GetNotifyMe(q) \/ GetNotifyOther(q) PROVE Stay
      BY <1>4 DEF GetNotifyMe, GetNotifyOther
<1>5. ASSUME NEW q \in Procs, Connect(q) \/ Validate(q) \/ Reask(q) PROVE Stay
      BY <1>5 DEF Connect, Validate, Reask, procVars
<1>6. ASSUME NEW t \in Tasks, VerifyFails(t) \/ uniqueAddFails(t) PROVE Stay
      <2>1. /\ conn' = [q \in Procs |-> IF conn[q] = t THEN None ELSE conn[q]]
            /\ net' = {n \in net : n.task # t} /\ wdServerID' = wdServerID
            BY <1>6 DEF VerifyFails, uniqueAddFails, Close
      <2>2. conn[p] # t
            BY <1>1, <2>1
      <2> QED BY <2>1, <2>2
<1>7. ASSUME NEW t \in Tasks, Verify(t) PROVE Stay
      <2>1. wdServerID' = wdServerID /\ \A m \in net : m \in net' \/ m = Msg(t, "Request", 0, 0)
            BY <1>7 DEF Verify, procVars
      <2> QED BY <2>1 DEF Msg
<1>8. ASSUME NEW t \in Tasks, SyncOK(t) \/ ResponseOther(t) \/ RestartNotify(t) PROVE Stay
      BY <1>8 DEF SyncOK, ResponseOther, RestartNotify, procVars
<1>9. ASSUME \/ notifyMe \/ UNCHANGED vars
             \/ \E t \in Tasks : uniqueAdd(t) \/ SyncRound(t) \/ TaskLost(t) \/ Recycle(t)
      PROVE  Stay
      BY <1>9 DEF uniqueAdd, SyncRound, notifyMe, TaskLost, Recycle, procVars, vars
<1> HIDE DEF Stay
<1>10. GetResponse(p) \/ Stay
       <2>1. ASSUME NEW q \in Procs, Connect(q) \/ Serve(q) \/ Crash(q) PROVE GetResponse(p) \/ Stay
             BY <1>2, <1>3, <1>4, <1>5, <2>1 DEF Serve
       <2>2. ASSUME NEW t \in Tasks, VerifyThread(t) PROVE Stay
             BY <1>6, <1>7, <1>9, <2>2 DEF VerifyThread
       <2>3. ASSUME NEW t \in Tasks, SyncThread(t) \/ Others(t) PROVE Stay
             BY <1>8, <1>9, <2>3 DEF SyncThread, Others
       <2>4. Next => GetResponse(p) \/ Stay
             BY <1>9, <2>1, <2>2, <2>3 DEF Next
       <2> QED BY <1>9, <2>4
<1> QED BY <1>10 DEF Stay

\* A process comes to run by NotifyMe alone, and as long as it runs it keeps its
\* connection.
LEMMA RunningSteps ==
  ASSUME Types, Told, [Next]_vars, NEW p \in Procs, phase'[p] \in {"told", "up"}
  PROVE  \/ GetNotifyMe(p)
         \/ Running(p) /\ conn'[p] = conn[p]
<1> DEFINE Stay == Running(p) /\ conn'[p] = conn[p]
<1>1. /\ conn \in [Procs -> Tasks \cup {None}] /\ phase \in [Procs -> {"down", "start", "told", "up"}]
      BY DEF Types
<1>2. ASSUME NEW q \in Procs, Connect(q) PROVE Stay
      <2>1. /\ phase' = [phase EXCEPT ![q] = "start"] /\ \E t : conn' = [conn EXCEPT ![q] = t]
            BY <1>2 DEF Connect
      <2> QED BY <1>1, <2>1 DEF Running
<1>3. ASSUME NEW q \in Procs, InitFails(q) \/ Crash(q) PROVE Stay
      <2>1. /\ phase' = [phase EXCEPT ![q] = "down"] /\ conn' = [conn EXCEPT ![q] = None]
            BY <1>3 DEF InitFails, Crash, Exit
      <2> QED BY <1>1, <2>1 DEF Running
<1>4. ASSUME NEW q \in Procs, q # p, GetNotifyMe(q) PROVE Stay
      BY <1>1, <1>4 DEF GetNotifyMe, Running
<1>5. ASSUME NEW q \in Procs, Validate(q) PROVE Stay
      BY <1>1, <1>5 DEF Validate, Running
<1>6. ASSUME NEW t \in Tasks, VerifyFails(t) \/ uniqueAddFails(t) PROVE Stay
      <2>1. /\ conn' = [q \in Procs |-> IF conn[q] = t THEN None ELSE conn[q]]
            /\ phase' = phase /\ task[t].st \in {"verify", "chosen"}
            BY <1>6 DEF VerifyFails, uniqueAddFails, Close
      <2>2. Running(p)
            BY <2>1 DEF Running
      <2>3. conn[p] # t
            BY <2>1, <2>2 DEF Told
      <2> QED BY <2>1, <2>2, <2>3
<1>7. \/ GetNotifyMe(p)
      \/ phase' = phase /\ conn' = conn
      \/ \E q \in Procs : Connect(q) \/ InitFails(q) \/ Crash(q) \/ Validate(q) \/ (q # p /\ GetNotifyMe(q))
      \/ \E t \in Tasks : VerifyFails(t) \/ uniqueAddFails(t)
      BY DEF Next, Serve, GetResponse, GetNotifyOther, Reask, VerifyThread, Verify, uniqueAdd,
             SyncThread, SyncOK, SyncRound, notifyMe, Others, ResponseOther, RestartNotify, TaskLost, Recycle,
             procVars, vars
<1>8. ASSUME phase' = phase /\ conn' = conn PROVE Stay
      BY <1>8 DEF Running
<1> HIDE DEF Stay
<1>9. GetNotifyMe(p) \/ Stay
      BY <1>2, <1>3, <1>4, <1>5, <1>6, <1>7, <1>8
<1> QED BY <1>9 DEF Stay

\* and so is what a process knows of its number.
LEMMA NextTold ==
  ASSUME Types, Numbered, Connected, Messages, InSync, Told, [Next]_vars
  PROVE  Told'
<1>1. SUFFICES ASSUME NEW p \in Procs
               PROVE  /\ conn'[p] # None /\ task'[conn'[p]].st # "verify"
                         /\ (\A m \in net' : ~(m.task = conn'[p] /\ m.kind = "Response"))
                         => wdServerID'[p] = task'[conn'[p]].id
                      /\ phase'[p] \in {"told", "up"} =>
                           /\ conn'[p] # None /\ task'[conn'[p]].st \in {"sync", "okay"}
                           /\ \A m \in net' : ~(m.task = conn'[p] /\ m.kind = "Response")
      BY DEF Told, Running, Answered
<1>2. conn \in [Procs -> Tasks \cup {None}] /\ \A t \in Tasks : t # None
      BY ZoneAssumption DEF Types
\* it knows its number
<1>3. ASSUME conn'[p] # None, task'[conn'[p]].st # "verify",
             \A m \in net' : ~(m.task = conn'[p] /\ m.kind = "Response")
      PROVE  wdServerID'[p] = task'[conn'[p]].id
      <2>1. PICK t : t = conn[p]
            OBVIOUS
      <2>2. conn'[p] = t /\ t # None /\ Onward(t)
            BY <1>3, <2>1, ConnectedSteps
      <2>3. CASE GetResponse(p)
            <3>1. PICK m \in net : /\ m.task = t /\ m.kind = "Response"
                                   /\ wdServerID' = [wdServerID EXCEPT ![p] = m.id]
                  BY <2>1, <2>3 DEF GetResponse
            <3>2. m.id = task[t].id /\ task[t].st \notin {"free", "verify"}
                  BY <3>1 DEF Messages, MsgFits
            <3>3. wdServerID'[p] = m.id
                  BY <3>1 DEF Types
            <3> QED BY <2>2, <3>2, <3>3 DEF Onward
      <2>4. ASSUME wdServerID'[p] = wdServerID[p], \A m \in net : m.task = t /\ m.kind = "Response" => m \in net'
            PROVE  wdServerID'[p] = task'[t].id
            <3>1. Answered(t)
                  BY <1>3, <2>2, <2>4 DEF Answered
            <3>2. CASE task[t].st # "verify"
                  BY <2>1, <2>2, <2>4, <3>1, <3>2 DEF Told, Onward
            <3>3. CASE task[t].st = "verify"
                  \* only verify takes it on, and it sends the Response
                  <4>1. t \in Tasks
                        BY <1>2, <2>1, <2>2
                  <4>2. ~(Same(t))
                        BY <1>3, <2>2, <3>3 DEF Same
                  <4>3. task'[t].st \notin {"verify", "recycle"}
                        BY <1>3, <2>2 DEF Onward
                  <4>4. Verify(t)
                        BY <3>3, <4>1, <4>2, <4>3, VerifyOnly
                  <4>5. PICK id \in ServerID : net' = (net \ {Msg(t, "Request", 0, 0)}) \cup {Msg(t, "Response", id, 0)}
                        BY <4>1, <4>4, VerifyIs
                  <4>6. Msg(t, "Response", id, 0) \in net'
                        BY <4>5
                  <4>7. Msg(t, "Response", id, 0).task = t /\ Msg(t, "Response", id, 0).kind = "Response"
                        BY DEF Msg
                  <4> QED BY <1>3, <2>2, <4>6, <4>7
            <3> QED BY <3>2, <3>3
      <2> QED BY <2>1, <2>2, <2>3, <2>4, NumberSteps
\* one that runs has been answered
<1>4. ASSUME phase'[p] \in {"told", "up"}
      PROVE  /\ conn'[p] # None /\ task'[conn'[p]].st \in {"sync", "okay"}
             /\ \A m \in net' : ~(m.task = conn'[p] /\ m.kind = "Response")
      <2>1. PICK t : t = conn[p]
            OBVIOUS
      <2>2. /\ conn'[p] = t /\ t # None /\ task[t].st \in {"sync", "okay"}
            /\ \A m \in net : ~(m.task = t /\ m.kind = "Response")
            <3>1. CASE GetNotifyMe(p)
                  <4>1. PICK m \in net : m.task = t /\ m.kind = "NotifyMe"
                        BY <2>1, <3>1 DEF GetNotifyMe
                  <4>2. t # None /\ task[t].st \in {"sync", "okay"}
                        BY <4>1, NetIs DEF Messages, MsgFits
                  <4> QED BY <2>1, <3>1, <4>2 DEF GetNotifyMe
            <3>2. CASE Running(p) /\ conn'[p] = conn[p]
                  BY <2>1, <3>2 DEF Told, Answered
            <3> QED BY <1>4, <3>1, <3>2, RunningSteps
      <2>3. task'[t].st \in {"sync", "okay"}
            BY <2>1, <2>2, ConnectedSteps DEF Onward
      <2>4. ASSUME NEW m \in net', m.task = t, m.kind = "Response" PROVE FALSE
            BY <2>2, <2>4, NewMessages
      <2> QED BY <2>2, <2>3, <2>4
<1> QED BY <1>3, <1>4

-----------------------------------------------------------------------------
\* Nothing is up.
LEMMA InitInv == Init => ZoneInv
<1>1. ASSUME Init PROVE Types
      BY <1>1, InitTypes
<1>2. ASSUME Init PROVE Numbered /\ Connected /\ Messages /\ InSync /\ Told
      BY <1>2, FreshIs DEF Init, Numbered, Connected, Messages, InSync, Told, Running
<1> QED BY <1>1, <1>2 DEF ZoneInv

\* ZoneInv is inductive.
LEMMA NextInv == ZoneInv /\ [Next]_vars => ZoneInv'
<1> SUFFICES ASSUME ZoneInv, [Next]_vars PROVE ZoneInv'
    OBVIOUS
<1>1. Types /\ Numbered /\ Connected /\ Messages /\ InSync /\ Told
      BY DEF ZoneInv
<1>2. Types'
      BY <1>1, NextTypes
<1>3. Numbered' /\ Connected' /\ InSync'
      BY <1>1, NextNumbered, NextConnected, NextInSync
<1>4. Messages' /\ Told'
      BY <1>1, NextMessages, NextTold
<1> QED BY <1>2, <1>3, <1>4 DEF ZoneInv

\* A zone that starts keeps the inductive invariant: whoever is past the verify thread
\* holds its number, and a server that runs knows it.
THEOREM ZoneInvariant == Spec => []ZoneInv
BY InitInv, NextInv, PTL DEF Spec

\* The state of SuperServer and of the processes keeps its types: a task holds a
\* number of the table or none, its list names servers of the table, the registry
\* maps numbers to tasks.
THEOREM ZoneTypes == Spec => []TypeOK
<1>1. ZoneInv => TypeOK
      <2> SUFFICES ASSUME ZoneInv PROVE TypeOK
          OBVIOUS
      <2>1. Types
            BY DEF ZoneInv
      <2>2. ASSUME NEW t \in Tasks
            PROVE  /\ task[t].st \in {"free", "verify", "chosen", "sync", "okay", "recycle"}
                   /\ task[t].proc \in Procs \cup {None} /\ task[t].id \in ServerID \cup {0}
                   /\ task[t].ses \in Ses
            BY <2>1 DEF Types, ServerTask
      <2>3. \A t \in Tasks : DOMAIN task[t].ses \subseteq ServerID /\ \A i \in DOMAIN task[t].ses : task[t].ses[i] \in BOOLEAN
            BY <2>2, SesIs
      <2> QED BY <2>1, <2>2, <2>3 DEF Types, TypeOK
<1> QED BY <1>1, ZoneInvariant, PTL

\* Two servers that have been told their list never have one number, whatever
\* threads of SuperServer raced for it: the number of each is the number of its
\* connection, that connection holds it in the registry, and a connection is of
\* one process (ServerTask::verify, uniqueAdd, ServerTask::waitSync).
THEOREM ZoneUniqueNumbers == Spec => []UniqueNumbers
<1>1. ZoneInv => UniqueNumbers
      <2> SUFFICES ASSUME ZoneInv, NEW p \in Procs, NEW q \in Procs, p # q, Running(p), Running(q),
                          wdServerID[p] = wdServerID[q]
                   PROVE  FALSE
          BY DEF UniqueNumbers
      <2>1. Types /\ Numbered /\ Connected /\ Told
            BY DEF ZoneInv
      <2>2. taskUniqueContainer[wdServerID[p]] = conn[p] /\ conn[p] \in Tasks
            BY <2>1, RunningHasNumber
      <2>3. taskUniqueContainer[wdServerID[q]] = conn[q] /\ conn[q] \in Tasks
            BY <2>1, RunningHasNumber
      <2>4. task[conn[p]].proc = p /\ task[conn[q]].proc = q
            BY <2>1, <2>2, <2>3, ZoneAssumption DEF Connected
      <2> QED BY <2>2, <2>3, <2>4
<1> QED BY <1>1, ZoneInvariant, PTL

-----------------------------------------------------------------------------
(***************************************************************************)
(* The servers a newcomer is told of know it: the second inductive         *)
(* invariant, on top of ZoneInv.                                           *)
(***************************************************************************)
\* The server of number i lets the server of number j in: it is up and knows j,
\* unless a process of its type has crashed.
Ready(i, j) ==
  \/ \E q \in crashed : TypeOf[i] = ProcType[q]
  \/ \E q \in Procs : wdServerID[q] = i /\ phase[q] = "up" /\ j \in serverList[q]

\* A set of servers, with each all of its type, that a server of type k depends on.
ListFits(D, k) ==
  /\ \A i, j \in ServerID : TypeOf[i] = TypeOf[j] /\ i \in D => j \in D
  /\ \A i \in D : TypeOf[i] \in Dependencies(k)

\* The server of number i has a type that depends on the type k.
Needs(i, k) == TypeOf[i] \in DOMAIN serverSequence /\ k \in Dependencies(TypeOf[i])

\* The number chosen is of the type of the process that asked.
Typed ==
  \A t \in Tasks : task[t].st \in {"chosen", "sync", "okay"} => TypeOf[task[t].id] = ProcType[task[t].proc]

\* Whoever holds a number has it, and is past uniqueAdd.
Holders ==
  \A i \in ServerID : taskUniqueContainer[i] # None =>
    task[taskUniqueContainer[i]].id = i /\ task[taskUniqueContainer[i]].st \in {"sync", "okay", "recycle"}

\* The list of the servers asked is of whole types the task depends on, and those
\* that have answered know the newcomer.
AskedFits(t) ==
  /\ task[t].st \in {"free", "verify", "chosen"} => DOMAIN task[t].ses = {}
  /\ task[t].st = "sync" => ListFits(DOMAIN task[t].ses, ProcType[task[t].proc])
  /\ \A i \in DOMAIN task[t].ses, j \in ServerID : task[t].ses[i] /\ task[t].id = j => Ready(i, j)
Asking == \A t \in Tasks : AskedFits(t)

\* The server of a connection in the container is up.
Okayed == \A p \in Procs : conn[p] # None /\ task[conn[p]].st = "okay" => phase[p] = "up"

\* A notice goes to a server in the container that the newcomer depends on, and
\* once answered that server knows the newcomer.
Knowing(m) ==
  /\ m.kind = "OK" => \A p \in Procs : conn[p] = m.task => phase[p] = "up"
  /\ m.kind \in {"NotifyOther", "Ack"} =>
       /\ task[m.task].st = "okay" /\ m.src \in {0, task[m.task].id}
       /\ Needs(m.id, ProcType[task[m.task].proc])
  /\ m.kind = "Ack" => \A i \in ServerID : i = task[m.task].id => Ready(i, m.id)
  /\ m.kind = "Restart" => m.src \in ServerID /\ Needs(m.id, TypeOf[m.src])
  /\ m.kind = "NotifyMe" =>
       /\ ListFits(m.list, ProcType[task[m.task].proc])
       /\ \A i \in m.list, j \in ServerID : task[m.task].id = j => Ready(i, j)
Notices == \A m \in net : Knowing(m)

\* A server that runs was told of all servers of a type it depends on or of none,
\* and those it was told of know it.
ListKnows(p) ==
  /\ phase[p] \in {"down", "start"} => serverList[p] = {}
  /\ Running(p) =>
       /\ \A i, j \in ServerID :
            TypeOf[i] = TypeOf[j] /\ TypeOf[i] \in DependsOn(p) /\ i \in serverList[p] => j \in serverList[p]
       /\ \A i \in serverList[p], j \in ServerID : TypeOf[i] \in DependsOn(p) /\ wdServerID[p] = j => Ready(i, j)
AllListsKnow == \A p \in Procs : ListKnows(p)

DependInv == Typed /\ Holders /\ Asking /\ Okayed /\ Notices /\ AllListsKnow

-----------------------------------------------------------------------------
(* What stays.                                                             *)
\* A server that is up stays up, with its number and all it knows, or crashes.
LEMMA UpSteps ==
  ASSUME ZoneInv, [Next]_vars, NEW p \in Procs, phase[p] = "up"
  PROVE  \/ Crash(p)
         \/ phase'[p] = "up" /\ wdServerID'[p] = wdServerID[p] /\ serverList[p] \subseteq serverList'[p]
<1> DEFINE Stay == phase'[p] = "up" /\ wdServerID'[p] = wdServerID[p] /\ serverList[p] \subseteq serverList'[p]
<1>1. /\ phase \in [Procs -> {"down", "start", "told", "up"}]
      /\ wdServerID \in [Procs -> ServerID \cup {0}]
      /\ serverList \in [Procs -> SUBSET ServerID]
      /\ conn[p] # None
      BY DEF ZoneInv, Types, Told, Running
<1>2. ASSUME NEW q \in Procs, Connect(q) PROVE Stay
      <2>1. q # p
            BY <1>1, <1>2 DEF Connect
      <2> QED BY <1>1, <1>2, <2>1 DEF Connect
<1>3. ASSUME NEW q \in Procs, InitFails(q) \/ (q # p /\ Crash(q)) PROVE Stay
      <2>1. q # p
            BY <1>3 DEF InitFails
      <2>2. /\ phase' = [phase EXCEPT ![q] = "down"] /\ wdServerID' = [wdServerID EXCEPT ![q] = 0]
            /\ serverList' = [serverList EXCEPT ![q] = {}]
            BY <1>3 DEF InitFails, Crash, Exit
      <2> QED BY <1>1, <2>1, <2>2
<1>4. ASSUME NEW q \in Procs, GetResponse(q) PROVE Stay
      <2>1. q # p /\ phase' = phase /\ serverList' = serverList /\ \E n : wdServerID' = [wdServerID EXCEPT ![q] = n]
            BY <1>4 DEF GetResponse
      <2> QED BY <1>1, <2>1
<1>5. ASSUME NEW q \in Procs, GetNotifyMe(q) PROVE Stay
      <2>1. /\ q # p /\ phase' = [phase EXCEPT ![q] = "told"] /\ wdServerID' = wdServerID
            /\ \E l : serverList' = [serverList EXCEPT ![q] = @ \cup l]
            BY <1>5 DEF GetNotifyMe
      <2> QED BY <1>1, <2>1
<1>6. ASSUME NEW q \in Procs, GetNotifyOther(q) PROVE Stay
      <2>1. /\ phase' = phase /\ wdServerID' = wdServerID
            /\ \E i : serverList' = [serverList EXCEPT ![q] = @ \cup {i}]
            BY <1>6 DEF GetNotifyOther
      <2> QED BY <1>1, <2>1
<1>7. ASSUME NEW q \in Procs, Validate(q) PROVE Stay
      BY <1>1, <1>7 DEF Validate
<1>8. \/ Crash(p)
      \/ phase' = phase /\ wdServerID' = wdServerID /\ serverList' = serverList
      \/ \E q \in Procs : \/ Connect(q) \/ InitFails(q) \/ (q # p /\ Crash(q)) \/ GetResponse(q) \/ GetNotifyMe(q)
                          \/ GetNotifyOther(q) \/ Validate(q)
      BY DEF Next, Serve, Reask, VerifyThread, Verify, VerifyFails, uniqueAddFails, uniqueAdd,
             SyncThread, SyncOK, SyncRound, notifyMe, Others, ResponseOther, RestartNotify, TaskLost, Recycle,
             procVars, vars
<1> HIDE DEF Stay
<1>9. Crash(p) \/ Stay
      <2>1. phase' = phase /\ wdServerID' = wdServerID /\ serverList' = serverList => Stay
            BY DEF Stay
      <2> QED BY <1>2, <1>3, <1>4, <1>5, <1>6, <1>7, <1>8, <2>1
<1> QED BY <1>9 DEF Stay

\* After the step as before: the server of number i lets that of number j in.
ReadyNext(i, j) ==
  \/ \E q \in crashed' : TypeOf[i] = ProcType[q]
  \/ \E q \in Procs : wdServerID'[q] = i /\ phase'[q] = "up" /\ j \in serverList'[q]

\* A server that lets another in does so until one of its type crashes.
LEMMA ReadyStays ==
  ASSUME ZoneInv, Typed, [Next]_vars, NEW i, NEW j, Ready(i, j)
  PROVE  ReadyNext(i, j)
<1>1. crashed \subseteq crashed'
      BY DEF Next, Connect, Serve, GetResponse, GetNotifyMe, GetNotifyOther, Validate, Reask, InitFails, Crash, Exit,
             VerifyThread, Verify, VerifyFails, uniqueAddFails, uniqueAdd,
             SyncThread, SyncOK, SyncRound, notifyMe, Others, ResponseOther, RestartNotify, TaskLost, Recycle,
             procVars, vars
<1>2. ASSUME NEW q \in Procs, wdServerID[q] = i, phase[q] = "up", j \in serverList[q] PROVE ReadyNext(i, j)
      <2>1. CASE Crash(q)
            <3>1. q \in crashed'
                  BY <2>1 DEF Crash
            <3>2. conn[q] \in Tasks /\ task[conn[q]].st \in {"sync", "okay"} /\ wdServerID[q] = task[conn[q]].id
                  BY <1>2, RunningHasNumber DEF ZoneInv, Running
            <3>3. task[conn[q]].proc = q
                  BY <3>2, ZoneAssumption DEF ZoneInv, Connected
            <3>4. TypeOf[i] = ProcType[q]
                  BY <1>2, <3>2, <3>3 DEF Typed
            <3> QED BY <3>1, <3>4 DEF ReadyNext
      <2>2. CASE phase'[q] = "up" /\ wdServerID'[q] = wdServerID[q] /\ serverList[q] \subseteq serverList'[q]
            BY <1>2, <2>2 DEF ReadyNext
      <2> QED BY <1>2, <2>1, <2>2, UpSteps
<1> QED BY <1>1, <1>2 DEF Ready, ReadyNext

\* A server in the container stays there until it is closed.
LEMMA OkayStays ==
  ASSUME Types, [Next]_vars, NEW t \in Tasks, task[t].st = "okay", task'[t].st # "recycle"
  PROVE  task'[t].st = "okay"
BY TaskSteps DEF Moves, Same

\* What a step may do to the list of a task.
LEMMA SesSteps ==
  ASSUME Types, Messages, [Next]_vars, NEW t \in Tasks
  PROVE  \/ task'[t].ses = task[t].ses /\ (task[t].st = "recycle" => task'[t].st = "recycle")
         \/ DOMAIN task'[t].ses = {}
         \/ /\ SyncRound(t) /\ task[t].st = "sync"
            /\ task'[t].ses = [i \in Prefix(serverSequence[ProcType[task[t].proc]]) |-> FALSE]
         \/ \E m \in net : /\ m.kind = "Ack" /\ m.id \in ServerID /\ taskUniqueContainer[m.id] = t
                           /\ m.src \in DOMAIN task[t].ses /\ Same(t)
                           /\ task'[t].ses = [task[t].ses EXCEPT ![m.src] = TRUE]
<1> DEFINE Kept == task'[t].ses = task[t].ses /\ (task[t].st = "recycle" => task'[t].st = "recycle")
           New == DOMAIN task'[t].ses = {}
           Round == /\ SyncRound(t) /\ task[t].st = "sync"
                    /\ task'[t].ses = [i \in Prefix(serverSequence[ProcType[task[t].proc]]) |-> FALSE]
           Answer == \E m \in net : /\ m.kind = "Ack" /\ m.id \in ServerID /\ taskUniqueContainer[m.id] = t
                                    /\ m.src \in DOMAIN task[t].ses /\ Same(t)
                                    /\ task'[t].ses = [task[t].ses EXCEPT ![m.src] = TRUE]
<1> SUFFICES Kept \/ New \/ Round \/ Answer
    OBVIOUS
<1>1. task \in [Tasks -> ServerTask] /\ task[t] \in ServerTask
      BY DEF Types
<1>2. ASSUME NEW u \in Tasks, NEW st, SetTask(u, st), task[u].st = "recycle" => st = "recycle" PROVE Kept
      <2>1. task' = [task EXCEPT ![u] = [task[u] EXCEPT !.st = st]]
            BY <1>1, <1>2 DEF SetTask
      <2>2. [task[u] EXCEPT !.st = st].ses = task[u].ses /\ [task[u] EXCEPT !.st = st].st = st
            BY <1>1 DEF ServerTask
      <2> QED BY <1>1, <1>2, <2>1, <2>2
<1>3. ASSUME task' = task PROVE Kept
      BY <1>3
<1>4. ASSUME NEW p \in Procs, Connect(p) PROVE Kept \/ New
      <2> DEFINE u == Min({v \in Tasks : task[v].st = "free"})
      <2>1. task' = [task EXCEPT ![u] = [Fresh EXCEPT !.st = "verify", !.proc = p]]
            BY <1>4 DEF Connect
      <2> HIDE DEF u
      <2>2. DOMAIN [Fresh EXCEPT !.st = "verify", !.proc = p].ses = {}
            BY DEF Fresh
      <2> QED BY <1>1, <2>1, <2>2
<1>5. ASSUME NEW u \in Tasks, Verify(u) PROVE Kept
      <2> DEFINE id == Min(FreeRows(u))
      <2>1. task' = [task EXCEPT ![u] = [task[u] EXCEPT !.st = "chosen", !.id = id]] /\ task[u].st = "verify"
            BY <1>1, <1>5 DEF Verify
      <2> HIDE DEF id
      <2>2. [task[u] EXCEPT !.st = "chosen", !.id = id].ses = task[u].ses
            BY <1>1 DEF ServerTask
      <2> QED BY <1>1, <2>1, <2>2
<1>6. ASSUME NEW u \in Tasks, SyncRound(u) PROVE Kept \/ Round
      <2> DEFINE seq == serverSequence[ProcType[task[u].proc]]
                 ses == [i \in Prefix(seq) |-> FALSE]
                 has == \A n \in DOMAIN seq : Complete(seq[n])
                 new == [task[u] EXCEPT !.ses = ses, !.hasSeq = has]
      <2>1. task' = [task EXCEPT ![u] = List(u)] /\ task[u].st = "sync"
            BY <1>6 DEF SyncRound
      <2>2. List(u) = task[u] \/ List(u) = new
            BY DEF List
      <2>3. new.ses = ses
            <3> HIDE DEF ses, has
            <3> QED BY <1>1 DEF ServerTask
      <2>4. CASE u = t /\ List(u) = new
            <3>1. task'[t].ses = ses
                  <4> HIDE DEF ses, new
                  <4> QED BY <1>1, <2>1, <2>3, <2>4
            <3> QED BY <1>6, <2>1, <2>4, <3>1
      <2>5. CASE u # t \/ List(u) = task[u]
            BY <1>1, <2>1, <2>5
      <2> QED BY <2>2, <2>4, <2>5
<1>7. ASSUME notifyMe PROVE Kept
      <2>1. task' = task \/ (sync \in Tasks /\ task' = [task EXCEPT ![sync] = [task[sync] EXCEPT !.told = TRUE]])
            BY <1>1, <1>7 DEF notifyMe, Types
      <2>2. sync \in Tasks => /\ [task[sync] EXCEPT !.told = TRUE].ses = task[sync].ses
                              /\ [task[sync] EXCEPT !.told = TRUE].st = task[sync].st
            BY <1>1 DEF ServerTask
      <2> QED BY <1>1, <2>1, <2>2
<1>8. ASSUME NEW d \in Tasks, ResponseOther(d) PROVE Kept \/ Answer
      <2>1. PICK m \in net : /\ m.task = d /\ m.kind = "Ack"
                             /\ LET w == taskUniqueContainer[m.id]
                                IN  task' = IF w # None /\ m.src \in DOMAIN task[w].ses
                                            THEN [task EXCEPT ![w].ses[m.src] = TRUE] ELSE task
            BY <1>8 DEF ResponseOther
      <2> DEFINE w == taskUniqueContainer[m.id]
      <2>2. \/ task' = task
            \/ /\ m.src \in DOMAIN task[w].ses
               /\ task' = [task EXCEPT ![w].ses[m.src] = TRUE]
            BY <2>1
      <2>3. CASE t # w
            <3> HIDE DEF w
            <3> QED BY <1>1, <2>2, <2>3
      <2>4. ASSUME t = w, m.src \in DOMAIN task[t].ses, task' = [task EXCEPT ![t].ses[m.src] = TRUE]
            PROVE  Kept \/ Answer
            <3> DEFINE ses == [task[t].ses EXCEPT ![m.src] = TRUE]
            <3>1. task' = [task EXCEPT ![t] = [task[t] EXCEPT !.ses = ses]]
                  BY <1>1, <2>4
            <3>2. task'[t].ses = ses
                  <4> HIDE DEF ses
                  <4>1. [task[t] EXCEPT !.ses = ses].ses = ses
                        BY <1>1 DEF ServerTask
                  <4> QED BY <1>1, <3>1, <4>1
            <3>3. m.id \in ServerID
                  BY <2>1 DEF Messages, MsgFits
            <3>4. Same(t)
                  BY <1>8, QuietIs
            <3> QED BY <2>1, <2>4, <3>2, <3>3, <3>4
      <2> QED BY <2>2, <2>3, <2>4, <1>3
<1>9. ASSUME NEW u \in Tasks, Recycle(u) PROVE Kept \/ New
      <2>1. task' = [task EXCEPT ![u] = Fresh] /\ DOMAIN Fresh.ses = {}
            BY <1>9 DEF Recycle, Fresh
      <2> QED BY <1>1, <2>1
<1> HIDE DEF Kept, New, Round, Answer
<1>10. ASSUME NEW u \in Tasks, VerifyThread(u) PROVE Kept \/ New
       BY <1>2, <1>5, <1>10 DEF VerifyThread, VerifyFails, uniqueAddFails, uniqueAdd, Close
<1>11. ASSUME NEW u \in Tasks, SyncThread(u) \/ Others(u) PROVE Kept \/ New \/ Round \/ Answer
       BY <1>2, <1>3, <1>6, <1>8, <1>9, <1>11 DEF SyncThread, SyncOK, Others, RestartNotify, TaskLost
<1>12. ASSUME NEW p \in Procs, Serve(p) \/ Crash(p) PROVE Kept
       <2>1. task' = task
             BY <1>12 DEF Serve, GetResponse, GetNotifyMe, GetNotifyOther, Validate, InitFails, Reask, Crash, Exit
       <2> QED BY <1>3, <2>1
<1> QED BY <1>3, <1>4, <1>7, <1>10, <1>11, <1>12 DEF Next, vars

-----------------------------------------------------------------------------
\* verify chooses a number of the type of the process,
LEMMA VerifyTyped ==
  ASSUME Types, NEW t \in Tasks, Verify(t)
  PROVE  TypeOf[task'[t].id] = ProcType[task'[t].proc]
<1> DEFINE id == Min(FreeRows(t))
<1>1. id \in FreeRows(t)
      <2>1. FreeRows(t) \in SUBSET Nat /\ FreeRows(t) # {}
            BY ZoneAssumption DEF FreeRows, Rows, Verify
      <2> QED BY <2>1, Smallest
<1>2. TypeOf[id] = ProcType[task[t].proc]
      BY <1>1 DEF FreeRows, Rows
<1>3. task' = [task EXCEPT ![t] = [task[t] EXCEPT !.st = "chosen", !.id = id]]
      <2>1. task' = [task EXCEPT ![t].st = "chosen", ![t].id = id]
            BY DEF Verify
      <2> HIDE DEF id
      <2> QED BY <2>1 DEF Types
<1> HIDE DEF id
<1>4. /\ [task[t] EXCEPT !.st = "chosen", !.id = id].id = id
      /\ [task[t] EXCEPT !.st = "chosen", !.id = id].proc = task[t].proc
      BY DEF Types, ServerTask
<1>5. task'[t] = [task[t] EXCEPT !.st = "chosen", !.id = id]
      BY <1>3 DEF Types
<1> QED BY <1>2, <1>4, <1>5

\* and the task keeps it.
LEMMA NextTyped == ASSUME Types, Typed, [Next]_vars PROVE Typed'
<1>1. SUFFICES ASSUME NEW t \in Tasks, task'[t].st \in {"chosen", "sync", "okay"}
               PROVE  TypeOf[task'[t].id] = ProcType[task'[t].proc]
      BY DEF Typed
<1>2. CASE task[t].st = "verify"
      BY <1>1, <1>2, VerifyOnly, VerifyTyped
<1>3. CASE task[t].st # "verify"
      <2>1. /\ task[t].st \in {"chosen", "sync", "okay"}
            /\ task'[t].id = task[t].id /\ task'[t].proc = task[t].proc
            BY <1>1, <1>3, TaskSteps DEF Moves, Same
      <2> QED BY <2>1 DEF Typed
<1> QED BY <1>2, <1>3

\* A number is held by a task that has it.
LEMMA NextHolders == ASSUME ZoneInv, Holders, [Next]_vars PROVE Holders'
<1>0. Types /\ Types' /\ Numbered
      BY NextInv DEF ZoneInv
<1>1. SUFFICES ASSUME NEW i \in ServerID, NEW u \in Tasks, taskUniqueContainer'[i] = u
               PROVE  task'[u].id = i /\ task'[u].st \in {"sync", "okay", "recycle"}
      BY <1>0 DEF Types, Holders
<1> DEFINE Holds == task'[u].id = i /\ task'[u].st \in {"sync", "okay", "recycle"}
<1>2. taskUniqueContainer \in [ServerID -> Tasks \cup {None}] /\ \A t \in Tasks : t # None
      BY <1>0, ZoneAssumption DEF Types
<1>3. taskUniqueContainer[i] = u => task[u].id = i /\ task[u].st \in {"sync", "okay", "recycle"}
      BY <1>2 DEF Holders
<1>4. ASSUME taskUniqueContainer[i] = u, Same(u) PROVE Holds
      BY <1>3, <1>4 DEF Same
<1>5. ASSUME NEW t \in Tasks, NEW from \in SUBSET {"free", "verify", "chosen"}, NEW st, Moves(t, from, st),
             taskUniqueContainer' = taskUniqueContainer
      PROVE  Holds
      BY <1>1, <1>3, <1>4, <1>5 DEF Moves
<1>6. ASSUME NEW t \in Tasks, NEW from, NEW st \in {"okay", "recycle"}, Moves(t, from, st), task'[t].id = task[t].id,
             taskUniqueContainer' = taskUniqueContainer
      PROVE  Holds
      BY <1>1, <1>3, <1>4, <1>6 DEF Moves
<1>7. ASSUME NEW t \in Tasks, Moves(t, {"chosen"}, "sync"), task'[t].id = task[t].id,
             taskUniqueContainer' = [taskUniqueContainer EXCEPT ![task[t].id] = t]
      PROVE  Holds
      <2>1. task[t].id \in ServerID
            BY <1>0, <1>7 DEF Numbered, Moves
      <2>2. CASE i = task[t].id
            BY <1>1, <1>2, <1>7, <2>1, <2>2 DEF Moves
      <2>3. CASE i # task[t].id
            BY <1>1, <1>2, <1>3, <1>4, <1>7, <2>3 DEF Moves
      <2> QED BY <2>2, <2>3
<1>8. ASSUME NEW t \in Tasks, Moves(t, {"recycle"}, "free"), Released(t)
      PROVE  Holds
      BY <1>1, <1>2, <1>4, <1>8 DEF Moves, Released
<1> HIDE DEF Holds
<1>9. Holds
      BY <1>0, <1>1, <1>4, <1>5, <1>6, <1>7, <1>8, TaskSteps
<1> QED BY <1>9 DEF Holds

\* Only the confirmation takes a task from sync to okay.
LEMMA OkayOnly ==
  ASSUME Types, [Next]_vars, NEW t \in Tasks, task[t].st = "sync", task'[t].st = "okay"
  PROVE  SyncOK(t)
<1>1. ASSUME NEW p \in Procs, Connect(p) PROVE FALSE
      <2>1. PICK u \in Tasks : task[u].st = "free" /\ \A v \in Tasks : v # u => Same(v)
            BY <1>1, ConnectIs
      <2> QED BY <2>1 DEF Same
<1>2. ASSUME NEW u \in Tasks, NEW st \in {"sync", "recycle"}, SetTask(u, st) PROVE FALSE
      BY <1>2, SetTaskIs DEF Same
<1>3. ASSUME NEW u \in Tasks, Verify(u) PROVE FALSE
      BY <1>3, VerifyIs DEF Same
<1>4. ASSUME NEW u \in Tasks, VerifyThread(u) PROVE FALSE
      BY <1>2, <1>3, <1>4 DEF VerifyThread, VerifyFails, uniqueAdd, uniqueAddFails, Close
<1>5. ASSUME NEW u \in Tasks, SyncOK(u) PROVE u = t
      <2>1. SetTask(u, "okay")
            BY <1>5 DEF SyncOK
      <2> QED BY <2>1, SetTaskIs DEF Same
<1>6. ASSUME \/ \E u \in Tasks : SyncRound(u) \/ ResponseOther(u)
             \/ notifyMe
      PROVE  FALSE
      BY <1>6, QuietIs DEF Same
<1>7. ASSUME NEW u \in Tasks, Recycle(u) PROVE FALSE
      <2>1. task[u].st = "recycle" /\ \A v \in Tasks : v # u => Same(v)
            BY <1>7, RecycleIs DEF Recycle
      <2> QED BY <2>1 DEF Same
<1>8. ASSUME task' = task PROVE FALSE
      BY <1>8
<1>9. ASSUME NEW u \in Tasks, SyncThread(u) \/ Others(u) PROVE SyncOK(t)
      BY <1>2, <1>5, <1>6, <1>7, <1>8, <1>9 DEF SyncThread, Others, RestartNotify, TaskLost
<1>10. ASSUME NEW p \in Procs, Serve(p) \/ Crash(p) PROVE FALSE
       <2>1. task' = task
             BY <1>10 DEF Serve, GetResponse, GetNotifyMe, GetNotifyOther, Validate, InitFails, Reask, Crash, Exit
       <2> QED BY <1>8, <2>1
<1> QED BY <1>1, <1>4, <1>6, <1>8, <1>9, <1>10 DEF Next, vars

\* The server of a connection in the container is up: it has confirmed.
LEMMA NextOkayed == ASSUME ZoneInv, Okayed, Notices, [Next]_vars PROVE Okayed'
<1>1. Types /\ Connected
      BY DEF ZoneInv
<1>2. SUFFICES ASSUME NEW p \in Procs, conn'[p] # None, task'[conn'[p]].st = "okay"
               PROVE  phase'[p] = "up"
      BY DEF Okayed
<1>3. PICK t : t = conn[p]
      OBVIOUS
<1>4. conn'[p] = t /\ t \in Tasks
      BY <1>1, <1>2, <1>3, ConnectedSteps DEF Types
<1>5. CASE task[t].st = "okay"
      <2>1. phase[p] = "up"
            BY <1>2, <1>3, <1>4, <1>5 DEF Okayed
      <2>2. ~Crash(p)
            BY <1>1, <1>2 DEF Types, Crash, Exit
      <2> QED BY <2>1, <2>2, UpSteps
<1>6. CASE task[t].st # "okay"
      <2>1. task[t].st = "sync" /\ ~Same(t)
            BY <1>1, <1>2, <1>4, <1>6, TaskSteps DEF Moves, Same
      <2>2. SyncOK(t)
            BY <1>1, <1>2, <1>4, <2>1, OkayOnly
      <2>3. PICK m \in net : m.task = t /\ m.kind = "OK"
            BY <2>2 DEF SyncOK
      <2>4. phase[p] = "up" /\ phase' = phase
            BY <1>3, <2>2, <2>3 DEF Notices, Knowing, SyncOK, procVars
      <2> QED BY <2>4
<1> QED BY <1>5, <1>6

-----------------------------------------------------------------------------
\* The servers of a sequence that are asked: all of a type or none, of types in it.
LEMMA PrefixFits ==
  ASSUME NEW k
  PROVE  ListFits(Prefix(serverSequence[k]), k)
BY DEF ListFits, Prefix, Dependencies

\* What is asked for a newcomer, and who has answered.
LEMMA NextAsking == ASSUME ZoneInv, DependInv, [Next]_vars PROVE Asking'
<1>0. /\ Types /\ Messages /\ Numbered /\ Typed /\ Holders /\ Asking /\ Notices
      BY DEF ZoneInv, DependInv
<1>1. SUFFICES ASSUME NEW t \in Tasks
               PROVE  /\ task'[t].st \in {"free", "verify", "chosen"} => DOMAIN task'[t].ses = {}
                      /\ task'[t].st = "sync" => ListFits(DOMAIN task'[t].ses, ProcType[task'[t].proc])
                      /\ \A i \in DOMAIN task'[t].ses, j \in ServerID :
                           task'[t].ses[i] /\ task'[t].id = j => ReadyNext(i, j)
      BY DEF Asking, AskedFits, Ready, ReadyNext
<1> DEFINE Empty == task'[t].st \in {"free", "verify", "chosen"} => DOMAIN task'[t].ses = {}
           Whole == task'[t].st = "sync" => ListFits(DOMAIN task'[t].ses, ProcType[task'[t].proc])
           Answers == \A i \in DOMAIN task'[t].ses, j \in ServerID :
                        task'[t].ses[i] /\ task'[t].id = j => ReadyNext(i, j)
<1>2. /\ task[t].st \in {"free", "verify", "chosen"} => DOMAIN task[t].ses = {}
      /\ task[t].st = "sync" => ListFits(DOMAIN task[t].ses, ProcType[task[t].proc])
      /\ \A i \in DOMAIN task[t].ses, j \in ServerID : task[t].ses[i] /\ task[t].id = j => ReadyNext(i, j)
      BY <1>0, ReadyStays DEF Asking, AskedFits
\* the list stays
<1>3. CASE task'[t].ses = task[t].ses /\ (task[t].st = "recycle" => task'[t].st = "recycle")
      <2>1. /\ task'[t].st \in {"free", "verify", "chosen"} => task[t].st \in {"free", "verify", "chosen"}
            /\ task'[t].st = "sync" => /\ task[t].st \in {"chosen", "sync"}
                                       /\ task'[t].proc = task[t].proc
            /\ task[t].st \notin {"free", "verify", "chosen"} => task'[t].id = task[t].id
            BY <1>0, <1>3, TaskSteps DEF Moves, Same
      <2>2. Empty
            BY <1>2, <1>3, <2>1
      <2>3. Whole
            <3>1. CASE task[t].st = "sync"
                  BY <1>2, <1>3, <2>1, <3>1
            <3>2. CASE task[t].st = "chosen"
                  BY <1>2, <1>3, <3>2 DEF ListFits
            <3> QED BY <2>1, <3>1, <3>2
      <2>4. Answers
            BY <1>2, <1>3, <2>1
      <2> QED BY <2>2, <2>3, <2>4
\* a task not yet used
<1>4. CASE DOMAIN task'[t].ses = {}
      BY <1>4 DEF ListFits
\* a new list, without an answer
<1>5. CASE /\ SyncRound(t) /\ task[t].st = "sync"
           /\ task'[t].ses = [i \in Prefix(serverSequence[ProcType[task[t].proc]]) |-> FALSE]
      <2> DEFINE k == ProcType[task[t].proc]
      <2>1. Same(t) /\ DOMAIN task'[t].ses = Prefix(serverSequence[k])
            BY <1>0, <1>5, QuietIs
      <2>2. ListFits(Prefix(serverSequence[k]), k)
            BY PrefixFits
      <2>3. Empty /\ Whole
            BY <1>5, <2>1, <2>2 DEF Same
      <2>4. Answers
            BY <1>5
      <2> QED BY <2>3, <2>4
\* one answer more
<1>6. ASSUME NEW m \in net, m.kind = "Ack", m.id \in ServerID, taskUniqueContainer[m.id] = t,
             m.src \in DOMAIN task[t].ses, Same(t), task'[t].ses = [task[t].ses EXCEPT ![m.src] = TRUE]
      PROVE  Empty /\ Whole /\ Answers
      <2>1. t # None /\ task[t].id = m.id
            BY <1>0, <1>6, ZoneAssumption DEF Holders
      <2>2. /\ DOMAIN task'[t].ses = DOMAIN task[t].ses
            /\ \A i \in DOMAIN task[t].ses : task'[t].ses[i] => task[t].ses[i] \/ i = m.src
            BY <1>6
      <2>3. m.src \in ServerID
            BY <1>0, <1>6, SesIs DEF Types, ServerTask
      <2>4. ReadyNext(m.src, m.id)
            <3>1. m.src = task[m.task].id
                  BY <1>0, <1>6, <2>3, ZoneAssumption DEF Notices, Knowing
            <3>2. Ready(m.src, m.id)
                  BY <1>0, <1>6, <2>3, <3>1 DEF Notices, Knowing
            <3> QED BY <1>0, <3>2, ReadyStays
      <2>5. task[t].st \notin {"free", "verify", "chosen"}
            BY <1>2, <1>6
      <2>6. Empty /\ Whole
            BY <1>2, <1>6, <2>2, <2>5 DEF Same
      <2>7. Answers
            BY <1>2, <1>6, <2>1, <2>2, <2>4 DEF Same
      <2> QED BY <2>6, <2>7
<1> HIDE DEF Empty, Whole, Answers
<1>7. Empty /\ Whole /\ Answers
      <2>1. CASE task'[t].ses = task[t].ses /\ (task[t].st = "recycle" => task'[t].st = "recycle")
            BY <1>3, <2>1 DEF Empty, Whole, Answers
      <2>2. CASE DOMAIN task'[t].ses = {}
            BY <1>4, <2>2 DEF Empty, Whole, Answers
      <2>3. CASE /\ SyncRound(t) /\ task[t].st = "sync"
                 /\ task'[t].ses = [i \in Prefix(serverSequence[ProcType[task[t].proc]]) |-> FALSE]
            BY <1>5, <2>3 DEF Empty, Whole, Answers
      <2> QED BY <1>0, <1>6, <2>1, <2>2, <2>3, SesSteps
<1> QED BY <1>7 DEF Empty, Whole, Answers

-----------------------------------------------------------------------------
\* After the step as before: what a message that is in flight says.
KnowingNext(m) ==
  /\ m.kind = "OK" => \A p \in Procs : conn'[p] = m.task => phase'[p] = "up"
  /\ m.kind \in {"NotifyOther", "Ack"} =>
       /\ task'[m.task].st = "okay" /\ m.src \in {0, task'[m.task].id}
       /\ Needs(m.id, ProcType[task'[m.task].proc])
  /\ m.kind = "Ack" => \A i \in ServerID : i = task'[m.task].id => ReadyNext(i, m.id)
  /\ m.kind = "Restart" => m.src \in ServerID /\ Needs(m.id, TypeOf[m.src])
  /\ m.kind = "NotifyMe" =>
       /\ ListFits(m.list, ProcType[task'[m.task].proc])
       /\ \A i \in m.list, j \in ServerID : task'[m.task].id = j => ReadyNext(i, j)

\* What is said of a message stays true while it is in flight.
LEMMA OldNotices ==
  ASSUME ZoneInv, DependInv, [Next]_vars, NEW m \in net, m \in net'
  PROVE  KnowingNext(m)
<1>0. /\ Types /\ Messages /\ Connected /\ Typed /\ Knowing(m) /\ MsgFits(m)
      /\ m.task \in Tasks /\ m.task # None
      BY NetIs DEF ZoneInv, DependInv, Messages, Notices
<1>1. PICK p \in Procs : conn[p] = m.task /\ conn'[p] = m.task
      BY <1>0, StaysOpen DEF MsgFits
<1>2. Onward(m.task)
      BY <1>0, <1>1, ConnectedSteps
<1>3. \A q \in Procs : conn'[q] = m.task => q = p
      BY <1>0, <1>1, NextConnected DEF Connected
<1>4. \A i, j : Ready(i, j) => ReadyNext(i, j)
      BY <1>0, ReadyStays
<1>5. ASSUME m.kind = "OK", NEW q \in Procs, conn'[q] = m.task PROVE phase'[q] = "up"
      <2>1. q = p /\ phase[p] = "up"
            BY <1>0, <1>1, <1>3, <1>5 DEF Knowing
      <2>2. ~Crash(p)
            BY <1>0, <1>1 DEF Types, Crash, Exit
      <2> QED BY <2>1, <2>2, UpSteps
<1>6. ASSUME m.kind \in {"NotifyOther", "Ack"}
      PROVE  /\ task'[m.task].st = "okay" /\ m.src \in {0, task'[m.task].id}
             /\ Needs(m.id, ProcType[task'[m.task].proc])
             /\ task'[m.task].id = task[m.task].id
      <2>1. /\ task[m.task].st = "okay" /\ m.src \in {0, task[m.task].id}
            /\ Needs(m.id, ProcType[task[m.task].proc])
            BY <1>0, <1>6 DEF Knowing
      <2>2. task'[m.task].st = "okay"
            BY <1>0, <1>2, <2>1, OkayStays DEF Onward
      <2> QED BY <1>2, <2>1, <2>2 DEF Onward
<1>7. ASSUME m.kind = "Ack", NEW i \in ServerID, i = task'[m.task].id PROVE ReadyNext(i, m.id)
      BY <1>0, <1>4, <1>6, <1>7 DEF Knowing
<1>8. ASSUME m.kind = "NotifyMe"
      PROVE  /\ ListFits(m.list, ProcType[task'[m.task].proc])
             /\ \A i \in m.list, j \in ServerID : task'[m.task].id = j => ReadyNext(i, j)
      <2>1. task'[m.task].id = task[m.task].id /\ task'[m.task].proc = task[m.task].proc
            BY <1>0, <1>2, <1>8 DEF MsgFits, Onward
      <2> QED BY <1>0, <1>4, <1>8, <2>1 DEF Knowing
<1>9. m.kind = "Restart" => m.src \in ServerID /\ Needs(m.id, TypeOf[m.src])
      BY <1>0 DEF Knowing
<1> QED BY <1>5, <1>6, <1>7, <1>8, <1>9 DEF KnowingNext

\* The parts of a command, and of a list.
LEMMA PartsAre ==
  /\ \A t, kind, id, src : /\ Msg(t, kind, id, src).task = t /\ Msg(t, kind, id, src).kind = kind
                           /\ Msg(t, kind, id, src).id = id /\ Msg(t, kind, id, src).src = src
  /\ \A t, list : NotifyMe(t, list).task = t /\ NotifyMe(t, list).kind = "NotifyMe" /\ NotifyMe(t, list).list = list
BY DEF Msg, NotifyMe

\* The task at the end of a connection of a running server has its number, of its type.
LEMMA RunningIsTyped ==
  ASSUME ZoneInv, Typed, NEW p \in Procs, Running(p)
  PROVE  /\ conn[p] \in Tasks /\ conn[p] # None /\ task[conn[p]].proc = p /\ task[conn[p]].id = wdServerID[p]
         /\ wdServerID[p] \in ServerID /\ TypeOf[wdServerID[p]] = ProcType[p]
         /\ ProcType[p] \in DOMAIN serverSequence
<1>1. /\ conn[p] \in Tasks /\ task[conn[p]].st \in {"sync", "okay"}
      /\ wdServerID[p] = task[conn[p]].id /\ wdServerID[p] \in ServerID
      BY RunningHasNumber DEF ZoneInv
<1>2. conn[p] # None /\ task[conn[p]].proc = p
      BY <1>1, ZoneAssumption DEF ZoneInv, Connected
<1> QED BY <1>1, <1>2, ZoneAssumption DEF Typed

\* A round keeps the list of a task or makes a new one.
LEMMA ListDomain ==
  ASSUME Types, NEW t \in Tasks, SyncRound(t)
  PROVE  \/ DOMAIN List(t).ses = DOMAIN task[t].ses
         \/ DOMAIN List(t).ses = Prefix(serverSequence[ProcType[task[t].proc]])
<1> DEFINE seq == serverSequence[ProcType[task[t].proc]]
           has == \A n \in DOMAIN seq : Complete(seq[n])
           ses == [i \in Prefix(seq) |-> FALSE]
<1>1. List(t) = task[t] \/ List(t) = [task[t] EXCEPT !.ses = ses, !.hasSeq = has]
      BY DEF List
<1>2. [task[t] EXCEPT !.ses = ses, !.hasSeq = has].ses = ses
      <2> HIDE DEF ses, has
      <2> QED BY DEF Types, ServerTask
<1>3. DOMAIN ses = Prefix(seq)
      OBVIOUS
<1> QED BY <1>1, <1>2, <1>3

\* What a step adds to what is in flight is true as well.
LEMMA NewNotices ==
  ASSUME ZoneInv, DependInv, [Next]_vars, NEW m \in net', m \notin net
  PROVE  KnowingNext(m)
<1>0. Types /\ Messages /\ Connected /\ InSync /\ Typed /\ Asking /\ Okayed /\ Notices
      BY DEF ZoneInv, DependInv
<1>1. \A i, j : Ready(i, j) => ReadyNext(i, j)
      BY <1>0, ReadyStays
\* a request, a number
<1>2. ASSUME m.kind \in {"Request", "Response"} PROVE KnowingNext(m)
      BY <1>2 DEF KnowingNext
<1>3. ASSUME NEW p \in Procs, Connect(p) PROVE KnowingNext(m)
      <2>1. \E t \in Tasks : net' = net \cup {Msg(t, "Request", 0, 0)}
            BY <1>0, <1>3, ConnectIs
      <2> QED BY <1>2, <2>1, PartsAre
<1>4. ASSUME NEW t \in Tasks, Verify(t) PROVE KnowingNext(m)
      <2>1. \E id \in ServerID : net' = (net \ {Msg(t, "Request", 0, 0)}) \cup {Msg(t, "Response", id, 0)}
            BY <1>0, <1>4, VerifyIs
      <2> QED BY <1>2, <2>1, PartsAre
\* the answer of a server that now knows the newcomer
<1>5. ASSUME NEW p \in Procs, GetNotifyOther(p) PROVE KnowingNext(m)
      <2>1. PICK n \in net : /\ n.task = conn[p] /\ n.kind = "NotifyOther"
                             /\ serverList' = [serverList EXCEPT ![p] = @ \cup {n.id}]
                             /\ net' = (net \ {n}) \cup {[n EXCEPT !.kind = "Ack"]}
            BY <1>5 DEF GetNotifyOther
      <2>2. n \in Commands
            BY <1>0, <2>1, NetIs
      <2>3. m.task = conn[p] /\ m.kind = "Ack" /\ m.id = n.id /\ m.src = n.src
            BY <2>1, <2>2 DEF Commands
      <2>4. /\ task[conn[p]].st = "okay" /\ n.src \in {0, task[conn[p]].id}
            /\ Needs(n.id, ProcType[task[conn[p]].proc])
            BY <1>0, <2>1 DEF Notices, Knowing
      <2>5. Running(p) /\ phase' = phase /\ wdServerID' = wdServerID /\ task' = task
            BY <1>5 DEF GetNotifyOther, Running
      <2>6. conn[p] # None /\ task[conn[p]].id = wdServerID[p]
            BY <1>0, <2>5, RunningIsTyped
      <2>7. phase[p] = "up"
            BY <1>0, <2>4, <2>6 DEF Okayed
      <2>8. n.id \in serverList'[p]
            BY <1>0, <2>1 DEF Types
      <2>9. ReadyNext(wdServerID[p], n.id)
            BY <2>5, <2>7, <2>8 DEF ReadyNext
      <2> QED BY <2>3, <2>4, <2>5, <2>6, <2>9 DEF KnowingNext
\* the confirmation of a server that is now up
<1>6. ASSUME NEW p \in Procs, Validate(p) PROVE KnowingNext(m)
      <2>1. /\ m = Msg(conn[p], "OK", wdServerID[p], 0) /\ conn' = conn
            /\ phase' = [phase EXCEPT ![p] = "up"] /\ Running(p)
            BY <1>6 DEF Validate, Running
      <2>2. m.kind = "OK" /\ m.task = conn[p]
            BY <2>1, PartsAre
      <2>3. conn[p] # None
            BY <1>0, <2>1, RunningIsTyped
      <2>4. \A q \in Procs : conn[q] = conn[p] => q = p
            BY <1>0, <2>3 DEF Connected
      <2>5. phase'[p] = "up"
            BY <1>0, <2>1 DEF Types
      <2> QED BY <2>1, <2>2, <2>4, <2>5 DEF KnowingNext
\* a server asks about one it depends on
<1>7. ASSUME NEW p \in Procs, Reask(p) PROVE KnowingNext(m)
      <2>1. PICK i \in serverList[p] : TypeOf[i] \in Reasks[ProcType[p]] /\ m = Msg(conn[p], "Restart", wdServerID[p], i)
            BY <1>7 DEF Reask
      <2>2. m.kind = "Restart" /\ m.id = wdServerID[p] /\ m.src = i
            BY <2>1, PartsAre
      <2>3. Running(p)
            BY <1>7 DEF Reask, Running
      <2>4. TypeOf[wdServerID[p]] = ProcType[p] /\ ProcType[p] \in DOMAIN serverSequence
            BY <1>0, <2>3, RunningIsTyped
      <2>5. TypeOf[i] \in Dependencies(ProcType[p])
            BY <2>1, <2>4, ZoneAssumption
      <2>6. i \in ServerID
            BY <1>0, <2>1 DEF Types
      <2>7. Needs(m.id, TypeOf[m.src])
            BY <2>2, <2>4, <2>5 DEF Needs
      <2> QED BY <2>2, <2>6, <2>7 DEF KnowingNext
\* the servers of a list are told of the newcomer
<1>8. ASSUME NEW t \in Tasks, SyncRound(t) PROVE KnowingNext(m)
      <2> DEFINE k == ProcType[task[t].proc]
      <2>1. /\ m \in Asked(t, DOMAIN List(t).ses) /\ task[t].st = "sync" /\ open(t)
            /\ task' = [task EXCEPT ![t] = List(t)]
            BY <1>8 DEF SyncRound
      <2>2. PICK d \in Container : /\ task[d].id \in DOMAIN List(t).ses /\ open(d)
                                   /\ m = Msg(d, "NotifyOther", task[t].id, task[d].id)
            BY <2>1 DEF Asked
      <2>3. ListFits(DOMAIN task[t].ses, k) /\ ListFits(Prefix(serverSequence[k]), k)
            BY <1>0, <2>1, PrefixFits DEF Asking, AskedFits
      <2>4. DOMAIN List(t).ses = DOMAIN task[t].ses \/ DOMAIN List(t).ses = Prefix(serverSequence[k])
            BY <1>0, <1>8, ListDomain
      <2>5. TypeOf[task[d].id] \in Dependencies(k)
            BY <2>2, <2>3, <2>4 DEF ListFits
      <2>6. d \in Tasks /\ task[d].st = "okay"
            BY <2>2 DEF Container
      <2>7. TypeOf[task[d].id] = ProcType[task[d].proc] /\ TypeOf[task[t].id] = k
            BY <1>0, <2>1, <2>6 DEF Typed
      <2>8. k \in DOMAIN serverSequence
            <3>1. PICK p \in Procs : conn[p] = t
                  BY <2>1 DEF open
            <3>2. task[t].proc = p
                  BY <1>0, <3>1, ZoneAssumption DEF Connected
            <3> QED BY <3>2, ZoneAssumption
      <2>9. Needs(task[t].id, ProcType[task[d].proc])
            BY <2>5, <2>7, <2>8 DEF Needs
      <2>10. Same(d)
            BY <1>0, <1>8, <2>6, QuietIs
      <2>11. m.task = d /\ m.kind = "NotifyOther" /\ m.id = task[t].id /\ m.src = task[d].id
            BY <2>2, PartsAre
      <2> QED BY <2>6, <2>9, <2>10, <2>11 DEF KnowingNext, Same
\* the newcomer is told of them
<1>9. ASSUME notifyMe PROVE KnowingNext(m)
      <2>1. PICK t : t = sync
            OBVIOUS
      <2>2. m = NotifyMe(t, DOMAIN task[t].ses) /\ AllAnswered(t) /\ t # None
            BY <1>9, <2>1 DEF notifyMe
      <2>3. t \in Tasks /\ task[t].st = "sync"
            BY <1>0, <2>1, <2>2 DEF Types, InSync
      <2>4. Same(t)
            BY <1>0, <1>9, <2>3, QuietIs
      <2>5. m.task = t /\ m.kind = "NotifyMe" /\ m.list = DOMAIN task[t].ses
            BY <2>2, PartsAre
      <2>6. /\ ListFits(m.list, ProcType[task[t].proc])
            /\ \A i \in m.list, j \in ServerID : task[t].id = j => Ready(i, j)
            BY <1>0, <2>2, <2>3, <2>5 DEF Asking, AskedFits, AllAnswered
      <2> QED BY <1>1, <2>4, <2>5, <2>6 DEF KnowingNext, Same
\* a restarted server is told of the one that asked
<1>10. ASSUME NEW d \in Tasks, RestartNotify(d) PROVE KnowingNext(m)
       <2>1. PICK n \in net :
               /\ n.task = d /\ n.kind = "Restart"
               /\ LET dst == {e \in getServer(n.src) :
                               open(e) /\ \E w \in getServer(n.id) : n.src \in DOMAIN task[w].ses}
                  IN  net' = (net \ {n}) \cup {Msg(e, "NotifyOther", n.id, 0) : e \in dst}
             BY <1>10 DEF RestartNotify
       <2>2. PICK e \in getServer(n.src) : m = Msg(e, "NotifyOther", n.id, 0)
             BY <2>1
       <2>3. e \in Tasks /\ task[e].st = "okay" /\ task[e].id = n.src
             BY <2>2 DEF getServer, Container
       <2>4. Needs(n.id, TypeOf[n.src])
             BY <1>0, <2>1 DEF Notices, Knowing
       <2>5. TypeOf[task[e].id] = ProcType[task[e].proc]
             BY <1>0, <2>3 DEF Typed
       <2>6. m.task = e /\ m.kind = "NotifyOther" /\ m.id = n.id /\ m.src = 0
             BY <2>2, PartsAre
       <2>7. task' = task
             BY <1>10 DEF RestartNotify
       <2> QED BY <2>3, <2>4, <2>5, <2>6, <2>7 DEF KnowingNext
<1>11. \/ \E p \in Procs : Connect(p) \/ GetNotifyOther(p) \/ Validate(p) \/ Reask(p)
       \/ \E t \in Tasks : Verify(t) \/ SyncRound(t) \/ RestartNotify(t)
       \/ notifyMe
       \/ net' \subseteq net
       BY DEF Next, Serve, GetResponse, GetNotifyMe, InitFails, Crash, Exit, VerifyThread, VerifyFails, uniqueAddFails,
              Close, uniqueAdd, SyncThread, SyncOK, Others, ResponseOther, TaskLost, Recycle, vars
<1> QED BY <1>3, <1>4, <1>5, <1>6, <1>7, <1>8, <1>9, <1>10, <1>11

\* What is said of the messages in flight is inductive.
LEMMA NextNotices == ASSUME ZoneInv, DependInv, [Next]_vars PROVE Notices'
<1>1. \A m \in net' : KnowingNext(m)
      BY OldNotices, NewNotices
<1> QED BY <1>1 DEF Notices, Knowing, KnowingNext, Ready, ReadyNext

-----------------------------------------------------------------------------
\* A server that runs learns of others by NotifyOther alone, and one that does
\* not run knows none.
LEMMA ListSteps ==
  ASSUME Types, [Next]_vars, NEW p \in Procs
  PROVE  \/ serverList'[p] = serverList[p] /\ (phase[p] \in {"told", "up"} => phase'[p] \in {"told", "up"})
         \/ serverList'[p] = {}
         \/ GetNotifyMe(p)
         \/ GetNotifyOther(p)
<1> DEFINE Stay == serverList'[p] = serverList[p] /\ (phase[p] \in {"told", "up"} => phase'[p] \in {"told", "up"})
<1>1. /\ phase \in [Procs -> {"down", "start", "told", "up"}]
      /\ serverList \in [Procs -> SUBSET ServerID]
      BY DEF Types
<1>2. ASSUME NEW q \in Procs, Connect(q) PROVE Stay
      BY <1>1, <1>2 DEF Connect
<1>3. ASSUME NEW q \in Procs, InitFails(q) \/ Crash(q) PROVE Stay \/ serverList'[p] = {}
      <2>1. /\ phase' = [phase EXCEPT ![q] = "down"] /\ serverList' = [serverList EXCEPT ![q] = {}]
            BY <1>3 DEF InitFails, Crash, Exit
      <2> QED BY <1>1, <2>1
<1>4. ASSUME NEW q \in Procs, q # p, GetNotifyMe(q) PROVE Stay
      <2>1. /\ phase' = [phase EXCEPT ![q] = "told"] /\ \E l : serverList' = [serverList EXCEPT ![q] = @ \cup l]
            BY <1>4 DEF GetNotifyMe
      <2> QED BY <1>1, <1>4, <2>1
<1>5. ASSUME NEW q \in Procs, q # p, GetNotifyOther(q) PROVE Stay
      <2>1. phase' = phase /\ \E i : serverList' = [serverList EXCEPT ![q] = @ \cup {i}]
            BY <1>5 DEF GetNotifyOther
      <2> QED BY <1>1, <1>5, <2>1
<1>6. ASSUME NEW q \in Procs, Validate(q) PROVE Stay
      BY <1>1, <1>6 DEF Validate
<1>7. \/ phase' = phase /\ serverList' = serverList
      \/ GetNotifyMe(p) \/ GetNotifyOther(p)
      \/ \E q \in Procs : \/ Connect(q) \/ InitFails(q) \/ Crash(q) \/ (q # p /\ GetNotifyMe(q))
                          \/ (q # p /\ GetNotifyOther(q)) \/ Validate(q)
      BY DEF Next, Serve, GetResponse, Reask, VerifyThread, Verify, VerifyFails, uniqueAddFails, uniqueAdd,
             SyncThread, SyncOK, SyncRound, notifyMe, Others, ResponseOther, RestartNotify, TaskLost, Recycle,
             procVars, vars
<1> QED BY <1>2, <1>3, <1>4, <1>5, <1>6, <1>7

\* Who a running server was told of knows it after the step.
LEMMA NextAllListsKnow == ASSUME ZoneInv, DependInv, [Next]_vars PROVE AllListsKnow'
<1>0. Types /\ Connected /\ Messages /\ Told /\ Typed /\ Notices /\ AllListsKnow
      BY DEF ZoneInv, DependInv
<1>1. /\ phase \in [Procs -> {"down", "start", "told", "up"}]
      /\ wdServerID \in [Procs -> ServerID \cup {0}]
      /\ serverList \in [Procs -> SUBSET ServerID]
      BY <1>0 DEF Types
<1>2. \A i, j : Ready(i, j) => ReadyNext(i, j)
      BY <1>0, ReadyStays
<1>3. SUFFICES ASSUME NEW p \in Procs
               PROVE  /\ phase'[p] \in {"down", "start"} => serverList'[p] = {}
                      /\ phase'[p] \in {"told", "up"} =>
                           /\ \A i, j \in ServerID :
                                TypeOf[i] = TypeOf[j] /\ TypeOf[i] \in DependsOn(p) /\ i \in serverList'[p]
                                => j \in serverList'[p]
                           /\ \A i \in serverList'[p], j \in ServerID :
                                TypeOf[i] \in DependsOn(p) /\ wdServerID'[p] = j => ReadyNext(i, j)
      BY DEF AllListsKnow, ListKnows, Running, Ready, ReadyNext
<1>4. ListKnows(p)
      BY <1>0 DEF AllListsKnow
<1>5. ASSUME phase'[p] \in {"down", "start"} PROVE serverList'[p] = {}
      <2>1. ~GetNotifyMe(p) /\ ~GetNotifyOther(p)
            BY <1>1, <1>5 DEF GetNotifyMe, GetNotifyOther
      <2>2. CASE serverList'[p] = serverList[p] /\ phase[p] \notin {"told", "up"}
            BY <1>1, <1>4, <2>2 DEF ListKnows
      <2> QED BY <1>0, <1>5, <2>1, <2>2, ListSteps
<1> DEFINE k == ProcType[p]
           Tells == /\ \A i, j \in ServerID :
                         TypeOf[i] = TypeOf[j] /\ TypeOf[i] \in Dependencies(k) /\ i \in serverList'[p]
                         => j \in serverList'[p]
                    /\ \A i \in serverList'[p], j \in ServerID :
                         TypeOf[i] \in Dependencies(k) /\ wdServerID'[p] = j => ReadyNext(i, j)
\* it has just been told
<1>6. ASSUME GetNotifyMe(p) PROVE Tells
      <2>1. PICK m \in net : /\ m.task = conn[p] /\ m.kind = "NotifyMe" /\ phase[p] = "start"
                             /\ serverList' = [serverList EXCEPT ![p] = @ \cup m.list]
                             /\ wdServerID' = wdServerID
            BY <1>6 DEF GetNotifyMe
      <2>2. serverList'[p] = m.list
            BY <1>1, <1>4, <2>1 DEF ListKnows
      <2>3. conn[p] # None /\ task[conn[p]].st # "verify"
            BY <1>0, <2>1, NetIs DEF Messages, MsgFits
      <2>4. wdServerID[p] = task[conn[p]].id
            BY <1>0, <1>6, <2>3 DEF Told, Answered, GetNotifyMe
      <2>5. task[conn[p]].proc = p
            BY <1>0, <2>3 DEF Connected
      <2>6. /\ ListFits(m.list, k)
            /\ \A i \in m.list, j \in ServerID : wdServerID[p] = j => Ready(i, j)
            BY <1>0, <2>1, <2>4, <2>5 DEF Notices, Knowing
      <2> QED BY <1>2, <2>1, <2>2, <2>6 DEF ListFits
\* it runs, and is told of one that depends on it
<1>7. ASSUME GetNotifyOther(p) PROVE Tells
      <2>1. PICK m \in net : /\ m.task = conn[p] /\ m.kind = "NotifyOther" /\ Running(p)
                             /\ serverList' = [serverList EXCEPT ![p] = @ \cup {m.id}]
                             /\ wdServerID' = wdServerID
            BY <1>7 DEF GetNotifyOther, Running
      <2>2. serverList'[p] = serverList[p] \cup {m.id}
            BY <1>1, <2>1
      <2>3. Needs(m.id, k)
            BY <1>0, <2>1, RunningIsTyped DEF Notices, Knowing
      <2>4. TypeOf[m.id] \notin Dependencies(k)
            BY <2>3, ZoneAssumption, SequenceAssumption DEF Needs
      <2> QED BY <1>2, <1>4, <2>1, <2>2, <2>4 DEF ListKnows, DependsOn
\* it runs on
<1>8. ASSUME Running(p), conn'[p] = conn[p], serverList'[p] = serverList[p] PROVE Tells
      <2>1. conn[p] # None /\ ~GetResponse(p)
            BY <1>0, <1>8, RunningIsTyped DEF GetResponse, Running
      <2>2. wdServerID'[p] = wdServerID[p]
            BY <1>0, <1>8, <2>1, NumberSteps
      <2> QED BY <1>2, <1>4, <1>8, <2>2 DEF ListKnows, DependsOn
<1>9. ASSUME serverList'[p] = {} PROVE Tells
      BY <1>9
<1> HIDE DEF Tells
<1>10. ASSUME phase'[p] \in {"told", "up"} PROVE Tells
       BY <1>0, <1>6, <1>7, <1>8, <1>9, <1>10, RunningSteps, ListSteps
<1> QED BY <1>5, <1>10 DEF Tells, DependsOn

-----------------------------------------------------------------------------
\* Nothing is up, nobody is told.
LEMMA InitDepend == Init => DependInv
BY FreshIs, ZoneAssumption DEF Init, Fresh, DependInv, Typed, Holders, Asking, AskedFits, Okayed, Notices, AllListsKnow,
   ListKnows, Running

\* DependInv is inductive on top of ZoneInv.
LEMMA NextDepend == ZoneInv /\ DependInv /\ [Next]_vars => DependInv'
<1> SUFFICES ASSUME ZoneInv, DependInv, [Next]_vars PROVE DependInv'
    OBVIOUS
<1>1. Types /\ Typed /\ Holders /\ Okayed /\ Notices
      BY DEF ZoneInv, DependInv
<1>2. Typed' /\ Holders' /\ Okayed'
      BY <1>1, NextTyped, NextHolders, NextOkayed
<1>3. Asking' /\ Notices' /\ AllListsKnow'
      BY NextAsking, NextNotices, NextAllListsKnow
<1> QED BY <1>2, <1>3 DEF DependInv

\* A zone that starts keeps the second invariant: whatever is on the way to a newcomer
\* names servers that know it.
THEOREM ZoneDepend == Spec => []DependInv
BY ZoneInvariant, InitDepend, NextDepend, PTL DEF Spec

\* A server that runs may connect to each server it was told of: each is up and
\* knows the newcomer's number, however its answer and the rounds of processSequence
\* crossed, unless one of its type has crashed; and of a type it depends on it was
\* told all servers or none (ServerTask::processSequence, notifyOther, notifyMe,
\* ServerManager::responseOther).
THEOREM ZoneDependencyKnows == Spec => []DependencyKnows
<1>1. ZoneInv /\ DependInv => DependencyKnows
      <2> SUFFICES ASSUME ZoneInv, DependInv, NEW p \in Procs, Running(p)
                   PROVE  /\ \A i \in Listed(p) :
                               \/ \E q \in crashed : TypeOf[i] = ProcType[q]
                               \/ \E q \in Procs : /\ wdServerID[q] = i /\ phase[q] = "up"
                                                   /\ wdServerID[p] \in serverList[q]
                          /\ \A k \in DependsOn(p) : Rows(k) \subseteq serverList[p] \/ Rows(k) \cap serverList[p] = {}
          BY DEF DependencyKnows
      <2>1. ListKnows(p) /\ wdServerID[p] \in ServerID
            BY RunningIsTyped DEF DependInv, AllListsKnow
      <2>2. ASSUME NEW i \in Listed(p) PROVE Ready(i, wdServerID[p])
            BY <2>1, <2>2 DEF ListKnows, Listed
      <2>3. ASSUME NEW k \in DependsOn(p), NEW i \in Rows(k), i \in serverList[p] PROVE Rows(k) \subseteq serverList[p]
            BY <2>1, <2>3 DEF ListKnows, Rows
      <2> QED BY <2>2, <2>3 DEF Ready
<1> QED BY <1>1, ZoneInvariant, ZoneDepend, PTL
=============================================================================
