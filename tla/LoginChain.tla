----------------------------- MODULE LoginChain -----------------------------
(***************************************************************************)
(* An account's way into a zone and out of it.  The client asks FLServer,  *)
(* which picks a gateway; SuperServer passes the new session to the bill   *)
(* server, which admits an account once (BillUser) and hands the session   *)
(* to the gateway (LoginSessionManager); the client is told, connects to   *)
(* the gateway, whose task asks the bill server again (t_LoginVerify) and  *)
(* waits for the answer; when the client has gone the gateway's recycle    *)
(* thread reports the logout.                                              *)
(*                                                                         *)
(* A login is one attempt; it stands for its loginTempID and, on the       *)
(* gateway, for the one task that uses up its session.  Times (10 s for    *)
(* a session and a waiting user, 5 s before a logout) are left open: what  *)
(* is timed may happen at any moment.                                      *)
(***************************************************************************)
EXTENDS Naturals, Sequences, SequencesExt

CONSTANTS Login,    \* the login attempts (a bound)
          Account,
          accid,    \* the account of each login
          Gateway,
          MaxLoss,  \* how often a gateway loses the bill server (a bound)
          None

\* BillUser: the login it was made for, and the gateway's connection by which
\* it was made
BillUser == [tempid : Login, state : {"WAIT_LOGIN", "CONF_LOGIN", "CONF_LOGOUT"},
             gatewaytask : Gateway \X (0 .. MaxLoss)]

ASSUME LoginAssumption ==
  /\ accid \in [Login -> Account] /\ MaxLoss \in Nat /\ None \notin Login \cup Gateway \cup BillUser

VARIABLES
  client,      \* of a login: new, asked, told (of its gateway), refused
  wdGatewayID, \* the gateway FLServer picked for it
  toBillSuper, \* FLServer -> SuperServer -> bill server: sessions asked for
  toFL,        \* bill server or gateway -> SuperServer -> FLServer: answers
  user,        \* BillUserManager: the user of an account, or None
  billTask,    \* the gateway's connection at the bill server: okay, broken,
               \* swept (checkRecycle has run), none
  epoch,       \* which of its connections that is
  toGate,      \* bill server -> gateway
  toBill,      \* gateway -> bill server
  sessionData, \* LoginSessionManager of a gateway: account -> login
  gatewayTaskSet, \* GatewayTaskManager of a gateway: account -> login
  task         \* the gateway's task of a login

billVars == <<user, billTask, epoch>>
gateVars == <<sessionData, gatewayTaskSet, task>>
netVars  == <<toBillSuper, toFL, toGate, toBill>>
vars == <<client, wdGatewayID, netVars, billVars, gateVars>>

\* chosen: past verifyConn; NONE .. FAILURE: in the sync thread, accountVerified;
\* leaving: recycleConn has sent the logout
TaskState == {"none", "chosen", "NONE", "WAITING", "SUCCESS", "FAILURE", "okay", "recycle", "leaving", "gone"}

Cmd(kind, i, retcode) == [kind |-> kind, login |-> i, retcode |-> retcode]
Commands == [kind : {"NewSession", "Return", "LoginVerify", "Logout"}, login : Login, retcode : BOOLEAN]

TypeOK ==
  /\ client \in [Login -> {"new", "asked", "told", "refused"}]
  /\ wdGatewayID \in [Login -> Gateway \cup {None}]
  /\ toBillSuper \in Seq(Login) /\ toFL \subseteq ({"session", "idinuse"} \X Login)
  /\ user \in [Account -> BillUser \cup {None}]
  /\ \A a \in Account : user[a] # None => accid[user[a].tempid] = a
  /\ billTask \in [Gateway -> {"okay", "broken", "swept", "none"}]
  /\ epoch \in [Gateway -> 0 .. MaxLoss]
  /\ toGate \in [Gateway -> Seq(Commands)] /\ toBill \in [Gateway -> Seq(Commands)]
  /\ sessionData \in [Gateway -> [Account -> Login \cup {None}]]
  /\ gatewayTaskSet \in [Gateway -> [Account -> Login \cup {None}]]
  /\ task \in [Login -> TaskState]
  /\ \A g \in Gateway, i \in Login :     \* each in the place it was meant for
       i \in {sessionData[g][accid[i]], gatewayTaskSet[g][accid[i]]} => wdGatewayID[i] = g

Init ==
  /\ client = [i \in Login |-> "new"] /\ wdGatewayID = [i \in Login |-> None]
  /\ toBillSuper = <<>> /\ toFL = {}
  /\ user = [a \in Account |-> None]
  /\ billTask = [g \in Gateway |-> "okay"] /\ epoch = [g \in Gateway |-> 0]
  /\ toGate = [g \in Gateway |-> <<>>] /\ toBill = [g \in Gateway |-> <<>>]
  /\ sessionData = [g \in Gateway |-> [a \in Account |-> None]]
  /\ gatewayTaskSet = [g \in Gateway |-> [a \in Account |-> None]]
  /\ task = [i \in Login |-> "none"]

-----------------------------------------------------------------------------
(* FLServer *)

\* requestLogin with the right password, and verifyReturn: any gateway may be
\* the one getAvl finds least busy
requestLogin(i, g) ==
  /\ client[i] = "new"
  /\ client' = [client EXCEPT ![i] = "asked"]
  /\ wdGatewayID' = [wdGatewayID EXCEPT ![i] = g]
  /\ toBillSuper' = Append(toBillSuper, i)
  /\ UNCHANGED <<toFL, toGate, toBill, billVars, gateVars>>

\* msgParse_session: the client is told where to connect, or that it is in use
Answer(i) ==
  /\ \E kind \in {"session", "idinuse"} :
       /\ <<kind, i>> \in toFL
       /\ toFL' = toFL \ {<<kind, i>>}
       /\ client' = [client EXCEPT ![i] = IF kind = "session" THEN "told" ELSE "refused"]
  /\ UNCHANGED <<wdGatewayID, toBillSuper, toGate, toBill, billVars, gateVars>>

-----------------------------------------------------------------------------
(* the bill server *)

\* Seeded fault: broadcast for broadcastByID.
ByIDAll(g, c) == [h \in Gateway |-> IF billTask[h] = "okay" THEN Append(toGate[h], c) ELSE toGate[h]]
getTaskByID(g) == billTask[g] # "none"
ByID(g, c) == IF billTask[g] = "okay" THEN [toGate EXCEPT ![g] = Append(@, c)] ELSE toGate

\* msgParse_SuperService, in the thread of the connection to SuperServer
NewSession ==
  /\ toBillSuper # <<>> /\ toBillSuper' = Tail(toBillSuper)
  /\ LET i == Head(toBillSuper)
         g == wdGatewayID[i]
     IN  \/ /\ getTaskByID(g) /\ user[accid[i]] = None
            /\ user' = [user EXCEPT ![accid[i]] =
                          [tempid |-> i, state |-> "WAIT_LOGIN", gatewaytask |-> <<g, epoch[g]>>]]
            /\ toGate' = ByID(g, Cmd("NewSession", i, FALSE))
            /\ UNCHANGED toFL
         \/ /\ ~getTaskByID(g) \/ user[accid[i]] # None
            /\ toFL' = toFL \cup {<<"idinuse", i>>}
            /\ UNCHANGED <<user, toGate>>
  /\ UNCHANGED <<client, wdGatewayID, toBill, billTask, epoch, gateVars>>

Is(a, i, state) == user[a] # None /\ user[a].tempid = i /\ user[a].state = state

Receive(g, kind) ==
  /\ toBill[g] # <<>> /\ Head(toBill[g]).kind = kind
  /\ toBill' = [toBill EXCEPT ![g] = Tail(@)]

\* Seeded fault: no answer when the login is refused.
LoginVerifySilent(g) ==
  /\ Receive(g, "LoginVerify")
  /\ LET i  == Head(toBill[g]).login
         ok == Is(accid[i], i, "WAIT_LOGIN")
     IN  /\ user' = IF ok THEN [user EXCEPT ![accid[i]].state = "CONF_LOGIN"] ELSE user
         /\ toGate' = IF ok THEN ByID(g, Cmd("Return", i, ok)) ELSE toGate
  /\ UNCHANGED <<client, wdGatewayID, toBillSuper, toFL, billTask, epoch, gateVars>>

\* BillUser::login
LoginVerify(g) ==
  /\ Receive(g, "LoginVerify")
  /\ LET i  == Head(toBill[g]).login
         ok == Is(accid[i], i, "WAIT_LOGIN")
     IN  /\ user' = IF ok THEN [user EXCEPT ![accid[i]].state = "CONF_LOGIN"] ELSE user
         /\ toGate' = ByID(g, Cmd("Return", i, ok))
  /\ UNCHANGED <<client, wdGatewayID, toBillSuper, toFL, billTask, epoch, gateVars>>

\* Seeded fault: loginTempID is not compared.
LogoutAny(g) ==
  /\ Receive(g, "Logout")
  /\ LET a == accid[Head(toBill[g]).login]
     IN  user' = IF user[a] # None /\ user[a].state = "CONF_LOGIN"
                 THEN [user EXCEPT ![a].state = "CONF_LOGOUT"] ELSE user
  /\ UNCHANGED <<client, wdGatewayID, toBillSuper, toFL, toGate, billTask, epoch, gateVars>>

\* BillUser::logout
Logout(g) ==
  /\ Receive(g, "Logout")
  /\ LET i == Head(toBill[g]).login
     IN  user' = IF Is(accid[i], i, "CONF_LOGIN")
                 THEN [user EXCEPT ![accid[i]].state = "CONF_LOGOUT"] ELSE user
  /\ UNCHANGED <<client, wdGatewayID, toBillSuper, toFL, toGate, billTask, epoch, gateVars>>

\* Seeded fault: a waiting user does not time out.
updateLogout(a) ==
  /\ user[a] # None /\ user[a].state = "CONF_LOGOUT"
  /\ user' = [user EXCEPT ![a] = None]
  /\ UNCHANGED <<client, wdGatewayID, netVars, billTask, epoch, gateVars>>

\* BillUserManager::update: users that have logged out, and those whose session
\* nobody used in time
update(a) ==
  /\ user[a] # None /\ user[a].state \in {"CONF_LOGOUT", "WAIT_LOGIN"}
  /\ user' = [user EXCEPT ![a] = None]
  /\ UNCHANGED <<client, wdGatewayID, netVars, billTask, epoch, gateVars>>

\* Seeded fault: the users of the connection are forgotten.
CheckRecycleKeeps(g) ==
  /\ billTask[g] = "broken"
  /\ billTask' = [billTask EXCEPT ![g] = "swept"]
  /\ toBill' = [toBill EXCEPT ![g] = <<>>]
  /\ UNCHANGED <<client, wdGatewayID, toBillSuper, toFL, toGate, user, epoch, gateVars>>

\* BillTask::checkRecycle: removeUserByGatewayID
CheckRecycle(g) ==
  /\ billTask[g] = "broken"
  /\ billTask' = [billTask EXCEPT ![g] = "swept"]
  /\ user' = [a \in Account |->
                IF user[a] # None /\ user[a].gatewaytask = <<g, epoch[g]>> THEN None ELSE user[a]]
  /\ toBill' = [toBill EXCEPT ![g] = <<>>]
  /\ UNCHANGED <<client, wdGatewayID, toBillSuper, toFL, toGate, epoch, gateVars>>

-----------------------------------------------------------------------------
(* the gateway: the connection to the bill server *)

From(g, kind) ==
  /\ toGate[g] # <<>> /\ Head(toGate[g]).kind = kind
  /\ toGate' = [toGate EXCEPT ![g] = Tail(@)]

\* LoginSessionManager::put, and t_NewSession_Gateway by SuperServer to FLServer
PutSession(g) ==
  /\ From(g, "NewSession")
  /\ LET i == Head(toGate[g]).login
     IN  /\ sessionData' = [sessionData EXCEPT ![g][accid[i]] = i]
         /\ toFL' = toFL \cup {<<"session", i>>}
  /\ UNCHANGED <<client, wdGatewayID, toBillSuper, toBill, billVars, gatewayTaskSet, task>>

\* accountVerifyOK: the task is looked up by the account
accountVerifyOK(g) ==
  /\ From(g, "Return")
  /\ LET c == Head(toGate[g])
         n == gatewayTaskSet[g][accid[c.login]]
     IN  task' = IF n # None /\ task[n] \in {"NONE", "WAITING", "SUCCESS", "FAILURE"}
                 THEN [task EXCEPT ![n] = IF c.retcode THEN "SUCCESS" ELSE "FAILURE"]
                 ELSE task
  /\ UNCHANGED <<client, wdGatewayID, toBillSuper, toFL, toBill, billVars, sessionData, gatewayTaskSet>>

\* the connection breaks; of what was in flight a part may still arrive
Loss(g) ==
  /\ billTask[g] = "okay" /\ epoch[g] < MaxLoss
  /\ billTask' = [billTask EXCEPT ![g] = "broken"]
  /\ \E s \in Prefixes(toGate[g]), t \in Prefixes(toBill[g]) :
       /\ toGate' = [toGate EXCEPT ![g] = s] /\ toBill' = [toBill EXCEPT ![g] = t]
  /\ UNCHANGED <<client, wdGatewayID, toBillSuper, toFL, user, epoch, gateVars>>

\* the bill server's recycle thread deletes its task; BillClient::run connects
\* again and logs in, which fails as long as the old task is registered
Reconnect(g) ==
  /\ \/ billTask[g] = "swept" /\ billTask' = [billTask EXCEPT ![g] = "none"] /\ UNCHANGED epoch
     \/ /\ billTask[g] = "none" /\ toGate[g] = <<>>
        /\ billTask' = [billTask EXCEPT ![g] = "okay"]
        /\ epoch' = [epoch EXCEPT ![g] = @ + 1]
  /\ UNCHANGED <<client, wdGatewayID, netVars, user, gateVars>>

-----------------------------------------------------------------------------
(* the gateway: the clients' tasks *)

SetTask(i, st) == task' = [task EXCEPT ![i] = st]

\* sendCmd to the bill server; on a broken connection the command is lost
Send(g, c) == toBill' = IF billTask[g] = "okay" THEN [toBill EXCEPT ![g] = Append(@, c)] ELSE toBill

\* verifyACCID: LoginSessionManager::verify erases the session it finds
verifyACCID(i) ==
  LET g == wdGatewayID[i]
  IN  /\ client[i] = "told" /\ task[i] = "none" /\ sessionData[g][accid[i]] = i
      /\ sessionData' = [sessionData EXCEPT ![g][accid[i]] = None]
      /\ SetTask(i, "chosen")
      /\ UNCHANGED <<client, wdGatewayID, netVars, billVars, gatewayTaskSet>>

\* LoginSessionManager::update
SessionExpires(g, a) ==
  /\ sessionData[g][a] # None
  /\ sessionData' = [sessionData EXCEPT ![g][a] = None]
  /\ UNCHANGED <<client, wdGatewayID, netVars, billVars, gatewayTaskSet, task>>

\* Seeded fault: the entry of the account is overwritten.
uniqueAddAny(i) ==
  LET g == wdGatewayID[i]
  IN  /\ task[i] = "chosen"
      /\ gatewayTaskSet' = [gatewayTaskSet EXCEPT ![g][accid[i]] = i]
      /\ SetTask(i, "NONE")
      /\ UNCHANGED <<client, wdGatewayID, netVars, billVars, sessionData>>

uniqueAdd(i) ==
  LET g == wdGatewayID[i]
  IN  /\ task[i] = "chosen"
      /\ \/ /\ gatewayTaskSet[g][accid[i]] = None
            /\ gatewayTaskSet' = [gatewayTaskSet EXCEPT ![g][accid[i]] = i]
            /\ SetTask(i, "NONE")
         \/ /\ gatewayTaskSet[g][accid[i]] # None
            /\ SetTask(i, "recycle") /\ UNCHANGED gatewayTaskSet
      /\ UNCHANGED <<client, wdGatewayID, netVars, billVars, sessionData>>

\* waitSync
waitSync(i) ==
  LET g == wdGatewayID[i]
  IN  /\ \/ /\ task[i] = "NONE"
            /\ SetTask(i, "WAITING") /\ Send(g, Cmd("LoginVerify", i, FALSE))
         \/ /\ task[i] = "NONE" /\ billTask[g] # "okay"     \* sendCmd may say so
            /\ SetTask(i, "recycle") /\ UNCHANGED toBill
         \/ task[i] = "SUCCESS" /\ SetTask(i, "okay") /\ UNCHANGED toBill
         \/ task[i] = "FAILURE" /\ SetTask(i, "recycle") /\ UNCHANGED toBill
      /\ UNCHANGED <<client, wdGatewayID, toBillSuper, toFL, toGate, billVars, sessionData, gatewayTaskSet>>

\* the client goes, or is sent away
Leave(i) ==
  /\ task[i] = "okay" /\ SetTask(i, "recycle")
  /\ UNCHANGED <<client, wdGatewayID, netVars, billVars, sessionData, gatewayTaskSet>>

\* the wait of 5 s is over
recycleConn(i) ==
  /\ task[i] = "recycle" /\ SetTask(i, "leaving")
  /\ Send(wdGatewayID[i], Cmd("Logout", i, FALSE))
  /\ UNCHANGED <<client, wdGatewayID, toBillSuper, toFL, toGate, billVars, sessionData, gatewayTaskSet>>

\* Seeded fault: uniqueRemove of every task, which erases by account.
uniqueRemoveAny(i) ==
  /\ task[i] = "leaving" /\ SetTask(i, "gone")
  /\ gatewayTaskSet' = [gatewayTaskSet EXCEPT ![wdGatewayID[i]][accid[i]] = None]
  /\ UNCHANGED <<client, wdGatewayID, netVars, billVars, sessionData>>

\* uniqueRemove, of a task that was added, and delete
uniqueRemove(i) ==
  /\ task[i] = "leaving" /\ SetTask(i, "gone")
  /\ gatewayTaskSet' =
       [gatewayTaskSet EXCEPT ![wdGatewayID[i]] = [a \in Account |-> IF @[a] = i THEN None ELSE @[a]]]
  /\ UNCHANGED <<client, wdGatewayID, netVars, billVars, sessionData>>

-----------------------------------------------------------------------------
Bill(g) == LoginVerify(g) \/ Logout(g) \/ CheckRecycle(g)
BillClient(g) == PutSession(g) \/ accountVerifyOK(g)
Sync(i) == uniqueAdd(i) \/ waitSync(i)
RecycleThread(i) == recycleConn(i) \/ uniqueRemove(i)

Next ==
  \/ NewSession
  \/ \E i \in Login : \/ Answer(i) \/ verifyACCID(i) \/ Sync(i) \/ Leave(i) \/ RecycleThread(i)
                      \/ \E g \in Gateway : requestLogin(i, g)
  \/ \E g \in Gateway : Bill(g) \/ BillClient(g) \/ Loss(g) \/ Reconnect(g)
  \/ \E a \in Account : update(a) \/ \E g \in Gateway : SessionExpires(g, a)

Spec == Init /\ [][Next]_vars

\* Every thread runs on and every time passes; clients come, go or stay as they
\* like and connections need not break.
LiveSpec ==
  /\ Spec /\ WF_vars(NewSession)
  /\ \A i \in Login : WF_vars(Answer(i)) /\ WF_vars(Sync(i)) /\ WF_vars(RecycleThread(i))
  /\ \A g \in Gateway : WF_vars(Bill(g)) /\ WF_vars(BillClient(g)) /\ WF_vars(Reconnect(g))
  /\ \A a \in Account : WF_vars(update(a)) /\ \A g \in Gateway : WF_vars(SessionExpires(g, a))

-----------------------------------------------------------------------------
(* properties *)

\* the gateway has had its bill server all the time
Steady(g) == epoch[g] = 0 /\ billTask[g] = "okay"

\* Whoever plays is logged in at the bill server, with this login and no other:
\* expired sessions, late connections and late logouts do not end it.  (A gateway
\* that lost the bill server keeps its players, who are logged in nowhere.)
OkayIsLoggedIn ==
  \A i \in Login :
    task[i] \in {"SUCCESS", "okay"} /\ Steady(wdGatewayID[i]) => Is(accid[i], i, "CONF_LOGIN")

\* An account plays once ("check for a repeated login"): never twice on one
\* gateway, and on two only if one of them has lost the bill server, which then
\* forgot the account while the gateway did not.
PlaysOnce ==
  \A i, j \in Login :
    i # j /\ accid[i] = accid[j] /\ task[i] = "okay" /\ task[j] = "okay" =>
      /\ wdGatewayID[i] # wdGatewayID[j]
      /\ ~Steady(wdGatewayID[i]) \/ ~Steady(wdGatewayID[j])

\* accountVerifyOK finds the task by the account alone; yet the answer is always
\* for the login that waits.
AnswerFitsTask ==
  \A g \in Gateway : \A k \in DOMAIN toGate[g] :
    LET c == toGate[g][k]
    IN  c.kind = "Return" => gatewayTaskSet[g][accid[c.login]] = c.login /\ task[c.login] = "WAITING"

Sent(q, c) == \E k \in DOMAIN q : q[k] = c

\* As long as a task waits in the sync thread, without a time-out, and its gateway
\* keeps the bill server, its question or the answer is on the way.
WaitIsAnswered ==
  \A i \in Login : LET g == wdGatewayID[i] IN
    task[i] = "WAITING" /\ Steady(g) =>
      \/ Sent(toBill[g], Cmd("LoginVerify", i, FALSE))
      \/ \E retcode \in BOOLEAN : Sent(toGate[g], Cmd("Return", i, retcode))

\* BillUserManager::update lets go of every user but one that is logged in; so for
\* each of those somebody must still give the account back: checkRecycle, as its
\* gateway's connection broke, or its task, which plays or will after the answer,
\* or the logout that is on the way.
InUseIsHeld ==
  \A a \in Account : user[a] # None /\ user[a].state = "CONF_LOGIN" =>
    LET i == user[a].tempid
        g == user[a].gatewaytask[1]
    IN  \/ billTask[g] = "broken" /\ user[a].gatewaytask[2] = epoch[g]
        \/ task[i] \in {"SUCCESS", "okay", "recycle"}
        \/ Sent(toGate[g], Cmd("Return", i, TRUE))
        \/ Sent(toBill[g], Cmd("Logout", i, FALSE))

\* The two ends of the protocol without a time-out, the task that waits and the user
\* that is logged in, always have somebody who will end them.
NoEndForgotten == WaitIsAnswered /\ InUseIsHeld

\* No account stays in use for ever: a user of the bill server goes, or plays.
AccountFreed ==
  \A i \in Login :
    LET holds == user[accid[i]] # None /\ user[accid[i]].tempid = i
    IN  holds ~> (~holds \/ task[i] = "okay")

\* A task waits for the bill server's answer without end only if its gateway
\* lost the bill server in between.
SyncEnds ==
  \A i \in Login : task[i] = "WAITING" ~> (task[i] # "WAITING" \/ ~Steady(wdGatewayID[i]))
=============================================================================
