-------------------------- MODULE LoginChainProofs --------------------------
(***************************************************************************)
(* An account plays once, and who plays is logged in at the bill server,   *)
(* for any number of logins, accounts and gateways and however often the   *)
(* gateways lose the bill server.                                          *)
(***************************************************************************)
EXTENDS LoginChain, TLAPS

(***************************************************************************)
(* The inductive invariant.                                                *)
(***************************************************************************)
Types ==
  /\ client \in [Login -> {"new", "asked", "told", "refused"}]
  /\ wdGatewayID \in [Login -> Gateway \cup {None}]
  /\ toBillSuper \in Seq(Login) /\ toFL \subseteq ({"session", "idinuse"} \X Login)
  /\ user \in [Account -> BillUser \cup {None}]
  /\ billTask \in [Gateway -> {"okay", "broken", "swept", "none"}]
  /\ epoch \in [Gateway -> 0 .. MaxLoss]
  /\ \A g \in Gateway : billTask[g] # "okay" => epoch[g] < MaxLoss
  /\ toGate \in [Gateway -> Seq(Commands)] /\ toBill \in [Gateway -> Seq(Commands)]
  /\ sessionData \in [Gateway -> [Account -> Login \cup {None}]]
  /\ gatewayTaskSet \in [Gateway -> [Account -> Login \cup {None}]]
  /\ task \in [Login -> TaskState]

\* Who has a gateway, from the first request on,
AskedLogins ==
  \A i \in Login : /\ client[i] = "new" => wdGatewayID[i] = None
                   /\ client[i] # "new" \/ task[i] # "none" => wdGatewayID[i] # None
AskedBill == \A k \in DOMAIN toBillSuper : wdGatewayID[toBillSuper[k]] # None
AnsweredFL == \A m \in toFL : wdGatewayID[m[2]] # None
Asked == AskedLogins /\ AskedBill /\ AnsweredFL

\* and is known at that one alone.
PlacedBill ==
  \A a \in Account : user[a] # None =>
    accid[user[a].tempid] = a /\ wdGatewayID[user[a].tempid] = user[a].gatewaytask[1]
PlacedGate ==
  \A g \in Gateway : \A a \in Account :
    /\ sessionData[g][a] # None => wdGatewayID[sessionData[g][a]] = g
    /\ gatewayTaskSet[g][a] # None =>
         wdGatewayID[gatewayTaskSet[g][a]] = g /\ accid[gatewayTaskSet[g][a]] = a
Placed == PlacedBill /\ PlacedGate

\* A task is in the gateway's set from uniqueAdd until it is recycled.
Registered ==
  \A i \in Login :
    /\ task[i] \in {"none", "chosen", "gone"} =>
         \A g \in Gateway : \A a \in Account : gatewayTaskSet[g][a] # i
    /\ task[i] \in {"NONE", "WAITING", "SUCCESS", "FAILURE", "okay"} =>
         gatewayTaskSet[wdGatewayID[i]][accid[i]] = i

\* What is said of a login between its gateway and the bill server.
GateMsg(g, c) ==
  /\ wdGatewayID[c.login] = g
  /\ c.kind = "Return" =>
       /\ task[c.login] = "WAITING"
       /\ c.retcode /\ Steady(g) => Is(accid[c.login], c.login, "CONF_LOGIN")

BillMsg(g, c) ==
  /\ wdGatewayID[c.login] = g
  /\ c.kind = "LoginVerify" => task[c.login] = "WAITING"
  /\ c.kind = "Logout" => task[c.login] \in {"leaving", "gone"}

\* A login asks once, and is answered once.
Once(q, kind) ==
  \A j, k \in DOMAIN q : q[j].kind = kind /\ q[k].kind = kind /\ q[j].login = q[k].login => j = k

Messages ==
  \A g \in Gateway :
    /\ \A k \in DOMAIN toGate[g] : GateMsg(g, toGate[g][k])
    /\ \A k \in DOMAIN toBill[g] : BillMsg(g, toBill[g][k])
    /\ Once(toGate[g], "Return") /\ Once(toBill[g], "LoginVerify")
    /\ \A j \in DOMAIN toGate[g], k \in DOMAIN toBill[g] :
         ~(/\ toGate[g][j].kind = "Return" /\ toBill[g][k].kind = "LoginVerify"
           /\ toGate[g][j].login = toBill[g][k].login)

LoginInv == Types /\ Asked /\ Placed /\ Registered /\ Messages /\ OkayIsLoggedIn

-----------------------------------------------------------------------------
(* Sequences: what is added at the end, taken from the front, cut off.     *)
LEMMA AppendIs ==
  ASSUME NEW S, NEW q \in Seq(S), NEW e \in S
  PROVE  /\ Append(q, e) \in Seq(S)
         /\ Len(q) \in Nat /\ Append(q, e)[Len(q) + 1] = e
         /\ DOMAIN q = 1 .. Len(q) /\ DOMAIN Append(q, e) = 1 .. Len(q) + 1
         /\ \A i \in 1 .. Len(q) : Append(q, e)[i] = q[i]
         /\ \A i \in 1 .. Len(q) + 1 : i \in 1 .. Len(q) \/ i = Len(q) + 1
OBVIOUS

\* A sequence without its first entry,
LEMMA TailIs ==
  ASSUME NEW S, NEW q \in Seq(S), q # <<>>
  PROVE  /\ Tail(q) \in Seq(S) /\ Head(q) = q[1] /\ 1 \in DOMAIN q /\ Head(q) \in S
         /\ \A i \in DOMAIN Tail(q) : i + 1 \in DOMAIN q /\ Tail(q)[i] = q[i + 1] /\ i + 1 # 1
         /\ \A i, j \in DOMAIN Tail(q) : i + 1 = j + 1 => i = j
<1>1. /\ Tail(q) \in Seq(S) /\ Head(q) = q[1]
      /\ Len(q) \in Nat \ {0} /\ Len(Tail(q)) = Len(q) - 1
      OBVIOUS
<1>2. DOMAIN q = 1 .. Len(q) /\ DOMAIN Tail(q) = 1 .. Len(q) - 1
      BY <1>1
<1>3. 1 \in DOMAIN q /\ Head(q) \in S
      BY <1>1, <1>2
<1>4. \A i \in 1 .. Len(q) - 1 : Tail(q)[i] = q[i + 1] /\ i + 1 \in 1 .. Len(q) /\ i + 1 # 1
      BY <1>1
<1>5. \A i, j \in DOMAIN Tail(q) : i + 1 = j + 1 => i = j
      BY <1>1, <1>2
<1> QED BY <1>1, <1>2, <1>3, <1>4, <1>5

\* and one cut off at its end.
LEMMA PrefixIs ==
  ASSUME NEW S, NEW q \in Seq(S), NEW p \in Prefixes(q)
  PROVE  p \in Seq(S) /\ \A i \in DOMAIN p : i \in DOMAIN q /\ p[i] = q[i]
<1>1. PICK l \in 0 .. Len(q) : p = SubSeq(q, 1, l)
      BY DEF Prefixes
<1>2. Len(q) \in Nat /\ DOMAIN q = 1 .. Len(q)
      OBVIOUS
<1>3. l \in Nat /\ l <= Len(q)
      BY <1>2
<1>4. p \in Seq(S) /\ Len(p) = l /\ \A i \in 1 .. l : p[i] = q[i]
      BY <1>1, <1>2, <1>3
<1>5. DOMAIN p = 1 .. l
      BY <1>4
<1> QED BY <1>2, <1>3, <1>4, <1>5

-----------------------------------------------------------------------------
(* The types.                                                              *)
LEMMA InitTypes == Init => Types
<1> SUFFICES ASSUME Init PROVE Types
    OBVIOUS
<1> USE LoginAssumption
<1>1. /\ user \in [Account -> BillUser \cup {None}] /\ epoch \in [Gateway -> 0 .. MaxLoss]
      /\ \A g \in Gateway : billTask[g] = "okay"
      BY DEF Init
<1>2. task \in [Login -> TaskState]
      BY DEF Init, TaskState
<1>3. toGate \in [Gateway -> Seq(Commands)] /\ toBill \in [Gateway -> Seq(Commands)]
      BY DEF Init
<1>4. sessionData \in [Gateway -> [Account -> Login \cup {None}]] /\ gatewayTaskSet \in [Gateway -> [Account -> Login \cup {None}]]
      BY DEF Init
<1> QED BY <1>1, <1>2, <1>3, <1>4 DEF Init, Types

\* A command has the fields it is made with.
LEMMA CmdType ==
  ASSUME NEW i \in Login, NEW k \in {"NewSession", "Return", "LoginVerify", "Logout"}, NEW r \in BOOLEAN
  PROVE  /\ Cmd(k, i, r) \in Commands /\ Cmd(k, i, r).kind = k /\ Cmd(k, i, r).login = i
         /\ Cmd(k, i, r).retcode = r
BY DEF Cmd, Commands

\* What the bill server sends and what a gateway sends.
LEMMA ByIDType ==
  ASSUME Types, NEW g \in Gateway, NEW c \in Commands
  PROVE  ByID(g, c) \in [Gateway -> Seq(Commands)]
<1>1. toGate \in [Gateway -> Seq(Commands)] /\ Append(toGate[g], c) \in Seq(Commands)
      BY DEF Types
<1> QED BY <1>1 DEF ByID

\* Sending appends a command to the queue to the bill server.
LEMMA SendType ==
  ASSUME Types, NEW g \in Gateway, NEW c \in Commands, Send(g, c)
  PROVE  toBill' \in [Gateway -> Seq(Commands)]
<1>1. toBill \in [Gateway -> Seq(Commands)] /\ Append(toBill[g], c) \in Seq(Commands)
      BY DEF Types
<1> QED BY <1>1 DEF Send

\* A gateway task changes its state.
LEMMA SetTaskType ==
  ASSUME Types, NEW i \in Login, NEW st \in TaskState, SetTask(i, st)
  PROVE  task' \in [Login -> TaskState]
BY DEF Types, SetTask

\* The bill server's handlers keep the types,
LEMMA BillTypes ==
  ASSUME Types, Asked,
         \/ NewSession
         \/ \E g \in Gateway : Bill(g)
         \/ \E a \in Account : update(a)
  PROVE  Types'
<1>1. CASE NewSession
      <2> DEFINE i == Head(toBillSuper)
                 g == wdGatewayID[i]
      <2>1. i \in Login /\ toBillSuper' \in Seq(Login)
            BY <1>1 DEF NewSession, Types
      <2>2. g \in Gateway
            <3>1. toBillSuper \in Seq(Login) /\ toBillSuper # <<>>
                  BY <1>1 DEF NewSession, Types
            <3>2. 1 \in DOMAIN toBillSuper /\ i = toBillSuper[1]
                  BY <3>1, TailIs
            <3> QED BY <2>1, <3>2 DEF Asked, AskedLogins, AskedBill, Types
      <2>3. [tempid |-> i, state |-> "WAIT_LOGIN", gatewaytask |-> <<g, epoch[g]>>] \in BillUser
            BY <2>1, <2>2 DEF BillUser, Types
      <2>4. ByID(g, Cmd("NewSession", i, FALSE)) \in [Gateway -> Seq(Commands)]
            <3>1. Cmd("NewSession", i, FALSE) \in Commands
                  BY <2>1, CmdType
            <3> HIDE DEF i, g
            <3> QED BY <2>2, <3>1, ByIDType
      <2>5. accid[i] \in Account
            BY <2>1, LoginAssumption
      <2>6. \/ /\ user' = [user EXCEPT ![accid[i]] =
                          [tempid |-> i, state |-> "WAIT_LOGIN", gatewaytask |-> <<g, epoch[g]>>]]
               /\ toGate' = ByID(g, Cmd("NewSession", i, FALSE)) /\ toFL' = toFL
            \/ toFL' = toFL \cup {<<"idinuse", i>>} /\ user' = user /\ toGate' = toGate
            BY <1>1 DEF NewSession
      <2> HIDE DEF i, g
      <2>7. user' \in [Account -> BillUser \cup {None}] /\ toGate' \in [Gateway -> Seq(Commands)]
            BY <2>3, <2>4, <2>6 DEF Types
      <2>8. toFL' \subseteq ({"session", "idinuse"} \X Login)
            <3>1. <<"idinuse", i>> \in {"session", "idinuse"} \X Login
                  BY <2>1
            <3>2. toFL' = toFL \/ toFL' = toFL \cup {<<"idinuse", i>>}
                  BY <2>6
            <3> QED BY <3>1, <3>2 DEF Types
      <2> QED BY <1>1, <2>1, <2>7, <2>8 DEF NewSession, Types, gateVars
<1>2. ASSUME NEW g \in Gateway, NEW kind, Receive(g, kind)
      PROVE  /\ toBill' \in [Gateway -> Seq(Commands)] /\ Head(toBill[g]) \in Commands
             /\ Head(toBill[g]).login \in Login
      <2>1. toBill[g] # <<>> /\ toBill' = [toBill EXCEPT ![g] = Tail(@)] /\ toBill \in [Gateway -> Seq(Commands)]
            BY <1>2 DEF Receive, Types
      <2>2. Head(toBill[g]) \in Commands /\ Tail(toBill[g]) \in Seq(Commands)
            BY <2>1, TailIs
      <2> QED BY <2>1, <2>2 DEF Commands
<1>3. ASSUME NEW a, NEW i, NEW state PROVE Is(a, i, state) \in BOOLEAN
      BY DEF Is
<1>4. ASSUME NEW a \in Account, NEW st \in {"WAIT_LOGIN", "CONF_LOGIN", "CONF_LOGOUT"}, user[a] # None
      PROVE  [user EXCEPT ![a].state = st] \in [Account -> BillUser \cup {None}]
      <2>1. user[a] \in BillUser
            BY <1>4 DEF Types
      <2>2. [user[a] EXCEPT !.state = st] \in BillUser
            BY <2>1 DEF BillUser
      <2> QED BY <2>2 DEF Types
<1>5. ASSUME NEW g \in Gateway, LoginVerify(g) PROVE Types'
      <2> DEFINE i == Head(toBill[g]).login
                 ok == Is(accid[i], i, "WAIT_LOGIN")
      <2>1. i \in Login /\ accid[i] \in Account /\ toBill' \in [Gateway -> Seq(Commands)]
            BY <1>2, <1>5, LoginAssumption DEF LoginVerify
      <2>2. toGate' = ByID(g, Cmd("Return", i, ok))
            BY <1>5 DEF LoginVerify
      <2>3. toGate' \in [Gateway -> Seq(Commands)]
            BY <1>3, <2>1, <2>2, CmdType, ByIDType
      <2>4. user' = IF ok THEN [user EXCEPT ![accid[i]].state = "CONF_LOGIN"] ELSE user
            BY <1>5 DEF LoginVerify
      <2>5. user' \in [Account -> BillUser \cup {None}]
            BY <1>4, <2>1, <2>4 DEF Types, Is
      <2> QED BY <1>5, <2>1, <2>3, <2>5 DEF LoginVerify, Types, gateVars
<1>6. ASSUME NEW g \in Gateway, Logout(g) PROVE Types'
      <2> DEFINE i == Head(toBill[g]).login
      <2>1. i \in Login /\ accid[i] \in Account /\ toBill' \in [Gateway -> Seq(Commands)]
            BY <1>2, <1>6, LoginAssumption DEF Logout
      <2>4. user' = IF Is(accid[i], i, "CONF_LOGIN") THEN [user EXCEPT ![accid[i]].state = "CONF_LOGOUT"] ELSE user
            BY <1>6 DEF Logout
      <2>5. user' \in [Account -> BillUser \cup {None}]
            BY <1>4, <2>1, <2>4 DEF Types, Is
      <2> QED BY <1>6, <2>1, <2>5 DEF Logout, Types, gateVars
<1>7. ASSUME NEW g \in Gateway, CheckRecycle(g) PROVE Types'
      <2>1. user' \in [Account -> BillUser \cup {None}] /\ toBill' \in [Gateway -> Seq(Commands)]
            BY <1>7 DEF CheckRecycle, Types
      <2>2. \A h \in Gateway : billTask'[h] # "okay" => epoch'[h] < MaxLoss
            BY <1>7 DEF CheckRecycle, Types
      <2> QED BY <1>7, <2>1, <2>2 DEF CheckRecycle, Types, gateVars
<1>8. ASSUME NEW a \in Account, update(a) PROVE Types'
      BY <1>8 DEF update, Types, netVars, gateVars
<1> QED BY <1>1, <1>5, <1>6, <1>7, <1>8 DEF Bill

\* so do the gateways' main loops and their connections,
LEMMA GateTypes ==
  ASSUME Types, Asked,
         \/ \E g \in Gateway : BillClient(g) \/ Loss(g) \/ Reconnect(g)
         \/ \E a \in Account, g \in Gateway : SessionExpires(g, a)
  PROVE  Types'
<1>1. ASSUME NEW g \in Gateway, NEW kind, From(g, kind)
      PROVE  /\ toGate' \in [Gateway -> Seq(Commands)] /\ Head(toGate[g]).login \in Login
      <2>1. toGate[g] # <<>> /\ toGate' = [toGate EXCEPT ![g] = Tail(@)] /\ toGate \in [Gateway -> Seq(Commands)]
            BY <1>1 DEF From, Types
      <2>2. Head(toGate[g]) \in Commands /\ Tail(toGate[g]) \in Seq(Commands)
            BY <2>1, TailIs
      <2> QED BY <2>1, <2>2 DEF Commands
<1>2. ASSUME NEW g \in Gateway, PutSession(g) PROVE Types'
      <2> DEFINE i == Head(toGate[g]).login
      <2>1. i \in Login /\ accid[i] \in Account /\ toGate' \in [Gateway -> Seq(Commands)]
            BY <1>1, <1>2, LoginAssumption DEF PutSession
      <2>2. sessionData' = [sessionData EXCEPT ![g][accid[i]] = i] /\ toFL' = toFL \cup {<<"session", i>>}
            BY <1>2 DEF PutSession
      <2>3. sessionData' \in [Gateway -> [Account -> Login \cup {None}]]
            BY <2>1, <2>2 DEF Types
      <2>4. toFL' \subseteq ({"session", "idinuse"} \X Login)
            BY <2>1, <2>2 DEF Types
      <2> QED BY <1>2, <2>1, <2>3, <2>4 DEF PutSession, Types, billVars
<1>3. ASSUME NEW g \in Gateway, accountVerifyOK(g) PROVE Types'
      <2>1. toGate' \in [Gateway -> Seq(Commands)]
            BY <1>1, <1>3 DEF accountVerifyOK
      <2>2. task' \in [Login -> TaskState]
            BY <1>3 DEF accountVerifyOK, Types, TaskState
      <2> QED BY <1>3, <2>1, <2>2 DEF accountVerifyOK, Types, billVars
<1>4. ASSUME NEW g \in Gateway, Loss(g) PROVE Types'
      <2>1. PICK s \in Prefixes(toGate[g]), t \in Prefixes(toBill[g]) :
              toGate' = [toGate EXCEPT ![g] = s] /\ toBill' = [toBill EXCEPT ![g] = t]
            BY <1>4 DEF Loss
      <2>2. toGate[g] \in Seq(Commands) /\ toBill[g] \in Seq(Commands)
            BY DEF Types
      <2>3. s \in Seq(Commands) /\ t \in Seq(Commands)
            BY <2>2, PrefixIs
      <2>4. toGate' \in [Gateway -> Seq(Commands)] /\ toBill' \in [Gateway -> Seq(Commands)]
            BY <2>1, <2>3 DEF Types
      <2>5. \A h \in Gateway : billTask'[h] # "okay" => epoch'[h] < MaxLoss
            BY <1>4 DEF Loss, Types
      <2> QED BY <1>4, <2>4, <2>5 DEF Loss, Types, gateVars
<1>5. ASSUME NEW g \in Gateway, Reconnect(g) PROVE Types'
      <2>1. billTask' \in [Gateway -> {"okay", "broken", "swept", "none"}]
            BY <1>5 DEF Reconnect, Types
      <2>2. epoch \in [Gateway -> 0 .. MaxLoss] /\ MaxLoss \in Nat /\ (billTask[g] # "okay" => epoch[g] < MaxLoss)
            BY LoginAssumption DEF Types
      <2>3. epoch' \in [Gateway -> 0 .. MaxLoss]
            BY <1>5, <2>2 DEF Reconnect
      <2>4. \A h \in Gateway : billTask'[h] # "okay" => epoch'[h] < MaxLoss
            BY <1>5, <2>2 DEF Reconnect, Types
      <2> QED BY <1>5, <2>1, <2>3, <2>4 DEF Reconnect, Types, netVars, gateVars
<1>6. ASSUME NEW a \in Account, NEW g \in Gateway, SessionExpires(g, a) PROVE Types'
      BY <1>6 DEF SessionExpires, Types, netVars, billVars
<1> QED BY <1>2, <1>3, <1>4, <1>5, <1>6 DEF BillClient

\* and so do the steps of one login.
LEMMA ClientTypes ==
  ASSUME Types, Asked, NEW i \in Login,
         \/ Answer(i) \/ verifyACCID(i) \/ Sync(i) \/ Leave(i) \/ RecycleThread(i)
         \/ \E g \in Gateway : requestLogin(i, g)
  PROVE  Types'
<1>1. accid[i] \in Account /\ (task[i] # "none" \/ client[i] # "new" => wdGatewayID[i] \in Gateway)
      BY LoginAssumption DEF Asked, AskedLogins, Types
<1>2. CASE Answer(i)
      BY <1>2 DEF Answer, Types, billVars, gateVars
<1>3. CASE verifyACCID(i)
      <2>1. wdGatewayID[i] \in Gateway
            BY <1>1, <1>3 DEF verifyACCID
      <2>2. task' \in [Login -> TaskState]
            BY <1>3, SetTaskType DEF verifyACCID, TaskState
      <2>3. sessionData' \in [Gateway -> [Account -> Login \cup {None}]]
            BY <1>1, <1>3, <2>1 DEF verifyACCID, Types
      <2> QED BY <1>3, <2>2, <2>3 DEF verifyACCID, Types, netVars, billVars
<1>4. CASE uniqueAdd(i)
      <2>1. wdGatewayID[i] \in Gateway
            BY <1>1, <1>4 DEF uniqueAdd
      <2>2. task' \in [Login -> TaskState]
            BY <1>4, SetTaskType DEF uniqueAdd, TaskState
      <2>3. gatewayTaskSet' \in [Gateway -> [Account -> Login \cup {None}]]
            <3>1. \/ gatewayTaskSet' = [gatewayTaskSet EXCEPT ![wdGatewayID[i]][accid[i]] = i]
                  \/ gatewayTaskSet' = gatewayTaskSet
                  BY <1>4 DEF uniqueAdd
            <3>2. gatewayTaskSet \in [Gateway -> [Account -> Login \cup {None}]]
                  BY DEF Types
            <3> QED BY <1>1, <2>1, <3>1, <3>2
      <2> QED BY <1>4, <2>2, <2>3 DEF uniqueAdd, Types, netVars, billVars
<1>5. CASE waitSync(i)
      <2>1. wdGatewayID[i] \in Gateway
            BY <1>1, <1>5 DEF waitSync
      <2>2. task' \in [Login -> TaskState]
            BY <1>5, SetTaskType DEF waitSync, TaskState
      <2>3. toBill' \in [Gateway -> Seq(Commands)]
            <3>1. Cmd("LoginVerify", i, FALSE) \in Commands
                  BY CmdType
            <3>2. toBill' = toBill \/ Send(wdGatewayID[i], Cmd("LoginVerify", i, FALSE))
                  BY <1>5 DEF waitSync
            <3> QED BY <2>1, <3>1, <3>2, SendType DEF Types
      <2> QED BY <1>5, <2>2, <2>3 DEF waitSync, Types, billVars
<1>6. CASE Leave(i)
      <2>1. task' \in [Login -> TaskState]
            BY <1>6, SetTaskType DEF Leave, TaskState
      <2> QED BY <1>6, <2>1 DEF Leave, Types, netVars, billVars
<1>7. CASE recycleConn(i)
      <2>1. wdGatewayID[i] \in Gateway
            BY <1>1, <1>7 DEF recycleConn
      <2>2. task' \in [Login -> TaskState]
            BY <1>7, SetTaskType DEF recycleConn, TaskState
      <2>3. toBill' \in [Gateway -> Seq(Commands)]
            <3>1. Cmd("Logout", i, FALSE) \in Commands
                  BY CmdType
            <3> QED BY <1>7, <2>1, <3>1, SendType DEF recycleConn
      <2> QED BY <1>7, <2>2, <2>3 DEF recycleConn, Types, billVars
<1>8. CASE uniqueRemove(i)
      <2>1. wdGatewayID[i] \in Gateway
            BY <1>1, <1>8 DEF uniqueRemove
      <2>2. task' \in [Login -> TaskState]
            BY <1>8, SetTaskType DEF uniqueRemove, TaskState
      <2>3. gatewayTaskSet' \in [Gateway -> [Account -> Login \cup {None}]]
            BY <1>8, <2>1 DEF uniqueRemove, Types
      <2> QED BY <1>8, <2>2, <2>3 DEF uniqueRemove, Types, netVars, billVars
<1>9. ASSUME NEW g \in Gateway, requestLogin(i, g) PROVE Types'
      <2>1. toBillSuper' \in Seq(Login)
            BY <1>9 DEF requestLogin, Types
      <2> QED BY <1>9, <2>1 DEF requestLogin, Types, billVars, gateVars
<1> QED BY <1>2, <1>3, <1>4, <1>5, <1>6, <1>7, <1>8, <1>9 DEF Sync, RecycleThread

\* The types are inductive, given that a login has a gateway.
LEMMA NextTypes == ASSUME Types, Asked, [Next]_vars PROVE Types'
<1>1. CASE UNCHANGED vars
      BY <1>1 DEF vars, netVars, billVars, gateVars, Types
<1> QED BY <1>1, BillTypes, GateTypes, ClientTypes DEF Next

-----------------------------------------------------------------------------
(* Where things are.                                                       *)
\* Once it is chosen, the gateway of a login stays.
LEMMA WdStays ==
  ASSUME Types, Asked, [Next]_vars
  PROVE  \A i \in Login : wdGatewayID[i] # None => wdGatewayID'[i] = wdGatewayID[i]
<1>1. ASSUME NEW i \in Login, NEW g \in Gateway, requestLogin(i, g)
      PROVE  \A j \in Login : wdGatewayID[j] # None => wdGatewayID'[j] = wdGatewayID[j]
      BY <1>1 DEF requestLogin, Types, Asked, AskedLogins
<1>2. ASSUME wdGatewayID' = wdGatewayID
      PROVE  \A j \in Login : wdGatewayID[j] # None => wdGatewayID'[j] = wdGatewayID[j]
      BY <1>2
<1>3. ASSUME NEW i \in Login, Answer(i) \/ verifyACCID(i) \/ Sync(i) \/ Leave(i) \/ RecycleThread(i)
      PROVE  wdGatewayID' = wdGatewayID
      BY <1>3 DEF Answer, verifyACCID, Sync, uniqueAdd, waitSync, Leave, RecycleThread, recycleConn, uniqueRemove
<1>4. ASSUME NEW g \in Gateway, Bill(g) \/ BillClient(g) \/ Loss(g) \/ Reconnect(g)
      PROVE  wdGatewayID' = wdGatewayID
      BY <1>4 DEF Bill, LoginVerify, Logout, CheckRecycle, BillClient, PutSession, accountVerifyOK, Loss, Reconnect
<1>5. ASSUME \/ NewSession \/ UNCHANGED vars
             \/ \E a \in Account : update(a) \/ \E g \in Gateway : SessionExpires(g, a)
      PROVE  wdGatewayID' = wdGatewayID
      BY <1>5 DEF NewSession, vars, update, SessionExpires
<1> QED BY <1>1, <1>2, <1>3, <1>4, <1>5 DEF Next

\* What is read of a connection before it is taken.
LEMMA FromIs ==
  ASSUME Types, NEW g \in Gateway, NEW kind, From(g, kind)
  PROVE  LET c == Head(toGate[g])
         IN  /\ c \in Commands /\ c.kind = kind /\ c.login \in Login /\ accid[c.login] \in Account
             /\ 1 \in DOMAIN toGate[g] /\ c = toGate[g][1]
<1>1. toGate[g] # <<>> /\ toGate[g] \in Seq(Commands) /\ Head(toGate[g]).kind = kind
      BY DEF From, Types
<1>2. /\ Head(toGate[g]) \in Commands
      /\ 1 \in DOMAIN toGate[g] /\ Head(toGate[g]) = toGate[g][1]
      BY <1>1, TailIs
<1>3. Head(toGate[g]).login \in Login
      BY <1>2 DEF Commands
<1> QED BY <1>1, <1>2, <1>3, LoginAssumption

\* The same for what the bill server reads.
LEMMA BillIs ==
  ASSUME Types, NEW g \in Gateway, NEW kind, Receive(g, kind)
  PROVE  LET c == Head(toBill[g])
         IN  /\ c \in Commands /\ c.kind = kind /\ c.login \in Login /\ accid[c.login] \in Account
             /\ 1 \in DOMAIN toBill[g] /\ c = toBill[g][1]
<1>1. toBill[g] # <<>> /\ toBill[g] \in Seq(Commands) /\ Head(toBill[g]).kind = kind
      BY DEF Receive, Types
<1>2. /\ Head(toBill[g]) \in Commands
      /\ 1 \in DOMAIN toBill[g] /\ Head(toBill[g]) = toBill[g][1]
      BY <1>1, TailIs
<1>3. Head(toBill[g]).login \in Login
      BY <1>2 DEF Commands
<1> QED BY <1>1, <1>2, <1>3, LoginAssumption

\* A login keeps the gateway it was given at its first request.
LEMMA NextAsked == ASSUME Types, Asked, Messages, [Next]_vars PROVE Asked'
<1>1. \A i \in Login : wdGatewayID[i] # None => wdGatewayID'[i] # None
      BY WdStays
<1>2. ASSUME NEW i \in Login, NEW g \in Gateway, requestLogin(i, g) PROVE Asked'
      <2>1. g # None /\ wdGatewayID' = [wdGatewayID EXCEPT ![i] = g] /\ client' = [client EXCEPT ![i] = "asked"]
            BY <1>2, LoginAssumption DEF requestLogin
      <2>2. AskedLogins'
            BY <1>2, <2>1 DEF requestLogin, gateVars, Asked, AskedLogins, AskedBill, AnsweredFL, Types
      <2>3. AskedBill'
            <3>1. toBillSuper \in Seq(Login) /\ toBillSuper' = Append(toBillSuper, i)
                  BY <1>2 DEF requestLogin, Types
            <3>2. \A k \in DOMAIN toBillSuper' :
                    (k \in DOMAIN toBillSuper /\ toBillSuper'[k] = toBillSuper[k]) \/ toBillSuper'[k] = i
                  BY <3>1, AppendIs
            <3>3. wdGatewayID'[i] # None /\ \A k \in DOMAIN toBillSuper : toBillSuper[k] \in Login
                  BY <2>1 DEF Types
            <3> QED BY <1>1, <3>2, <3>3 DEF Asked, AskedBill
      <2>4. AnsweredFL'
            BY <1>1, <1>2 DEF requestLogin, Asked, AskedLogins, AskedBill, AnsweredFL, Types
      <2> QED BY <2>2, <2>3, <2>4 DEF Asked
<1>3. ASSUME wdGatewayID' = wdGatewayID, toBillSuper' = toBillSuper, toFL' \subseteq toFL, client' = client,
             \A i \in Login : task'[i] = "none" \/ task[i] # "none" \/ client[i] # "new"
      PROVE  Asked'
      BY <1>3 DEF Asked, AskedLogins, AskedBill, AnsweredFL
<1>4. ASSUME NEW i \in Login, Answer(i) PROVE Asked'
      <2>1. /\ wdGatewayID' = wdGatewayID /\ toBillSuper' = toBillSuper /\ toFL' \subseteq toFL /\ task' = task
            /\ \E m \in toFL : m[2] = i
            /\ \A j \in Login : client'[j] = client[j] \/ (j = i /\ client'[j] # "new")
            BY <1>4 DEF Answer, Types, gateVars
      <2>2. wdGatewayID[i] # None
            BY <2>1 DEF Asked, AskedLogins, AskedBill, AnsweredFL
      <2>3. AskedLogins'
            BY <2>1, <2>2 DEF Asked, AskedLogins, AskedBill, AnsweredFL
      <2>4. AskedBill' /\ AnsweredFL'
            BY <2>1 DEF Asked, AskedLogins, AskedBill, AnsweredFL
      <2> QED BY <2>3, <2>4 DEF Asked
<1>5. CASE NewSession
      <2>1. toBillSuper \in Seq(Login) /\ toBillSuper # <<>> /\ toBillSuper' = Tail(toBillSuper)
            BY <1>5 DEF NewSession, Types
      <2>2. /\ \A k \in DOMAIN toBillSuper' : k + 1 \in DOMAIN toBillSuper /\ toBillSuper'[k] = toBillSuper[k + 1]
            /\ 1 \in DOMAIN toBillSuper /\ Head(toBillSuper) = toBillSuper[1]
            BY <2>1, TailIs
      <2>3. AskedBill' /\ AskedLogins'
            BY <1>5, <2>2 DEF NewSession, gateVars, Asked, AskedLogins, AskedBill, AnsweredFL
      <2>4. toFL' = toFL \/ toFL' = toFL \cup {<<"idinuse", Head(toBillSuper)>>}
            BY <1>5 DEF NewSession
      <2>5. wdGatewayID[Head(toBillSuper)] # None
            BY <2>2 DEF Asked, AskedLogins, AskedBill, AnsweredFL
      <2>6. AnsweredFL'
            BY <1>5, <2>4, <2>5 DEF NewSession, Asked, AskedLogins, AskedBill, AnsweredFL
      <2> QED BY <2>3, <2>6 DEF Asked
<1>6. ASSUME NEW g \in Gateway, PutSession(g) PROVE Asked'
      <2> DEFINE c == Head(toGate[g])
      <2>1. 1 \in DOMAIN toGate[g] /\ c = toGate[g][1] /\ g # None
            BY <1>6, FromIs, LoginAssumption DEF PutSession
      <2>2. wdGatewayID[c.login] # None
            BY <2>1 DEF Messages, GateMsg
      <2>3. /\ toFL' = toFL \cup {<<"session", c.login>>}
            /\ UNCHANGED <<client, wdGatewayID, toBillSuper, task>>
            BY <1>6 DEF PutSession
      <2> HIDE DEF c
      <2>4. AnsweredFL'
            BY <2>2, <2>3 DEF Asked, AskedLogins, AskedBill, AnsweredFL
      <2>5. AskedLogins' /\ AskedBill'
            BY <2>3 DEF Asked, AskedLogins, AskedBill, AnsweredFL
      <2> QED BY <2>4, <2>5 DEF Asked
<1>7. ASSUME NEW i \in Login, verifyACCID(i) \/ Sync(i) \/ Leave(i) \/ RecycleThread(i) PROVE Asked'
      <2>1. UNCHANGED <<wdGatewayID, toBillSuper, toFL, client>>
            BY <1>7 DEF verifyACCID, Sync, uniqueAdd, waitSync, Leave, RecycleThread, recycleConn, uniqueRemove, netVars
      <2>2. \A j \in Login : task'[j] = "none" \/ task[j] # "none" \/ client[j] # "new"
            BY <1>7 DEF verifyACCID, Sync, uniqueAdd, waitSync, Leave, RecycleThread, recycleConn, uniqueRemove, SetTask, Types
      <2> QED BY <1>3, <2>1, <2>2
<1>8. ASSUME NEW g \in Gateway, Bill(g) \/ Loss(g) \/ Reconnect(g) PROVE Asked'
      <2>1. UNCHANGED <<wdGatewayID, toBillSuper, toFL, client, task>>
            BY <1>8 DEF Bill, LoginVerify, Logout, CheckRecycle, Loss, Reconnect, gateVars, netVars
      <2> QED BY <1>3, <2>1
<1>9. ASSUME NEW g \in Gateway, accountVerifyOK(g) PROVE Asked'
      <2>1. UNCHANGED <<wdGatewayID, toBillSuper, toFL, client>>
            BY <1>9 DEF accountVerifyOK
      <2>2. \A j \in Login : task'[j] = "none" \/ task[j] # "none"
            BY <1>9 DEF accountVerifyOK, Types
      <2> QED BY <1>3, <2>1, <2>2
<1>10. ASSUME \/ UNCHANGED vars
              \/ \E a \in Account : update(a) \/ \E g \in Gateway : SessionExpires(g, a)
       PROVE  Asked'
      <2>1. UNCHANGED <<wdGatewayID, toBillSuper, toFL, client, task>>
            BY <1>10 DEF vars, update, SessionExpires, gateVars, netVars
      <2> QED BY <1>3, <2>1
<1> QED BY <1>2, <1>4, <1>5, <1>6, <1>7, <1>8, <1>9, <1>10 DEF Next, BillClient

\* Sessions, tasks and users stay with the gateway of their login.
LEMMA NextPlaced == ASSUME Types, Asked, Placed, Messages, [Next]_vars PROVE Placed'
<1>1. \A i \in Login : wdGatewayID[i] # None => wdGatewayID'[i] = wdGatewayID[i]
      BY WdStays
<1>a. None \notin Gateway /\ \A i \in Login : accid[i] \in Account /\ i # None
      BY LoginAssumption
<1>b. /\ user \in [Account -> BillUser \cup {None}] /\ epoch \in [Gateway -> 0 .. MaxLoss]
      /\ sessionData \in [Gateway -> [Account -> Login \cup {None}]]
      /\ gatewayTaskSet \in [Gateway -> [Account -> Login \cup {None}]]
      BY DEF Types
<1>c. \A u \in BillUser : u.tempid \in Login /\ u.gatewaytask[1] \in Gateway
      BY DEF BillUser
<1>2. ASSUME \A a \in Account : user'[a] = None \/ (user[a] # None /\ user'[a].tempid = user[a].tempid
                                                    /\ user'[a].gatewaytask = user[a].gatewaytask)
      PROVE  PlacedBill'
      <2> SUFFICES ASSUME NEW a \in Account, user'[a] # None
                   PROVE  /\ accid[user'[a].tempid] = a
                          /\ wdGatewayID'[user'[a].tempid] = user'[a].gatewaytask[1]
          BY DEF PlacedBill
      <2>1. user[a] \in BillUser /\ user'[a].tempid = user[a].tempid /\ user'[a].gatewaytask = user[a].gatewaytask
            BY <1>2, <1>b
      <2>2. /\ user[a] # None /\ user[a].tempid \in Login /\ user[a].gatewaytask[1] # None
            BY <1>2, <1>a, <1>c, <2>1
      <2> QED BY <1>1, <2>1, <2>2 DEF Placed, PlacedBill
<1>3. ASSUME \A g \in Gateway : \A a \in Account :
               sessionData'[g][a] \in {None, sessionData[g][a]} /\ gatewayTaskSet'[g][a] \in {None, gatewayTaskSet[g][a]}
      PROVE  PlacedGate'
      <2> SUFFICES ASSUME NEW g \in Gateway, NEW a \in Account
                   PROVE  /\ sessionData'[g][a] # None => wdGatewayID'[sessionData'[g][a]] = g
                          /\ gatewayTaskSet'[g][a] # None =>
                               wdGatewayID'[gatewayTaskSet'[g][a]] = g /\ accid[gatewayTaskSet'[g][a]] = a
          BY DEF PlacedGate
      <2>1. sessionData[g][a] \in Login \cup {None} /\ gatewayTaskSet[g][a] \in Login \cup {None} /\ g # None
            BY <1>a, <1>b
      <2> QED BY <1>1, <1>3, <2>1 DEF Placed, PlacedGate
<1>4. ASSUME UNCHANGED user PROVE PlacedBill'
      BY <1>2, <1>4, <1>b
<1>5. ASSUME UNCHANGED <<sessionData, gatewayTaskSet>> PROVE PlacedGate'
      BY <1>3, <1>5
<1>6. CASE NewSession
      <2> DEFINE i == Head(toBillSuper)
                 g == wdGatewayID[i]
                 u == [tempid |-> i, state |-> "WAIT_LOGIN", gatewaytask |-> <<g, epoch[g]>>]
      <2>1. toBillSuper \in Seq(Login) /\ toBillSuper # <<>>
            BY <1>6 DEF NewSession, Types
      <2>2. i \in Login /\ wdGatewayID[i] # None
            BY <2>1, TailIs DEF Asked, AskedBill
      <2>3. user' = user \/ user' = [user EXCEPT ![accid[i]] = u]
            BY <1>6 DEF NewSession
      <2>4. u.tempid = i /\ u.gatewaytask[1] = g
            OBVIOUS
      <2>5. wdGatewayID'[i] = g
            BY <1>1, <2>2
      <2>6. UNCHANGED <<sessionData, gatewayTaskSet>>
            BY <1>6 DEF NewSession, gateVars
      <2> HIDE DEF i, g, u
      <2>7. CASE user' = [user EXCEPT ![accid[i]] = u]
            <3> SUFFICES ASSUME NEW a \in Account, user'[a] # None
                         PROVE  /\ accid[user'[a].tempid] = a
                                /\ wdGatewayID'[user'[a].tempid] = user'[a].gatewaytask[1]
                BY <1>5, <2>6 DEF Placed, PlacedBill
            <3>1. CASE a = accid[i]
                  BY <1>b, <2>7, <2>4, <2>5, <3>1
            <3>2. CASE a # accid[i]
                  <4>1. user'[a] = user[a] /\ user[a] \in BillUser
                        BY <1>b, <2>7, <3>2
                  <4>2. user[a].tempid \in Login /\ user[a].gatewaytask[1] # None
                        BY <1>a, <1>c, <4>1
                  <4> QED BY <1>1, <4>1, <4>2 DEF Placed, PlacedBill
            <3> QED BY <3>1, <3>2
      <2> QED BY <1>4, <1>5, <2>3, <2>6, <2>7 DEF Placed
<1>7. ASSUME NEW g \in Gateway, Bill(g) PROVE Placed'
      <2>1. ASSUME NEW b \in Account, NEW st, user[b] # None
            PROVE  \A a \in Account : [user EXCEPT ![b].state = st][a] = None
                      \/ (user[a] # None /\ [user EXCEPT ![b].state = st][a].tempid = user[a].tempid
                                         /\ [user EXCEPT ![b].state = st][a].gatewaytask = user[a].gatewaytask)
            <3>1. user[b] \in BillUser
                  BY <1>b, <2>1
            <3>2. /\ [user[b] EXCEPT !.state = st].tempid = user[b].tempid
                  /\ [user[b] EXCEPT !.state = st].gatewaytask = user[b].gatewaytask
                  BY <3>1 DEF BillUser
            <3> QED BY <1>b, <2>1, <3>2
      <2>2. UNCHANGED <<sessionData, gatewayTaskSet>>
            BY <1>7 DEF Bill, LoginVerify, Logout, CheckRecycle, gateVars
      <2>3. \/ user' = user
            \/ \E b \in Account : user[b] # None /\ \E st : user' = [user EXCEPT ![b].state = st]
            \/ \A a \in Account : user'[a] = None \/ user'[a] = user[a]
            <3>1. CASE LoginVerify(g)
                  BY <3>1, <1>a, BillIs DEF LoginVerify, Is
            <3>2. CASE Logout(g)
                  BY <3>2, <1>a, BillIs DEF Logout, Is
            <3>3. CASE CheckRecycle(g)
                  BY <3>3, <1>b DEF CheckRecycle
            <3> QED BY <1>7, <3>1, <3>2, <3>3 DEF Bill
      <2>4. PlacedBill'
            <3>1. CASE user' = user
                  BY <1>4, <3>1
            <3>2. CASE \E b \in Account : user[b] # None /\ \E st : user' = [user EXCEPT ![b].state = st]
                  BY <1>2, <2>1, <3>2
            <3>3. CASE \A a \in Account : user'[a] = None \/ user'[a] = user[a]
                  BY <1>2, <3>3
            <3> QED BY <2>3, <3>1, <3>2, <3>3
      <2> QED BY <1>5, <2>2, <2>4 DEF Placed
<1>8. ASSUME NEW a \in Account, update(a) PROVE Placed'
      BY <1>2, <1>5, <1>8, <1>b DEF update, gateVars, Placed
<1>9. ASSUME NEW g \in Gateway, PutSession(g) PROVE Placed'
      <2> DEFINE c == Head(toGate[g])
      <2>1. c.login \in Login /\ 1 \in DOMAIN toGate[g] /\ c = toGate[g][1]
            BY <1>9, FromIs DEF PutSession
      <2>2. wdGatewayID[c.login] = g /\ g # None
            BY <1>a, <2>1 DEF Messages, GateMsg
      <2>3. sessionData' = [sessionData EXCEPT ![g][accid[c.login]] = c.login] /\ UNCHANGED <<user, gatewayTaskSet>>
            BY <1>9 DEF PutSession, billVars
      <2>4. wdGatewayID'[c.login] = g
            BY <1>1, <2>1, <2>2
      <2> HIDE DEF c
      <2>5. SUFFICES ASSUME NEW h \in Gateway, NEW a \in Account
                     PROVE  /\ sessionData'[h][a] # None => wdGatewayID'[sessionData'[h][a]] = h
                            /\ gatewayTaskSet'[h][a] # None =>
                                 wdGatewayID'[gatewayTaskSet'[h][a]] = h /\ accid[gatewayTaskSet'[h][a]] = a
            BY <1>4, <2>3 DEF Placed, PlacedGate
      <2>6. sessionData[h][a] \in Login \cup {None} /\ gatewayTaskSet[h][a] \in Login \cup {None} /\ h # None
            BY <1>a, <1>b
      <2>7. gatewayTaskSet'[h][a] # None =>
              wdGatewayID'[gatewayTaskSet'[h][a]] = h /\ accid[gatewayTaskSet'[h][a]] = a
            BY <1>1, <2>3, <2>6 DEF Placed, PlacedGate
      <2>8. sessionData'[h][a] = sessionData[h][a] \/ (h = g /\ sessionData'[h][a] = c.login)
            BY <1>a, <1>b, <2>1, <2>3
      <2> QED BY <1>1, <2>4, <2>6, <2>7, <2>8 DEF Placed, PlacedGate
<1>10. ASSUME NEW g \in Gateway, accountVerifyOK(g) \/ Loss(g) \/ Reconnect(g) PROVE Placed'
       BY <1>4, <1>5, <1>10 DEF accountVerifyOK, Loss, Reconnect, billVars, gateVars, Placed
<1>11. ASSUME NEW g \in Gateway, NEW a \in Account, SessionExpires(g, a) PROVE Placed'
       <2>1. UNCHANGED <<user, gatewayTaskSet>>
             BY <1>11 DEF SessionExpires, billVars
       <2>2. sessionData' = [sessionData EXCEPT ![g][a] = None]
             BY <1>11 DEF SessionExpires
       <2>3. \A h \in Gateway : \A b \in Account : sessionData'[h][b] \in {None, sessionData[h][b]}
             BY <1>b, <2>2
       <2> QED BY <1>3, <1>4, <2>1, <2>3 DEF Placed
<1>12. ASSUME NEW i \in Login, uniqueAdd(i) PROVE Placed'
       <2> DEFINE g == wdGatewayID[i]
       <2>1. g \in Gateway /\ g # None /\ wdGatewayID'[i] = g
             BY <1>1, <1>12 DEF uniqueAdd, Types, Asked, AskedLogins
       <2>2. UNCHANGED <<user, sessionData>>
             BY <1>12 DEF uniqueAdd, billVars
       <2>3. gatewayTaskSet' = gatewayTaskSet \/ gatewayTaskSet' = [gatewayTaskSet EXCEPT ![g][accid[i]] = i]
             BY <1>12 DEF uniqueAdd
       <2> HIDE DEF g
       <2>5. SUFFICES ASSUME NEW h \in Gateway, NEW a \in Account
                      PROVE  /\ sessionData'[h][a] # None => wdGatewayID'[sessionData'[h][a]] = h
                             /\ gatewayTaskSet'[h][a] # None =>
                                  wdGatewayID'[gatewayTaskSet'[h][a]] = h /\ accid[gatewayTaskSet'[h][a]] = a
             BY <1>4, <2>2 DEF Placed, PlacedGate
       <2>6. sessionData[h][a] \in Login \cup {None} /\ gatewayTaskSet[h][a] \in Login \cup {None} /\ h # None
             BY <1>a, <1>b
       <2>7. sessionData'[h][a] # None => wdGatewayID'[sessionData'[h][a]] = h
             BY <1>1, <2>2, <2>6 DEF Placed, PlacedGate
       <2>8. gatewayTaskSet'[h][a] = gatewayTaskSet[h][a] \/ (h = g /\ a = accid[i] /\ gatewayTaskSet'[h][a] = i)
             BY <1>a, <1>b, <2>1, <2>3
       <2> QED BY <1>1, <2>1, <2>6, <2>7, <2>8 DEF Placed, PlacedGate
<1>13. ASSUME NEW i \in Login, verifyACCID(i) PROVE Placed'
       <2>1. UNCHANGED <<user, gatewayTaskSet>>
             BY <1>13 DEF verifyACCID, billVars
       <2>2. sessionData' = [sessionData EXCEPT ![wdGatewayID[i]][accid[i]] = None]
             BY <1>13 DEF verifyACCID
       <2>3. \A h \in Gateway : \A b \in Account : sessionData'[h][b] \in {None, sessionData[h][b]}
             BY <1>b, <2>2
       <2> QED BY <1>3, <1>4, <2>1, <2>3 DEF Placed
<1>14. ASSUME NEW i \in Login, uniqueRemove(i) PROVE Placed'
       <2>1. UNCHANGED <<user, sessionData>>
             BY <1>14 DEF uniqueRemove, billVars
       <2>2. gatewayTaskSet' =
               [gatewayTaskSet EXCEPT ![wdGatewayID[i]] = [a \in Account |-> IF @[a] = i THEN None ELSE @[a]]]
             BY <1>14 DEF uniqueRemove
       <2>3. \A h \in Gateway : \A b \in Account : gatewayTaskSet'[h][b] \in {None, gatewayTaskSet[h][b]}
             BY <1>b, <2>2
       <2> QED BY <1>3, <1>4, <2>1, <2>3 DEF Placed
<1>15. ASSUME NEW i \in Login,
              Answer(i) \/ waitSync(i) \/ Leave(i) \/ recycleConn(i) \/ \E g \in Gateway : requestLogin(i, g)
       PROVE  Placed'
       <2>1. UNCHANGED <<user, sessionData, gatewayTaskSet>>
             BY <1>15 DEF Answer, waitSync, Leave, recycleConn, requestLogin, billVars, gateVars
       <2> QED BY <1>4, <1>5, <2>1 DEF Placed
<1>16. CASE UNCHANGED vars
       BY <1>4, <1>5, <1>16 DEF vars, billVars, gateVars, Placed
<1> QED BY <1>6, <1>7, <1>8, <1>9, <1>10, <1>11, <1>12, <1>13, <1>14, <1>15, <1>16
        DEF Next, BillClient, Sync, RecycleThread

\* A task enters the gateway's set with uniqueAdd and leaves it before it is
\* deleted.
LEMMA NextRegistered == ASSUME Types, Asked, Placed, Registered, [Next]_vars PROVE Registered'
<1> DEFINE Out == {"none", "chosen", "gone"}
           In == {"NONE", "WAITING", "SUCCESS", "FAILURE", "okay"}
<1>1. \A i \in Login : wdGatewayID[i] # None => wdGatewayID'[i] = wdGatewayID[i]
      BY WdStays
<1>a. /\ task \in [Login -> TaskState] /\ gatewayTaskSet \in [Gateway -> [Account -> Login \cup {None}]]
      /\ \A i \in Login : accid[i] \in Account /\ i # None
      BY LoginAssumption DEF Types
<1>b. \A i \in Login : task[i] # "none" => wdGatewayID[i] \in Gateway /\ wdGatewayID'[i] = wdGatewayID[i]
      BY <1>1 DEF Asked, AskedLogins, Types
<1>2. ASSUME gatewayTaskSet' = gatewayTaskSet,
             \A i \in Login : (task'[i] \in Out => task[i] \in Out) /\ (task'[i] \in In => task[i] \in In)
      PROVE  Registered'
      BY <1>2, <1>b DEF Registered
<1>3. CASE UNCHANGED <<task, gatewayTaskSet>>
      BY <1>2, <1>3
<1>4. ASSUME NEW i \in Login, verifyACCID(i) \/ Leave(i) \/ recycleConn(i) \/ waitSync(i) PROVE Registered'
      <2>1. gatewayTaskSet' = gatewayTaskSet
            BY <1>4 DEF verifyACCID, Leave, recycleConn, waitSync
      <2>2. \E st \in TaskState :
              /\ task' = [task EXCEPT ![i] = st]
              /\ (st \in Out => task[i] \in Out) /\ (st \in In => task[i] \in In)
            <3>1. CASE verifyACCID(i)
                  BY <3>1 DEF verifyACCID, SetTask, TaskState
            <3>2. CASE Leave(i)
                  BY <3>2 DEF Leave, SetTask, TaskState
            <3>3. CASE recycleConn(i)
                  BY <3>3 DEF recycleConn, SetTask, TaskState
            <3>4. CASE waitSync(i)
                  BY <3>4 DEF waitSync, SetTask, TaskState
            <3> QED BY <1>4, <3>1, <3>2, <3>3, <3>4
      <2> QED BY <1>2, <1>a, <2>1, <2>2
<1>5. ASSUME NEW g \in Gateway, accountVerifyOK(g) PROVE Registered'
      BY <1>2, <1>5, <1>a DEF accountVerifyOK
<1>6. ASSUME NEW i \in Login, uniqueAdd(i) PROVE Registered'
      <2> DEFINE g == wdGatewayID[i]
      <2>1. g \in Gateway /\ wdGatewayID'[i] = g /\ task[i] = "chosen"
            BY <1>6, <1>b DEF uniqueAdd
      <2>2. CASE gatewayTaskSet' = gatewayTaskSet /\ task' = [task EXCEPT ![i] = "recycle"]
            BY <1>2, <1>a, <2>2
      <2>3. CASE /\ gatewayTaskSet[g][accid[i]] = None
                 /\ gatewayTaskSet' = [gatewayTaskSet EXCEPT ![g][accid[i]] = i]
                 /\ task' = [task EXCEPT ![i] = "NONE"]
            <3> HIDE DEF g
            <3>1. ASSUME NEW h \in Gateway, NEW a \in Account
                  PROVE  gatewayTaskSet'[h][a] = IF h = g /\ a = accid[i] THEN i ELSE gatewayTaskSet[h][a]
                  BY <1>a, <2>1, <2>3
            <3>2. ASSUME NEW j \in Login, task'[j] \in Out, NEW h \in Gateway, NEW a \in Account
                  PROVE  gatewayTaskSet'[h][a] # j
                  <4>1. j # i /\ task[j] \in Out
                        BY <1>a, <2>3, <3>2
                  <4> QED BY <3>1, <4>1 DEF Registered
            <3>3. ASSUME NEW j \in Login, task'[j] \in In
                  PROVE  gatewayTaskSet'[wdGatewayID'[j]][accid[j]] = j
                  <4>1. CASE j = i
                        BY <1>a, <2>1, <3>1, <4>1
                  <4>2. CASE j # i
                        <5>1. task[j] \in In /\ task[j] # "none"
                              BY <1>a, <2>3, <3>3, <4>2
                        <5>2. wdGatewayID'[j] = wdGatewayID[j] /\ wdGatewayID[j] \in Gateway
                              BY <1>b, <5>1
                        <5>3. gatewayTaskSet[wdGatewayID[j]][accid[j]] = j
                              BY <5>1 DEF Registered
                        <5>4. ~(wdGatewayID[j] = g /\ accid[j] = accid[i])
                              BY <1>a, <2>3, <5>3
                        <5> QED BY <1>a, <3>1, <5>2, <5>3, <5>4
                  <4> QED BY <4>1, <4>2
            <3> QED BY <3>2, <3>3 DEF Registered
      <2> QED BY <1>6, <2>2, <2>3 DEF uniqueAdd, SetTask
<1>7. ASSUME NEW i \in Login, uniqueRemove(i) PROVE Registered'
      <2> DEFINE g == wdGatewayID[i]
      <2>1. /\ g \in Gateway /\ task[i] = "leaving" /\ task' = [task EXCEPT ![i] = "gone"]
            /\ gatewayTaskSet' = [gatewayTaskSet EXCEPT ![g] = [a \in Account |-> IF @[a] = i THEN None ELSE @[a]]]
            BY <1>7, <1>b DEF uniqueRemove, SetTask
      <2> HIDE DEF g
      <2>2. ASSUME NEW h \in Gateway, NEW a \in Account
            PROVE  gatewayTaskSet'[h][a] = IF h = g /\ gatewayTaskSet[h][a] = i THEN None ELSE gatewayTaskSet[h][a]
            BY <1>a, <2>1
      <2>3. ASSUME NEW j \in Login, task'[j] \in Out, NEW h \in Gateway, NEW a \in Account
            PROVE  gatewayTaskSet'[h][a] # j
            <3>1. CASE j = i
                  <4>1. gatewayTaskSet[h][a] = i => h = g
                        BY <1>a DEF Placed, PlacedGate, g
                  <4> QED BY <1>a, <2>2, <3>1, <4>1
            <3>2. CASE j # i
                  <4>1. task[j] \in Out
                        BY <1>a, <2>1, <2>3, <3>2
                  <4> QED BY <1>a, <2>2, <4>1 DEF Registered
            <3> QED BY <3>1, <3>2
      <2>4. ASSUME NEW j \in Login, task'[j] \in In
            PROVE  gatewayTaskSet'[wdGatewayID'[j]][accid[j]] = j
            <3>1. j # i /\ task[j] \in In /\ task[j] # "none"
                  BY <1>a, <2>1, <2>4
            <3>2. wdGatewayID'[j] = wdGatewayID[j] /\ wdGatewayID[j] \in Gateway
                  BY <1>b, <3>1
            <3>3. gatewayTaskSet[wdGatewayID[j]][accid[j]] = j
                  BY <3>1 DEF Registered
            <3> QED BY <1>a, <2>2, <3>1, <3>2, <3>3
      <2> QED BY <2>3, <2>4 DEF Registered
<1>8. ASSUME NEW i \in Login, Answer(i) \/ \E g \in Gateway : requestLogin(i, g) PROVE Registered'
      BY <1>3, <1>8 DEF Answer, requestLogin, gateVars
<1>9. ASSUME NEW g \in Gateway, Bill(g) \/ PutSession(g) \/ Loss(g) \/ Reconnect(g) PROVE Registered'
      BY <1>3, <1>9 DEF Bill, LoginVerify, Logout, CheckRecycle, PutSession, Loss, Reconnect, gateVars
<1>10. ASSUME \/ NewSession \/ UNCHANGED vars
              \/ \E a \in Account : update(a) \/ \E g \in Gateway : SessionExpires(g, a)
       PROVE  Registered'
       BY <1>3, <1>10 DEF NewSession, vars, update, SessionExpires, gateVars
<1> QED BY <1>4, <1>5, <1>6, <1>7, <1>8, <1>9, <1>10 DEF Next, BillClient, Sync, RecycleThread

-----------------------------------------------------------------------------
(* Who is logged in stays so, until his own logout or the gateway's loss.  *)
\* A gateway that has had its bill server all the time had it before.
LEMMA SteadyBack ==
  ASSUME Types, [Next]_vars, NEW g \in Gateway, Steady(g)'
  PROVE  Steady(g)
<1>1. epoch \in [Gateway -> 0 .. MaxLoss] /\ billTask \in [Gateway -> {"okay", "broken", "swept", "none"}] /\ MaxLoss \in Nat
      BY LoginAssumption DEF Types
<1>2. ASSUME NEW h \in Gateway, Reconnect(h) PROVE Steady(g)
      <2>1. CASE h = g
            BY <1>1, <1>2, <2>1 DEF Reconnect, Steady
      <2>2. CASE h # g
            BY <1>1, <1>2, <2>2 DEF Reconnect, Steady
      <2> QED BY <2>1, <2>2
<1>3. ASSUME NEW h \in Gateway, Loss(h) \/ CheckRecycle(h) PROVE Steady(g)
      BY <1>1, <1>3 DEF Loss, CheckRecycle, Steady
<1>4. CASE UNCHANGED <<billTask, epoch>>
      BY <1>4 DEF Steady
<1>5. ASSUME NEW i \in Login, \/ Answer(i) \/ verifyACCID(i) \/ Sync(i) \/ Leave(i) \/ RecycleThread(i)
                              \/ \E h \in Gateway : requestLogin(i, h)
      PROVE  UNCHANGED <<billTask, epoch>>
      BY <1>5 DEF Answer, verifyACCID, Sync, uniqueAdd, waitSync, Leave, RecycleThread, recycleConn, uniqueRemove,
                  requestLogin, billVars
<1>6. ASSUME NEW h \in Gateway, LoginVerify(h) \/ Logout(h) \/ BillClient(h)
      PROVE  UNCHANGED <<billTask, epoch>>
      BY <1>6 DEF LoginVerify, Logout, BillClient, PutSession, accountVerifyOK, billVars
<1>7. ASSUME \/ NewSession \/ UNCHANGED vars
             \/ \E a \in Account : update(a) \/ \E h \in Gateway : SessionExpires(h, a)
      PROVE  UNCHANGED <<billTask, epoch>>
      BY <1>7 DEF NewSession, vars, update, SessionExpires, billVars
<1> QED BY <1>2, <1>3, <1>4, <1>5, <1>6, <1>7 DEF Next, Bill

\* A user that is logged in stays so until its login leaves, or its gateway loses the
\* bill server: no late message of another login ends it.
LEMMA LoggedStays ==
  ASSUME Types, Asked, Placed, Messages, [Next]_vars, NEW i \in Login,
         wdGatewayID[i] # None, task[i] \notin {"leaving", "gone"},
         Is(accid[i], i, "CONF_LOGIN"), Steady(wdGatewayID[i])'
  PROVE  Is(accid[i], i, "CONF_LOGIN")'
<1> DEFINE a == accid[i]
<1>1. a \in Account /\ user \in [Account -> BillUser \cup {None}] /\ user[a] # None
      /\ user[a].tempid = i /\ user[a].state = "CONF_LOGIN"
      BY LoginAssumption DEF Types, Is
<1> SUFFICES user'[a] = user[a]
    BY <1>1 DEF Is
<1>2. CASE NewSession
      <2>1. \/ user' = user
            \/ \E j, u : user[accid[j]] = None /\ user' = [user EXCEPT ![accid[j]] = u]
            BY <1>2 DEF NewSession
      <2> HIDE DEF a
      <2> QED BY <1>1, <2>1
<1>3. ASSUME NEW g \in Gateway, LoginVerify(g) PROVE user'[a] = user[a]
      <2>1. \/ user' = user
            \/ \E b : user[b].state = "WAIT_LOGIN" /\ user' = [user EXCEPT ![b].state = "CONF_LOGIN"]
            BY <1>3 DEF LoginVerify, Is
      <2> HIDE DEF a
      <2> QED BY <1>1, <2>1
<1>4. ASSUME NEW g \in Gateway, Logout(g) PROVE user'[a] = user[a]
      <2> DEFINE c == Head(toBill[g])
      <2>1. c.kind = "Logout" /\ c.login \in Login /\ 1 \in DOMAIN toBill[g] /\ c = toBill[g][1]
            BY <1>4, BillIs DEF Logout
      <2>2. task[c.login] \in {"leaving", "gone"}
            BY <2>1 DEF Messages, BillMsg
      <2>3. c.login # i
            BY <2>2
      <2>4. \/ user' = user
            \/ user[accid[c.login]].tempid = c.login /\ user' = [user EXCEPT ![accid[c.login]].state = "CONF_LOGOUT"]
            BY <1>4 DEF Logout, Is
      <2> HIDE DEF a, c
      <2> QED BY <1>1, <2>3, <2>4
<1>5. ASSUME NEW g \in Gateway, CheckRecycle(g) PROVE user'[a] = user[a]
      <2>1. billTask' = [billTask EXCEPT ![g] = "swept"] /\ billTask \in [Gateway -> {"okay", "broken", "swept", "none"}]
            BY <1>5 DEF CheckRecycle, Types
      <2>2. wdGatewayID'[i] = wdGatewayID[i] /\ wdGatewayID[i] \in Gateway
            BY WdStays DEF Types
      <2>3. wdGatewayID[i] # g
            BY <2>1, <2>2 DEF Steady
      <2>4. user[a].gatewaytask # <<g, epoch[g]>>
            BY <1>1, <2>3 DEF Placed, PlacedBill
      <2>5. user' = [b \in Account |->
                IF user[b] # None /\ user[b].gatewaytask = <<g, epoch[g]>> THEN None ELSE user[b]]
            BY <1>5 DEF CheckRecycle
      <2> HIDE DEF a
      <2> QED BY <1>1, <2>4, <2>5
<1>6. ASSUME NEW b \in Account, update(b) PROVE user'[a] = user[a]
      <2> HIDE DEF a
      <2> QED BY <1>1, <1>6 DEF update
<1>7. ASSUME NEW j \in Login, \/ Answer(j) \/ verifyACCID(j) \/ Sync(j) \/ Leave(j) \/ RecycleThread(j)
                              \/ \E h \in Gateway : requestLogin(j, h)
      PROVE  user' = user
      BY <1>7 DEF Answer, verifyACCID, Sync, uniqueAdd, waitSync, Leave, RecycleThread, recycleConn, uniqueRemove,
                  requestLogin, billVars
<1>8. ASSUME NEW h \in Gateway, BillClient(h) \/ Loss(h) \/ Reconnect(h)
      PROVE  user' = user
      BY <1>8 DEF BillClient, PutSession, accountVerifyOK, Loss, Reconnect, billVars
<1>9. ASSUME UNCHANGED vars \/ \E b \in Account, h \in Gateway : SessionExpires(h, b)
      PROVE  user' = user
      BY <1>9 DEF vars, SessionExpires, billVars
<1> QED BY <1>2, <1>3, <1>4, <1>5, <1>6, <1>7, <1>8, <1>9 DEF Next, Bill

\* The bill server's answer is for the one task of the account at the gateway.
LEMMA ReturnIs ==
  ASSUME Types, Registered, Messages, NEW g \in Gateway, accountVerifyOK(g)
  PROVE  LET c == Head(toGate[g])
         IN  /\ c.login \in Login /\ c.kind = "Return" /\ 1 \in DOMAIN toGate[g] /\ c = toGate[g][1]
             /\ wdGatewayID[c.login] = g /\ task[c.login] = "WAITING"
             /\ (c.retcode /\ Steady(g) => Is(accid[c.login], c.login, "CONF_LOGIN"))
             /\ task' = [task EXCEPT ![c.login] = IF c.retcode THEN "SUCCESS" ELSE "FAILURE"]
<1> DEFINE c == Head(toGate[g])
<1>1. c.login \in Login /\ c.kind = "Return" /\ 1 \in DOMAIN toGate[g] /\ c = toGate[g][1]
      BY FromIs DEF accountVerifyOK
<1>2. /\ wdGatewayID[c.login] = g /\ task[c.login] = "WAITING"
      /\ c.retcode /\ Steady(g) => Is(accid[c.login], c.login, "CONF_LOGIN")
      BY <1>1 DEF Messages, GateMsg
<1>3. gatewayTaskSet[g][accid[c.login]] = c.login
      BY <1>1, <1>2 DEF Registered
<1>4. c.login # None
      BY <1>1, LoginAssumption
<1>5. task' = [task EXCEPT ![c.login] = IF c.retcode THEN "SUCCESS" ELSE "FAILURE"]
      BY <1>2, <1>3, <1>4 DEF accountVerifyOK
<1> QED BY <1>1, <1>2, <1>5

\* Tasks of which nobody else speaks: only the bill server's answer ends the
\* wait and makes a success, and what leaves goes.
LEMMA TaskSteps ==
  ASSUME Types, [Next]_vars, NEW i \in Login
  PROVE  /\ task[i] \in {"leaving", "gone"} => task'[i] \in {"leaving", "gone"}
         /\ \/ \E g \in Gateway : accountVerifyOK(g)
            \/ /\ task[i] = "WAITING" => task'[i] = "WAITING"
               /\ task'[i] \in {"SUCCESS", "okay"} => task[i] \in {"SUCCESS", "okay"}
<1>1. task \in [Login -> TaskState]
      BY DEF Types
<1>2. ASSUME NEW j \in Login, verifyACCID(j) \/ uniqueAdd(j) \/ waitSync(j) \/ Leave(j) \/ recycleConn(j) \/ uniqueRemove(j)
      PROVE  /\ task[i] \in {"leaving", "gone"} => task'[i] \in {"leaving", "gone"}
             /\ task[i] = "WAITING" => task'[i] = "WAITING"
             /\ task'[i] \in {"SUCCESS", "okay"} => task[i] \in {"SUCCESS", "okay"}
      <2>1. \E st \in TaskState :
              /\ task' = [task EXCEPT ![j] = st]
              /\ task[j] \in {"leaving", "gone"} => st \in {"leaving", "gone"}
              /\ task[j] # "WAITING"
              /\ st \in {"SUCCESS", "okay"} => task[j] \in {"SUCCESS", "okay"}
            BY <1>2 DEF verifyACCID, uniqueAdd, waitSync, Leave, recycleConn, uniqueRemove, SetTask, TaskState
      <2> QED BY <1>1, <2>1
<1>3. ASSUME NEW g \in Gateway, accountVerifyOK(g)
      PROVE  task[i] \in {"leaving", "gone"} => task'[i] \in {"leaving", "gone"}
      BY <1>1, <1>3 DEF accountVerifyOK
<1>4. ASSUME NEW g \in Gateway, Bill(g) \/ PutSession(g) \/ Loss(g) \/ Reconnect(g) PROVE task' = task
      BY <1>4 DEF Bill, LoginVerify, Logout, CheckRecycle, PutSession, Loss, Reconnect, gateVars
<1>5. ASSUME NEW j \in Login, Answer(j) \/ \E g \in Gateway : requestLogin(j, g) PROVE task' = task
      BY <1>5 DEF Answer, requestLogin, gateVars
<1>6. ASSUME \/ NewSession \/ UNCHANGED vars
             \/ \E a \in Account : update(a) \/ \E g \in Gateway : SessionExpires(g, a)
      PROVE  task' = task
      BY <1>6 DEF NewSession, vars, update, SessionExpires, gateVars
<1> QED BY <1>2, <1>3, <1>4, <1>5, <1>6 DEF Next, BillClient, Sync, RecycleThread

\* OkayIsLoggedIn is kept by every step.
LEMMA NextOkay == ASSUME LoginInv, [Next]_vars PROVE OkayIsLoggedIn'
<1> USE DEF LoginInv
<1> SUFFICES ASSUME NEW i \in Login, task'[i] \in {"SUCCESS", "okay"}, Steady(wdGatewayID[i])'
             PROVE  Is(accid[i], i, "CONF_LOGIN")'
    BY DEF OkayIsLoggedIn
<1>1. ASSUME task[i] # "none"
      PROVE  wdGatewayID[i] \in Gateway /\ wdGatewayID[i] # None /\ wdGatewayID'[i] = wdGatewayID[i] /\ Steady(wdGatewayID[i])
      <2>1. wdGatewayID[i] \in Gateway /\ wdGatewayID[i] # None
            BY <1>1 DEF Asked, AskedLogins, Types
      <2>2. wdGatewayID'[i] = wdGatewayID[i]
            BY <2>1, WdStays
      <2>3. epoch'[wdGatewayID[i]] = 0 /\ billTask'[wdGatewayID[i]] = "okay"
            BY <2>2 DEF Steady
      <2> QED BY <2>1, <2>2, <2>3, SteadyBack DEF Steady
<1>2. CASE task[i] \in {"SUCCESS", "okay"}
      <2>1. Is(accid[i], i, "CONF_LOGIN")
            BY <1>1, <1>2 DEF OkayIsLoggedIn
      <2> QED BY <1>1, <1>2, <2>1, LoggedStays
<1>3. CASE task[i] \notin {"SUCCESS", "okay"}
      <2>1. PICK g \in Gateway : accountVerifyOK(g)
            BY <1>3, TaskSteps
      <2> DEFINE c == Head(toGate[g])
      <2>2. /\ wdGatewayID[c.login] = g /\ task[c.login] = "WAITING"
            /\ (c.retcode /\ Steady(g) => Is(accid[c.login], c.login, "CONF_LOGIN"))
            /\ task' = [task EXCEPT ![c.login] = IF c.retcode THEN "SUCCESS" ELSE "FAILURE"]
            /\ c.login \in Login
            BY <2>1, ReturnIs
      <2> HIDE DEF c
      <2>3. task \in [Login -> TaskState]
            BY DEF Types
      <2>4. i = c.login /\ c.retcode
            BY <1>3, <2>2, <2>3
      <2>5. Is(accid[i], i, "CONF_LOGIN")
            BY <1>1, <2>2, <2>4
      <2>6. task[i] = "WAITING"
            BY <2>2, <2>4
      <2> QED BY <1>1, <2>5, <2>6, LoggedStays
<1> QED BY <1>2, <1>3

-----------------------------------------------------------------------------
(* The messages.                                                           *)
\* p holds commands of q, each at most once, and at most one new command of C.
Ext(q, p, C) ==
  \E f \in [DOMAIN p -> DOMAIN q \cup {0}] :
    /\ \A k \in DOMAIN p : IF f[k] = 0 THEN p[k] \in C ELSE p[k] = q[f[k]]
    /\ \A j, k \in DOMAIN p : f[j] = f[k] => j = k

\* Every step of a connection is such an extension.
LEMMA ExtIs ==
  ASSUME NEW q \in Seq(Commands), NEW C
  PROVE  /\ Ext(q, q, C) /\ Ext(q, <<>>, C)
         /\ q # <<>> => Ext(q, Tail(q), C)
         /\ \A p \in Prefixes(q) : Ext(q, p, C)
         /\ \A c \in C \cap Commands : Ext(q, Append(q, c), C)
<1>1. DOMAIN q = 1 .. Len(q) /\ Len(q) \in Nat /\ 0 \notin DOMAIN q
      OBVIOUS
<1>2. Ext(q, q, C)
      <2>1. [k \in DOMAIN q |-> k] \in [DOMAIN q -> DOMAIN q \cup {0}]
            OBVIOUS
      <2> QED BY <1>1, <2>1 DEF Ext
<1>3. Ext(q, <<>>, C)
      <2>1. [k \in DOMAIN <<>> |-> 0] \in [DOMAIN <<>> -> DOMAIN q \cup {0}] /\ DOMAIN <<>> = {}
            OBVIOUS
      <2> QED BY <2>1 DEF Ext
<1>4. ASSUME q # <<>> PROVE Ext(q, Tail(q), C)
      <2> DEFINE p == Tail(q)
                 f == [k \in DOMAIN p |-> k + 1]
      <2>1. /\ \A k \in DOMAIN p : k + 1 \in DOMAIN q /\ p[k] = q[k + 1]
            /\ \A j, k \in DOMAIN p : j + 1 = k + 1 => j = k
            BY <1>4, TailIs
      <2>2. f \in [DOMAIN p -> DOMAIN q \cup {0}] /\ \A k \in DOMAIN p : f[k] = k + 1 /\ f[k] # 0
            BY <1>1, <2>1
      <2> HIDE DEF p, f
      <2>3. Ext(q, p, C)
            BY <2>1, <2>2 DEF Ext
      <2> QED BY <2>3 DEF p
<1>5. ASSUME NEW p \in Prefixes(q) PROVE Ext(q, p, C)
      <2> DEFINE f == [k \in DOMAIN p |-> k]
      <2>1. \A k \in DOMAIN p : k \in DOMAIN q /\ p[k] = q[k]
            BY PrefixIs
      <2>2. f \in [DOMAIN p -> DOMAIN q \cup {0}] /\ \A k \in DOMAIN p : f[k] = k /\ f[k] # 0
            BY <1>1, <2>1
      <2> HIDE DEF f
      <2> QED BY <2>1, <2>2 DEF Ext
<1>6. ASSUME NEW c \in C \cap Commands PROVE Ext(q, Append(q, c), C)
      <2> DEFINE p == Append(q, c)
                 f == [k \in DOMAIN p |-> IF k = Len(q) + 1 THEN 0 ELSE k]
      <2>1. /\ DOMAIN p = 1 .. Len(q) + 1 /\ p[Len(q) + 1] = c
            /\ \A k \in 1 .. Len(q) : p[k] = q[k]
            /\ \A k \in 1 .. Len(q) + 1 : k \in 1 .. Len(q) \/ k = Len(q) + 1
            BY AppendIs
      <2>2. \A k \in DOMAIN p : f[k] = IF k = Len(q) + 1 THEN 0 ELSE k
            OBVIOUS
      <2>3. \A k \in DOMAIN p : k # Len(q) + 1 => k \in DOMAIN q
            BY <1>1, <2>1
      <2>4. f \in [DOMAIN p -> DOMAIN q \cup {0}]
            BY <2>3
      <2> HIDE DEF p, f
      <2>5. \A k \in DOMAIN p : IF f[k] = 0 THEN p[k] \in C ELSE p[k] = q[f[k]]
            BY <1>1, <2>1, <2>2, <2>3
      <2>6. \A j, k \in DOMAIN p : f[j] = f[k] => j = k
            BY <1>1, <2>2, <2>3
      <2>7. Ext(q, p, C)
            BY <2>4, <2>5, <2>6 DEF Ext
      <2> QED BY <2>7 DEF p
<1> QED BY <1>2, <1>3, <1>4, <1>5, <1>6

\* What is in it is old or new,
LEMMA ExtHas ==
  ASSUME NEW q, NEW p, NEW C, Ext(q, p, C), NEW k \in DOMAIN p
  PROVE  p[k] \in C \/ \E j \in DOMAIN q : p[k] = q[j]
BY DEF Ext

\* and what was there once is there once.
LEMMA ExtOnce ==
  ASSUME NEW q, NEW p, NEW C, NEW kind, Ext(q, p, C), Once(q, kind),
         \A c \in C : c.kind = kind => \A j \in DOMAIN q : ~(q[j].kind = kind /\ q[j].login = c.login)
  PROVE  Once(p, kind)
<1>1. PICK f \in [DOMAIN p -> DOMAIN q \cup {0}] :
        /\ \A k \in DOMAIN p : IF f[k] = 0 THEN p[k] \in C ELSE p[k] = q[f[k]]
        /\ \A j, k \in DOMAIN p : f[j] = f[k] => j = k
      BY DEF Ext
<1> SUFFICES ASSUME NEW j \in DOMAIN p, NEW k \in DOMAIN p,
                    p[j].kind = kind, p[k].kind = kind, p[j].login = p[k].login
             PROVE  j = k
    BY DEF Once
<1>2. CASE f[j] = 0 /\ f[k] = 0
      BY <1>1, <1>2
<1>3. CASE f[j] = 0 /\ f[k] # 0
      BY <1>1, <1>3
<1>4. CASE f[j] # 0 /\ f[k] = 0
      BY <1>1, <1>4
<1>5. CASE f[j] # 0 /\ f[k] # 0
      <2>1. f[j] \in DOMAIN q /\ f[k] \in DOMAIN q
            BY <1>5
      <2> QED BY <1>1, <1>5, <2>1 DEF Once
<1> QED BY <1>2, <1>3, <1>4, <1>5

\* What was said stays true as long as the wait goes on.
LEMMA MsgStays ==
  ASSUME Types, Asked, Placed, Messages, [Next]_vars, NEW g \in Gateway, NEW c \in Commands
  PROVE  /\ GateMsg(g, c) /\ (c.kind = "Return" => task'[c.login] = "WAITING") => GateMsg(g, c)'
         /\ BillMsg(g, c) /\ (c.kind = "LoginVerify" => task'[c.login] = "WAITING") => BillMsg(g, c)'
<1>1. c.login \in Login /\ g # None
      BY LoginAssumption DEF Commands
<1>2. wdGatewayID[c.login] = g => wdGatewayID'[c.login] = g
      BY <1>1, WdStays
<1>3. ASSUME GateMsg(g, c), c.kind = "Return" => task'[c.login] = "WAITING" PROVE GateMsg(g, c)'
      <2>1. ASSUME c.kind = "Return", c.retcode, Steady(g)'
            PROVE  Is(accid[c.login], c.login, "CONF_LOGIN")'
            <3>1. wdGatewayID[c.login] = g /\ task[c.login] = "WAITING"
                  BY <1>3, <2>1 DEF GateMsg
            <3>2. Steady(g)
                  BY <2>1, SteadyBack
            <3>3. Is(accid[c.login], c.login, "CONF_LOGIN")
                  BY <1>3, <2>1, <3>2 DEF GateMsg
            <3>4. Steady(wdGatewayID[c.login])'
                  BY <1>2, <2>1, <3>1
            <3> QED BY <1>1, <3>1, <3>3, <3>4, LoggedStays
      <2> QED BY <1>2, <1>3, <2>1 DEF GateMsg
<1>4. ASSUME BillMsg(g, c), c.kind = "LoginVerify" => task'[c.login] = "WAITING" PROVE BillMsg(g, c)'
      BY <1>1, <1>2, <1>4, TaskSteps DEF BillMsg
<1> QED BY <1>3, <1>4

\* A step that carries messages on, and adds the commands C to the connection of
\* the gateway h and D to that of its bill server.
LEMMA Carry ==
  ASSUME Types, Asked, Placed, Messages, [Next]_vars, NEW h \in Gateway, NEW C, NEW D,
         \A g \in Gateway : /\ Ext(toGate[g], toGate'[g], IF g = h THEN C ELSE {})
                            /\ Ext(toBill[g], toBill'[g], IF g = h THEN D ELSE {}),
         \A i \in Login : task[i] = "WAITING" => task'[i] = "WAITING",
         \A c \in C : GateMsg(h, c)',
         \A c \in C : c.kind = "Return" =>
           /\ \A j \in DOMAIN toGate[h] : ~(toGate[h][j].kind = "Return" /\ toGate[h][j].login = c.login)
           /\ \A k \in DOMAIN toBill'[h] : ~(toBill'[h][k].kind = "LoginVerify" /\ toBill'[h][k].login = c.login),
         \A c \in D : BillMsg(h, c)',
         \A c \in D : c.kind = "LoginVerify" =>
           /\ \A j \in DOMAIN toBill[h] : ~(toBill[h][j].kind = "LoginVerify" /\ toBill[h][j].login = c.login)
           /\ \A k \in DOMAIN toGate'[h] : ~(toGate'[h][k].kind = "Return" /\ toGate'[h][k].login = c.login)
  PROVE  Messages'
<1> DEFINE CC(g) == IF g = h THEN C ELSE {}
           DD(g) == IF g = h THEN D ELSE {}
<1> SUFFICES ASSUME NEW g \in Gateway
             PROVE  /\ \A k \in DOMAIN toGate'[g] : GateMsg(g, toGate[g][k])'
                    /\ \A k \in DOMAIN toBill'[g] : BillMsg(g, toBill[g][k])'
                    /\ Once(toGate'[g], "Return") /\ Once(toBill'[g], "LoginVerify")
                    /\ \A j \in DOMAIN toGate'[g], k \in DOMAIN toBill'[g] :
                         ~(/\ toGate'[g][j].kind = "Return" /\ toBill'[g][k].kind = "LoginVerify"
                           /\ toGate'[g][j].login = toBill'[g][k].login)
    BY DEF Messages, Once
<1>1. /\ Ext(toGate[g], toGate'[g], CC(g)) /\ Ext(toBill[g], toBill'[g], DD(g))
      /\ toGate[g] \in Seq(Commands) /\ toBill[g] \in Seq(Commands)
      BY DEF Types
<1>2. /\ \A c \in CC(g) : c \in C /\ g = h
      /\ \A c \in DD(g) : c \in D /\ g = h
      OBVIOUS
<1> HIDE DEF CC, DD
<1>3. ASSUME NEW k \in DOMAIN toGate[g]
      PROVE  toGate[g][k] \in Commands /\ GateMsg(g, toGate[g][k]) /\ toGate[g][k].login \in Login
      <2>1. toGate[g][k] \in Commands /\ GateMsg(g, toGate[g][k])
            BY <1>1, <1>3 DEF Messages
      <2> QED BY <2>1 DEF Commands
<1>4. ASSUME NEW k \in DOMAIN toBill[g]
      PROVE  toBill[g][k] \in Commands /\ BillMsg(g, toBill[g][k]) /\ toBill[g][k].login \in Login
      <2>1. toBill[g][k] \in Commands /\ BillMsg(g, toBill[g][k])
            BY <1>1, <1>4 DEF Messages
      <2> QED BY <2>1 DEF Commands
<1>5. ASSUME NEW k \in DOMAIN toGate'[g] PROVE GateMsg(g, toGate[g][k])'
      <2>1. PICK m : m = toGate'[g][k]
            OBVIOUS
      <2>2. GateMsg(g, m)'
            <3>1. CASE m \in CC(g)
                  BY <1>2, <3>1
            <3>2. CASE m \notin CC(g)
                  <4>1. PICK j \in DOMAIN toGate[g] : m = toGate[g][j]
                        BY <1>1, <2>1, <3>2, ExtHas
                  <4>2. m \in Commands /\ GateMsg(g, m) /\ m.login \in Login
                        BY <1>3, <4>1
                  <4>3. m.kind = "Return" => task'[m.login] = "WAITING"
                        BY <4>2 DEF GateMsg
                  <4> QED BY <4>2, <4>3, MsgStays
            <3> QED BY <3>1, <3>2
      <2> QED BY <2>1, <2>2 DEF GateMsg
<1>6. ASSUME NEW k \in DOMAIN toBill'[g] PROVE BillMsg(g, toBill[g][k])'
      <2>1. PICK m : m = toBill'[g][k]
            OBVIOUS
      <2>2. BillMsg(g, m)'
            <3>1. CASE m \in DD(g)
                  BY <1>2, <3>1
            <3>2. CASE m \notin DD(g)
                  <4>1. PICK j \in DOMAIN toBill[g] : m = toBill[g][j]
                        BY <1>1, <2>1, <3>2, ExtHas
                  <4>2. m \in Commands /\ BillMsg(g, m) /\ m.login \in Login
                        BY <1>4, <4>1
                  <4>3. m.kind = "LoginVerify" => task'[m.login] = "WAITING"
                        BY <4>2 DEF BillMsg
                  <4> QED BY <4>2, <4>3, MsgStays
            <3> QED BY <3>1, <3>2
      <2> QED BY <2>1, <2>2 DEF BillMsg
<1>7. Once(toGate'[g], "Return")
      <2>1. Once(toGate[g], "Return")
            BY DEF Messages
      <2>2. \A c \in CC(g) : c.kind = "Return" =>
              \A j \in DOMAIN toGate[g] : ~(toGate[g][j].kind = "Return" /\ toGate[g][j].login = c.login)
            BY <1>2
      <2> QED BY <1>1, <2>1, <2>2, ExtOnce
<1>8. Once(toBill'[g], "LoginVerify")
      <2>1. Once(toBill[g], "LoginVerify")
            BY DEF Messages
      <2>2. \A c \in DD(g) : c.kind = "LoginVerify" =>
              \A j \in DOMAIN toBill[g] : ~(toBill[g][j].kind = "LoginVerify" /\ toBill[g][j].login = c.login)
            BY <1>2
      <2> QED BY <1>1, <2>1, <2>2, ExtOnce
<1>9. ASSUME NEW j \in DOMAIN toGate'[g], NEW k \in DOMAIN toBill'[g],
             toGate'[g][j].kind = "Return", toBill'[g][k].kind = "LoginVerify", toGate'[g][j].login = toBill'[g][k].login
      PROVE  FALSE
      <2>1. toGate'[g][j] \notin CC(g)
            BY <1>2, <1>9
      <2>2. toBill'[g][k] \notin DD(g)
            BY <1>2, <1>9
      <2>3. PICK l \in DOMAIN toGate[g] : toGate'[g][j] = toGate[g][l]
            BY <1>1, <2>1, ExtHas
      <2>4. PICK n \in DOMAIN toBill[g] : toBill'[g][k] = toBill[g][n]
            BY <1>1, <2>2, ExtHas
      <2> QED BY <1>9, <2>3, <2>4 DEF Messages
<1> QED BY <1>5, <1>6, <1>7, <1>8, <1>9

\* A step that only carries messages on.
LEMMA CarryOn ==
  ASSUME Types, Asked, Placed, Messages, [Next]_vars,
         \A g \in Gateway : Ext(toGate[g], toGate'[g], {}) /\ Ext(toBill[g], toBill'[g], {}),
         \A i \in Login : task[i] = "WAITING" => task'[i] = "WAITING"
  PROVE  Messages'
<1>1. CASE Gateway = {}
      BY <1>1 DEF Messages
<1>2. ASSUME NEW h \in Gateway PROVE Messages'
      <2>1. \A g \in Gateway : (IF g = h THEN {} ELSE {}) = {}
            OBVIOUS
      <2>2. \A g \in Gateway : /\ Ext(toGate[g], toGate'[g], IF g = h THEN {} ELSE {})
                               /\ Ext(toBill[g], toBill'[g], IF g = h THEN {} ELSE {})
            BY <2>1
      <2> QED BY <2>2, Carry
<1> QED BY <1>1, <1>2

\* The bill server's answer ends a wait, and nothing more is said of the login.
LEMMA NextReturn ==
  ASSUME LoginInv, [Next]_vars, NEW g \in Gateway, accountVerifyOK(g)
  PROVE  Messages'
<1> USE DEF LoginInv
<1> DEFINE c == Head(toGate[g])
           i == c.login
<1>1. /\ toGate \in [Gateway -> Seq(Commands)] /\ toBill \in [Gateway -> Seq(Commands)] /\ task \in [Login -> TaskState]
      BY DEF Types
<1>2. /\ i \in Login /\ c.kind = "Return" /\ 1 \in DOMAIN toGate[g] /\ c = toGate[g][1]
      /\ wdGatewayID[i] = g /\ task' = [task EXCEPT ![i] = IF c.retcode THEN "SUCCESS" ELSE "FAILURE"]
      BY ReturnIs
<1>3. toGate[g] # <<>> /\ toGate' = [toGate EXCEPT ![g] = Tail(toGate[g])] /\ toBill' = toBill
      BY DEF accountVerifyOK, From
<1> HIDE DEF c, i
<1>4. \A k \in DOMAIN Tail(toGate[g]) : k + 1 \in DOMAIN toGate[g] /\ Tail(toGate[g])[k] = toGate[g][k + 1] /\ k + 1 # 1
      BY <1>1, <1>3, TailIs
<1>5. ASSUME NEW h \in Gateway, NEW k \in DOMAIN toGate'[h]
      PROVE  /\ \E j \in DOMAIN toGate[h] : toGate'[h][k] = toGate[h][j]
             /\ toGate'[h][k].kind = "Return" => toGate'[h][k].login # i
      <2>1. CASE h = g
            <3>1. toGate'[h] = Tail(toGate[g])
                  BY <1>1, <1>3, <2>1
            <3>2. k + 1 \in DOMAIN toGate[g] /\ toGate'[h][k] = toGate[g][k + 1] /\ k + 1 # 1
                  BY <1>4, <3>1
            <3>3. Once(toGate[g], "Return")
                  BY DEF Messages
            <3> QED BY <1>2, <2>1, <3>2, <3>3 DEF Once, i
      <2>2. CASE h # g
            <3>1. toGate'[h] = toGate[h]
                  BY <1>1, <1>3, <2>2
            <3> QED BY <1>2, <2>2, <3>1 DEF Messages, GateMsg
      <2> QED BY <2>1, <2>2
<1>6. ASSUME NEW h \in Gateway, NEW k \in DOMAIN toBill[h], toBill[h][k].kind = "LoginVerify"
      PROVE  toBill[h][k].login # i
      <2>1. CASE h = g
            BY <1>2, <1>6, <2>1 DEF Messages, i
      <2>2. CASE h # g
            BY <1>2, <2>2 DEF Messages, BillMsg
      <2> QED BY <2>1, <2>2
<1>7. ASSUME NEW j \in Login, j # i PROVE task'[j] = task[j]
      BY <1>1, <1>2, <1>7
<1> SUFFICES ASSUME NEW h \in Gateway
             PROVE  /\ \A k \in DOMAIN toGate'[h] : GateMsg(h, toGate[h][k])'
                    /\ \A k \in DOMAIN toBill'[h] : BillMsg(h, toBill[h][k])'
                    /\ Once(toGate'[h], "Return") /\ Once(toBill'[h], "LoginVerify")
                    /\ \A j \in DOMAIN toGate'[h], k \in DOMAIN toBill'[h] :
                         ~(/\ toGate'[h][j].kind = "Return" /\ toBill'[h][k].kind = "LoginVerify"
                           /\ toGate'[h][j].login = toBill'[h][k].login)
    BY DEF Messages, Once
<1>8. ASSUME NEW k \in DOMAIN toGate'[h] PROVE GateMsg(h, toGate[h][k])'
      <2>1. PICK m : m = toGate'[h][k]
            OBVIOUS
      <2>2. PICK j \in DOMAIN toGate[h] : m = toGate[h][j]
            BY <1>5, <2>1
      <2>3. m \in Commands /\ m.login \in Login
            <3>1. toGate[h] \in Seq(Commands)
                  BY <1>1
            <3>2. m \in Commands
                  BY <2>2, <3>1
            <3> QED BY <3>2 DEF Commands
      <2>4. GateMsg(h, m) /\ (m.kind = "Return" => m.login # i)
            <3>1. GateMsg(h, m)
                  BY <2>2 DEF Messages
            <3>2. toGate'[h][k].kind = "Return" => toGate'[h][k].login # i
                  BY <1>5
            <3> QED BY <2>1, <3>1, <3>2
      <2>5. m.kind = "Return" => task'[m.login] = "WAITING"
            BY <1>7, <2>3, <2>4 DEF GateMsg
      <2>6. GateMsg(h, m)'
            BY <2>3, <2>4, <2>5, MsgStays
      <2> QED BY <2>1, <2>6 DEF GateMsg
<1>9. ASSUME NEW k \in DOMAIN toBill'[h] PROVE BillMsg(h, toBill[h][k])'
      <2>1. PICK m : m = toBill'[h][k]
            OBVIOUS
      <2>2. m = toBill[h][k] /\ k \in DOMAIN toBill[h]
            BY <1>3, <2>1
      <2>3. m \in Commands /\ m.login \in Login
            <3>1. toBill[h] \in Seq(Commands)
                  BY <1>1
            <3>2. m \in Commands
                  BY <2>2, <3>1
            <3> QED BY <3>2 DEF Commands
      <2>4. BillMsg(h, m) /\ (m.kind = "LoginVerify" => m.login # i)
            BY <1>6, <2>2 DEF Messages
      <2>5. m.kind = "LoginVerify" => task'[m.login] = "WAITING"
            BY <1>7, <2>3, <2>4 DEF BillMsg
      <2>6. BillMsg(h, m)'
            BY <2>3, <2>4, <2>5, MsgStays
      <2> QED BY <2>1, <2>6 DEF BillMsg
<1>10. Once(toGate'[h], "Return")
       <2>1. Ext(toGate[h], toGate[h], {}) /\ Ext(toGate[g], Tail(toGate[g]), {})
             BY <1>1, <1>3, ExtIs
       <2>2. Ext(toGate[h], toGate'[h], {})
             BY <1>1, <1>3, <2>1
       <2>3. Once(toGate[h], "Return")
             BY DEF Messages
       <2> QED BY <2>2, <2>3, ExtOnce
<1>11. Once(toBill'[h], "LoginVerify")
       BY <1>3 DEF Messages
<1>12. ASSUME NEW j \in DOMAIN toGate'[h], NEW k \in DOMAIN toBill'[h],
              toGate'[h][j].kind = "Return", toBill'[h][k].kind = "LoginVerify", toGate'[h][j].login = toBill'[h][k].login
       PROVE  FALSE
       <2>1. PICK l \in DOMAIN toGate[h] : toGate'[h][j] = toGate[h][l]
             BY <1>5
       <2>2. toBill'[h][k] = toBill[h][k] /\ k \in DOMAIN toBill[h]
             BY <1>3
       <2> QED BY <1>12, <2>1, <2>2 DEF Messages
<1> QED BY <1>8, <1>9, <1>10, <1>11, <1>12

\* What is said of the messages between a gateway and the bill server is inductive.
LEMMA NextMessages == ASSUME LoginInv, [Next]_vars PROVE Messages'
<1> USE DEF LoginInv
<1>1. /\ toGate \in [Gateway -> Seq(Commands)] /\ toBill \in [Gateway -> Seq(Commands)] /\ task \in [Login -> TaskState]
      /\ \A i \in Login : accid[i] \in Account
      BY LoginAssumption DEF Types
<1>2. ASSUME NEW g \in Gateway, NEW C
      PROVE  /\ Ext(toGate[g], toGate[g], C) /\ Ext(toBill[g], toBill[g], C) /\ Ext(toBill[g], <<>>, C)
             /\ toGate[g] # <<>> => Ext(toGate[g], Tail(toGate[g]), C)
             /\ toBill[g] # <<>> => Ext(toBill[g], Tail(toBill[g]), C)
             /\ \A p \in Prefixes(toGate[g]) : Ext(toGate[g], p, C)
             /\ \A p \in Prefixes(toBill[g]) : Ext(toBill[g], p, C)
             /\ \A c \in C \cap Commands : Ext(toGate[g], Append(toGate[g], c), C) /\ Ext(toBill[g], Append(toBill[g], c), C)
      BY <1>1, ExtIs
\* what is received, sent, or neither
<1>3. ASSUME NEW g \in Gateway, NEW kind, Receive(g, kind), NEW h \in Gateway, NEW C
      PROVE  Ext(toBill[h], toBill'[h], C)
      BY <1>1, <1>2, <1>3 DEF Receive
<1>4. ASSUME NEW g \in Gateway, NEW kind, From(g, kind), NEW h \in Gateway, NEW C
      PROVE  Ext(toGate[h], toGate'[h], C)
      BY <1>1, <1>2, <1>4 DEF From
<1>5. ASSUME NEW g \in Gateway, NEW c \in Commands, toGate' = ByID(g, c), NEW h \in Gateway
      PROVE  Ext(toGate[h], toGate'[h], IF h = g THEN {c} ELSE {})
      <2>1. CASE h = g /\ toGate'[h] = Append(toGate[h], c)
            BY <1>2, <2>1
      <2>2. CASE toGate'[h] = toGate[h]
            BY <1>2, <2>2
      <2> QED BY <1>1, <1>5, <2>1, <2>2 DEF ByID
<1>6. ASSUME NEW g \in Gateway, NEW c \in Commands, Send(g, c), NEW h \in Gateway
      PROVE  Ext(toBill[h], toBill'[h], IF h = g THEN {c} ELSE {})
      <2>1. CASE h = g /\ toBill'[h] = Append(toBill[h], c)
            BY <1>2, <2>1
      <2>2. CASE toBill'[h] = toBill[h]
            BY <1>2, <2>2
      <2> QED BY <1>1, <1>6, <2>1, <2>2 DEF Send
<1>7. CASE UNCHANGED <<toGate, toBill>> /\ \A i \in Login : task[i] = "WAITING" => task'[i] = "WAITING"
      <2>1. \A g \in Gateway : Ext(toGate[g], toGate'[g], {}) /\ Ext(toBill[g], toBill'[g], {})
            BY <1>2, <1>7
      <2> QED BY <1>7, <2>1, CarryOn
\* the bill server
<1>8. CASE NewSession
      <2> DEFINE i == Head(toBillSuper)
                 g == wdGatewayID[i]
      <2>1. i \in Login /\ wdGatewayID[i] # None
            <3>1. toBillSuper \in Seq(Login) /\ toBillSuper # <<>>
                  BY <1>8 DEF NewSession, Types
            <3> QED BY <3>1, TailIs DEF Asked, AskedBill
      <2>2. g \in Gateway /\ wdGatewayID'[i] = g
            BY <2>1, WdStays DEF Types
      <2>3. toGate' = toGate \/ toGate' = ByID(g, Cmd("NewSession", i, FALSE))
            BY <1>8 DEF NewSession
      <2>4. toBill' = toBill /\ task' = task
            BY <1>8 DEF NewSession, gateVars
      <2> HIDE DEF i, g
      <2>5. PICK c, h : h \in Gateway /\ c = Cmd("NewSession", i, FALSE) /\ h = g
            BY <2>2
      <2>6. c \in Commands /\ c.kind = "NewSession" /\ c.login = i
            BY <2>1, <2>5, CmdType
      <2>7. \A f \in Gateway : /\ Ext(toGate[f], toGate'[f], IF f = h THEN {c} ELSE {})
                               /\ Ext(toBill[f], toBill'[f], IF f = h THEN {} ELSE {})
            BY <1>2, <1>5, <2>3, <2>4, <2>5, <2>6
      <2>8. \A d \in {c} : GateMsg(h, d)'
            BY <2>2, <2>5, <2>6 DEF GateMsg
      <2>9. h \in Gateway /\ \A d \in {c} : d.kind = "Return" => FALSE
            BY <2>5, <2>6
      <2> QED BY <2>4, <2>7, <2>8, <2>9, Carry
<1>9. ASSUME NEW g \in Gateway, LoginVerify(g) PROVE Messages'
      <2>0. PICK m, i, ok : m = Head(toBill[g]) /\ i = m.login /\ ok = Is(accid[i], i, "WAIT_LOGIN")
            OBVIOUS
      <2>1. m \in Commands /\ m.kind = "LoginVerify" /\ i \in Login /\ accid[i] \in Account /\ 1 \in DOMAIN toBill[g]
            /\ m = toBill[g][1] /\ Receive(g, "LoginVerify")
            BY <1>9, <2>0, BillIs DEF LoginVerify
      <2>2. BillMsg(g, m)
            BY <2>1 DEF Messages
      <2>3. wdGatewayID[i] = g /\ task[i] = "WAITING" /\ wdGatewayID[i] # None
            BY <2>0, <2>1, <2>2, LoginAssumption DEF BillMsg
      <2>4. wdGatewayID'[i] = g /\ task' = task
            BY <1>9, <2>1, <2>3, WdStays DEF LoginVerify, gateVars
      <2>5. toGate' = ByID(g, Cmd("Return", i, ok)) /\ ok \in BOOLEAN
            BY <1>9, <2>0 DEF LoginVerify, Is
      <2>6. user' = IF ok THEN [user EXCEPT ![accid[i]].state = "CONF_LOGIN"] ELSE user
            BY <1>9, <2>0 DEF LoginVerify
      <2>7. ok => Is(accid[i], i, "CONF_LOGIN")'
            <3> SUFFICES ASSUME ok PROVE Is(accid[i], i, "CONF_LOGIN")'
                OBVIOUS
            <3>1. user[accid[i]] \in BillUser /\ user \in [Account -> BillUser \cup {None}] /\ user[accid[i]].tempid = i
                  BY <2>0, <2>1 DEF Types, Is
            <3>2. [user[accid[i]] EXCEPT !.state = "CONF_LOGIN"] \in BillUser
                  BY <3>1 DEF BillUser
            <3>3. user'[accid[i]] = [user[accid[i]] EXCEPT !.state = "CONF_LOGIN"]
                  BY <2>1, <2>6, <3>1
            <3>4. user'[accid[i]].tempid = i /\ user'[accid[i]].state = "CONF_LOGIN"
                  BY <3>1, <3>3 DEF BillUser
            <3>5. user'[accid[i]] # None
                  BY <3>2, <3>3, LoginAssumption
            <3> QED BY <3>4, <3>5 DEF Is
      <2>8. \A j \in DOMAIN toGate[g] : ~(toGate[g][j].kind = "Return" /\ toGate[g][j].login = i)
            BY <2>0, <2>1 DEF Messages
      <2>9. \A k \in DOMAIN toBill'[g] : ~(toBill'[g][k].kind = "LoginVerify" /\ toBill'[g][k].login = i)
            <3>1. toBill[g] # <<>> /\ toBill'[g] = Tail(toBill[g]) /\ toBill[g] \in Seq(Commands)
                  BY <1>1, <2>1 DEF Receive
            <3>2. \A k \in DOMAIN Tail(toBill[g]) : k + 1 \in DOMAIN toBill[g] /\ Tail(toBill[g])[k] = toBill[g][k + 1] /\ k + 1 # 1
                  BY <3>1, TailIs
            <3> QED BY <2>0, <2>1, <3>1, <3>2 DEF Messages, Once
      <2>10. PICK c : c = Cmd("Return", i, ok)
             OBVIOUS
      <2>11. c \in Commands /\ c.kind = "Return" /\ c.login = i /\ c.retcode = ok
             BY <2>1, <2>5, <2>10, CmdType
      <2>12. \A f \in Gateway : /\ Ext(toGate[f], toGate'[f], IF f = g THEN {c} ELSE {})
                                /\ Ext(toBill[f], toBill'[f], IF f = g THEN {} ELSE {})
             BY <1>3, <1>5, <2>1, <2>5, <2>10, <2>11
      <2>13. \A d \in {c} : GateMsg(g, d)'
             BY <2>3, <2>4, <2>7, <2>11 DEF GateMsg
      <2>14. \A d \in {c} : d.kind = "Return" =>
               /\ \A j \in DOMAIN toGate[g] : ~(toGate[g][j].kind = "Return" /\ toGate[g][j].login = d.login)
               /\ \A k \in DOMAIN toBill'[g] : ~(toBill'[g][k].kind = "LoginVerify" /\ toBill'[g][k].login = d.login)
             BY <2>8, <2>9, <2>11
      <2> QED BY <2>4, <2>12, <2>13, <2>14, Carry
<1>10. ASSUME NEW g \in Gateway, Logout(g) \/ CheckRecycle(g) PROVE Messages'
       <2>1. task' = task /\ toGate' = toGate
             BY <1>10 DEF Logout, CheckRecycle, gateVars
       <2>2. Receive(g, "Logout") \/ toBill' = [toBill EXCEPT ![g] = <<>>]
             BY <1>10 DEF Logout, CheckRecycle
       <2>3. \A h \in Gateway : Ext(toBill[h], toBill'[h], {})
             BY <1>1, <1>2, <1>3, <2>2
       <2>4. \A h \in Gateway : Ext(toGate[h], toGate'[h], {})
             BY <1>2, <2>1
       <2> QED BY <2>1, <2>3, <2>4, CarryOn
<1>11. ASSUME NEW a \in Account, update(a) PROVE Messages'
       BY <1>7, <1>11 DEF update, netVars, gateVars
\* the gateway's connection
<1>12. ASSUME NEW g \in Gateway, PutSession(g) PROVE Messages'
       <2>1. task' = task /\ toBill' = toBill /\ From(g, "NewSession")
             BY <1>12 DEF PutSession
       <2>2. \A h \in Gateway : Ext(toGate[h], toGate'[h], {}) /\ Ext(toBill[h], toBill'[h], {})
             BY <1>2, <1>4, <2>1
       <2> QED BY <2>1, <2>2, CarryOn
<1>13. ASSUME NEW g \in Gateway, Loss(g) PROVE Messages'
       <2>1. PICK s \in Prefixes(toGate[g]), t \in Prefixes(toBill[g]) :
               toGate' = [toGate EXCEPT ![g] = s] /\ toBill' = [toBill EXCEPT ![g] = t]
             BY <1>13 DEF Loss
       <2>2. \A h \in Gateway : Ext(toGate[h], toGate'[h], {}) /\ Ext(toBill[h], toBill'[h], {})
             BY <1>1, <1>2, <2>1
       <2>3. task' = task
             BY <1>13 DEF Loss, gateVars
       <2> QED BY <2>2, <2>3, CarryOn
<1>14. ASSUME NEW g \in Gateway, Reconnect(g) PROVE Messages'
       BY <1>7, <1>14 DEF Reconnect, netVars, gateVars
\* the clients' tasks
<1>15. ASSUME NEW i \in Login, waitSync(i) PROVE Messages'
       <2> DEFINE g == wdGatewayID[i]
       <2>1. g \in Gateway /\ g # None /\ wdGatewayID'[i] = g /\ toGate' = toGate
             BY <1>15, WdStays DEF waitSync, Asked, AskedLogins, Types
       <2>2. \A j \in Login : task[j] = "WAITING" => task'[j] = "WAITING"
             BY <1>1, <1>15 DEF waitSync, SetTask
       <2>3. CASE toBill' = toBill
             BY <1>7, <2>1, <2>2, <2>3
       <2>4. CASE /\ task[i] = "NONE" /\ task' = [task EXCEPT ![i] = "WAITING"]
                  /\ Send(g, Cmd("LoginVerify", i, FALSE))
             <3> HIDE DEF g
             <3>1. PICK c, h : h \in Gateway /\ c = Cmd("LoginVerify", i, FALSE) /\ h = g
                   BY <2>1
             <3>2. c \in Commands /\ c.kind = "LoginVerify" /\ c.login = i
                   BY <3>1, CmdType
             <3>3. \A f \in Gateway : /\ Ext(toGate[f], toGate'[f], IF f = h THEN {} ELSE {})
                                      /\ Ext(toBill[f], toBill'[f], IF f = h THEN {c} ELSE {})
                   BY <1>2, <1>6, <2>1, <2>4, <3>1, <3>2
             <3>4. \A d \in {c} : BillMsg(h, d)'
                   BY <1>1, <2>1, <2>4, <3>1, <3>2 DEF BillMsg
             <3>5. \A j \in DOMAIN toBill[h] : ~(toBill[h][j].kind = "LoginVerify" /\ toBill[h][j].login = i)
                   BY <2>4, <3>1 DEF Messages, BillMsg
             <3>6. \A k \in DOMAIN toGate[h] : ~(toGate[h][k].kind = "Return" /\ toGate[h][k].login = i)
                   BY <2>4, <3>1 DEF Messages, GateMsg
             <3>7. \A d \in {c} : d.kind = "LoginVerify" =>
                     /\ \A j \in DOMAIN toBill[h] : ~(toBill[h][j].kind = "LoginVerify" /\ toBill[h][j].login = d.login)
                     /\ \A k \in DOMAIN toGate'[h] : ~(toGate'[h][k].kind = "Return" /\ toGate'[h][k].login = d.login)
                   BY <2>1, <3>2, <3>5, <3>6
             <3>8. h \in Gateway
                   BY <3>1
             <3> QED BY <2>2, <3>3, <3>4, <3>7, <3>8, Carry
       <2> QED BY <1>15, <2>3, <2>4 DEF waitSync, SetTask
<1>16. ASSUME NEW i \in Login, recycleConn(i) PROVE Messages'
       <2> DEFINE g == wdGatewayID[i]
       <2>1. g \in Gateway /\ g # None /\ wdGatewayID'[i] = g /\ toGate' = toGate
             BY <1>16, WdStays DEF recycleConn, Asked, AskedLogins, Types
       <2>2. task' = [task EXCEPT ![i] = "leaving"] /\ task[i] = "recycle" /\ Send(g, Cmd("Logout", i, FALSE))
             BY <1>16 DEF recycleConn, SetTask
       <2> HIDE DEF g
       <2>3. \A j \in Login : task[j] = "WAITING" => task'[j] = "WAITING"
             BY <1>1, <2>2
       <2>4. PICK c, h : h \in Gateway /\ c = Cmd("Logout", i, FALSE) /\ h = g
             BY <2>1
       <2>5. c \in Commands /\ c.kind = "Logout" /\ c.login = i
             BY <2>4, CmdType
       <2>6. \A f \in Gateway : /\ Ext(toGate[f], toGate'[f], IF f = h THEN {} ELSE {})
                                /\ Ext(toBill[f], toBill'[f], IF f = h THEN {c} ELSE {})
             BY <1>2, <1>6, <2>1, <2>2, <2>4, <2>5
       <2>7. \A d \in {c} : BillMsg(h, d)'
             BY <1>1, <2>1, <2>2, <2>4, <2>5 DEF BillMsg
       <2>8. \A d \in {c} : d.kind = "LoginVerify" =>
               /\ \A j \in DOMAIN toBill[h] : ~(toBill[h][j].kind = "LoginVerify" /\ toBill[h][j].login = d.login)
               /\ \A k \in DOMAIN toGate'[h] : ~(toGate'[h][k].kind = "Return" /\ toGate'[h][k].login = d.login)
             BY <2>5
       <2>9. h \in Gateway
             BY <2>4
       <2> QED BY <2>3, <2>6, <2>7, <2>8, <2>9, Carry
<1>17. ASSUME NEW i \in Login, \/ Answer(i) \/ verifyACCID(i) \/ uniqueAdd(i) \/ Leave(i) \/ uniqueRemove(i)
                               \/ \E g \in Gateway : requestLogin(i, g)
       PROVE  Messages'
       <2>1. UNCHANGED <<toGate, toBill>>
             BY <1>17 DEF Answer, verifyACCID, uniqueAdd, Leave, uniqueRemove, requestLogin, netVars
       <2>2. \A j \in Login : task[j] = "WAITING" => task'[j] = "WAITING"
             BY <1>1, <1>17 DEF Answer, verifyACCID, uniqueAdd, Leave, uniqueRemove, requestLogin, SetTask, gateVars
       <2> QED BY <1>7, <2>1, <2>2
<1>18. ASSUME UNCHANGED vars \/ \E a \in Account, g \in Gateway : SessionExpires(g, a)
       PROVE  Messages'
       BY <1>7, <1>18 DEF vars, SessionExpires, netVars, gateVars
\* the answer: of its login nothing more is under way
<1>19. ASSUME NEW g \in Gateway, accountVerifyOK(g) PROVE Messages'
       BY <1>19, NextReturn
<1> QED BY <1>8, <1>9, <1>10, <1>11, <1>12, <1>13, <1>14, <1>15, <1>16, <1>17, <1>18, <1>19
        DEF Next, Bill, BillClient, Sync, RecycleThread

-----------------------------------------------------------------------------
\* The invariant holds when everything starts, with nobody anywhere.
LEMMA InitLogin == Init => LoginInv
<1> SUFFICES ASSUME Init PROVE LoginInv
    OBVIOUS
<1>1. /\ \A i \in Login : client[i] = "new" /\ wdGatewayID[i] = None /\ task[i] = "none"
      /\ toBillSuper = <<>> /\ toFL = {} /\ \A a \in Account : user[a] = None
      /\ \A g \in Gateway : /\ toGate[g] = <<>> /\ toBill[g] = <<>>
                            /\ \A a \in Account : sessionData[g][a] = None /\ gatewayTaskSet[g][a] = None
      BY DEF Init
<1>2. DOMAIN <<>> = {}
      OBVIOUS
<1>3. Asked
      BY <1>1, <1>2 DEF Asked, AskedLogins, AskedBill, AnsweredFL
<1>4. Placed
      BY <1>1 DEF Placed, PlacedBill, PlacedGate
<1>5. Registered
      BY <1>1, LoginAssumption DEF Registered
<1>6. Messages
      BY <1>1, <1>2 DEF Messages, Once
<1>7. OkayIsLoggedIn
      BY <1>1 DEF OkayIsLoggedIn
<1> QED BY InitTypes, <1>3, <1>4, <1>5, <1>6, <1>7 DEF LoginInv

\* The invariant holds in every state the system reaches.
LEMMA LoginInvariant == Spec => []LoginInv
<1>1. LoginInv /\ [Next]_vars => LoginInv'
      <2> SUFFICES ASSUME LoginInv, [Next]_vars PROVE LoginInv'
          OBVIOUS
      <2>1. Types' /\ Asked' /\ Placed' /\ Registered'
            BY NextTypes, NextAsked, NextPlaced, NextRegistered DEF LoginInv
      <2>2. Messages' /\ OkayIsLoggedIn'
            BY NextMessages, NextOkay
      <2> QED BY <2>1, <2>2 DEF LoginInv
<1> QED BY <1>1, InitLogin, PTL DEF Spec

\* Every variable has its type, a user of the bill server is of its account, and
\* a session and a task are on the gateway FLServer picked for their login.
THEOREM LoginTypes == Spec => []TypeOK
<1>1. LoginInv => TypeOK
      <2> SUFFICES ASSUME LoginInv PROVE TypeOK
          OBVIOUS
      <2>1. \A a \in Account : user[a] # None => accid[user[a].tempid] = a
            BY DEF LoginInv, Placed, PlacedBill
      <2>2. ASSUME NEW g \in Gateway, NEW i \in Login, i \in {sessionData[g][accid[i]], gatewayTaskSet[g][accid[i]]}
            PROVE  wdGatewayID[i] = g
            BY <2>2, LoginAssumption DEF LoginInv, Placed, PlacedGate
      <2> QED BY <2>1, <2>2 DEF LoginInv, Types, TypeOK
<1> QED BY <1>1, LoginInvariant, PTL

\* Whoever plays on a gateway that kept its bill server is logged in there, with
\* this login and no other.
THEOREM LoginOkay == Spec => []OkayIsLoggedIn
<1>1. LoginInv => OkayIsLoggedIn
      BY DEF LoginInv
<1> QED BY <1>1, LoginInvariant, PTL

\* An account plays once: never twice on a gateway, and on two only if one of
\* them lost the bill server.
THEOREM LoginPlaysOnce == Spec => []PlaysOnce
<1>1. LoginInv => PlaysOnce
      <2> SUFFICES ASSUME LoginInv, NEW i \in Login, NEW j \in Login, i # j, accid[i] = accid[j],
                          task[i] = "okay", task[j] = "okay"
                   PROVE  /\ wdGatewayID[i] # wdGatewayID[j]
                          /\ ~Steady(wdGatewayID[i]) \/ ~Steady(wdGatewayID[j])
          BY DEF PlaysOnce
      <2>1. gatewayTaskSet[wdGatewayID[i]][accid[i]] = i /\ gatewayTaskSet[wdGatewayID[j]][accid[j]] = j
            BY DEF LoginInv, Registered
      <2>2. /\ Steady(wdGatewayID[i]) => user[accid[i]].tempid = i
            /\ Steady(wdGatewayID[j]) => user[accid[j]].tempid = j
            BY DEF LoginInv, OkayIsLoggedIn, Is
      <2> QED BY <2>1, <2>2
<1> QED BY <1>1, LoginInvariant, PTL

\* The answer by account is always for the login whose task waits.
THEOREM LoginAnswerFits == Spec => []AnswerFitsTask
<1>1. LoginInv => AnswerFitsTask
      <2> SUFFICES ASSUME LoginInv, NEW g \in Gateway, NEW k \in DOMAIN toGate[g], toGate[g][k].kind = "Return"
                   PROVE  /\ gatewayTaskSet[g][accid[toGate[g][k].login]] = toGate[g][k].login
                          /\ task[toGate[g][k].login] = "WAITING"
          BY DEF AnswerFitsTask
      <2>1. wdGatewayID[toGate[g][k].login] = g /\ task[toGate[g][k].login] = "WAITING"
            BY DEF LoginInv, Messages, GateMsg
      <2>2. toGate[g][k].login \in Login
            <3>1. toGate[g] \in Seq(Commands)
                  BY DEF LoginInv, Types
            <3>2. toGate[g][k] \in Commands
                  BY <3>1
            <3> QED BY <3>2 DEF Commands
      <2> QED BY <2>1, <2>2 DEF LoginInv, Registered
<1> QED BY <1>1, LoginInvariant, PTL

-----------------------------------------------------------------------------
(* Waits that end and accounts that come back.                             *)
(* A login is unheard of at the gateways until its session is passed on,   *)
(* which the bill server does once; and a user made by a connection that   *)
(* is gone, whom checkRecycle will not find, has not used his session and  *)
(* never can.                                                              *)
Unheard(i) ==
  /\ task[i] = "none"
  /\ \A g \in Gateway : /\ \A a \in Account : sessionData[g][a] # i
                        /\ \A r \in BOOLEAN : ~Sent(toGate[g], Cmd("NewSession", i, r))

Stale(u) ==
  LET g == u.gatewaytask[1]
  IN  u.gatewaytask[2] # epoch[g] \/ billTask[g] \in {"swept", "none"}

AskedOnce ==
  /\ \A j, k \in DOMAIN toBillSuper : toBillSuper[j] = toBillSuper[k] => j = k
  /\ \A k \in DOMAIN toBillSuper : Unheard(toBillSuper[k])

UserHeld(a) ==
  /\ user[a].gatewaytask[2] <= epoch[user[a].gatewaytask[1]]
  /\ Stale(user[a]) => user[a].state = "WAIT_LOGIN" /\ Unheard(user[a].tempid)
UsersHeld == \A a \in Account : user[a] # None => UserHeld(a)

HeldInv == LoginInv /\ AskedOnce /\ UsersHeld /\ InUseIsHeld

\* What is in a queue that grows at its end and shrinks at its front.
LEMMA SentIs ==
  ASSUME NEW q \in Seq(Commands), NEW e \in Commands, NEW c
  PROVE  /\ Sent(Append(q, e), e) /\ (Sent(q, c) => Sent(Append(q, e), c))
         /\ Sent(Append(q, e), c) => c = e \/ Sent(q, c)
<1>1. /\ Append(q, e)[Len(q) + 1] = e /\ Len(q) + 1 \in DOMAIN Append(q, e)
      /\ \A k \in DOMAIN q : k \in DOMAIN Append(q, e) /\ Append(q, e)[k] = q[k]
      /\ \A k \in DOMAIN Append(q, e) : k \in DOMAIN q \/ k = Len(q) + 1
      OBVIOUS
<1> QED BY <1>1 DEF Sent

\* The same at its front,
LEMMA SentTail ==
  ASSUME NEW q \in Seq(Commands), q # <<>>, NEW c
  PROVE  /\ Sent(q, c) => c = Head(q) \/ Sent(Tail(q), c)
         /\ Sent(Tail(q), c) => Sent(q, c)
<1>1. /\ DOMAIN q = 1 .. Len(q) /\ DOMAIN Tail(q) = 1 .. Len(q) - 1 /\ Head(q) = q[1]
      /\ \A k \in 1 .. Len(q) - 1 : Tail(q)[k] = q[k + 1] /\ k + 1 \in 1 .. Len(q)
      OBVIOUS
<1>2. \A k \in 1 .. Len(q) : k = 1 \/ (k - 1 \in 1 .. Len(q) - 1 /\ (k - 1) + 1 = k)
      OBVIOUS
<1>3. ASSUME Sent(q, c) PROVE c = Head(q) \/ Sent(Tail(q), c)
      <2>1. PICK k \in 1 .. Len(q) : q[k] = c
            BY <1>1, <1>3 DEF Sent
      <2>2. CASE k = 1
            BY <1>1, <2>1, <2>2
      <2>3. CASE k # 1
            <3>1. k - 1 \in 1 .. Len(q) - 1 /\ Tail(q)[k - 1] = c
                  BY <1>1, <1>2, <2>1, <2>3
            <3> QED BY <1>1, <3>1 DEF Sent
      <2> QED BY <2>2, <2>3
<1>4. ASSUME Sent(Tail(q), c) PROVE Sent(q, c)
      BY <1>1, <1>4 DEF Sent
<1> QED BY <1>3, <1>4

\* and when it is cut off.
LEMMA SentCut ==
  ASSUME NEW q \in Seq(Commands), NEW p \in Prefixes(q), NEW c, Sent(p, c)
  PROVE  Sent(q, c)
BY PrefixIs DEF Sent

\* How the queue to a gateway changes.
LEMMA GateSteps ==
  ASSUME Types, [Next]_vars, NEW g \in Gateway
  PROVE  \/ toGate'[g] = toGate[g]
         \/ /\ NewSession /\ billTask[g] = "okay" /\ toBillSuper # <<>>
            /\ wdGatewayID[Head(toBillSuper)] = g
            /\ user[accid[Head(toBillSuper)]] = None
            /\ toGate'[g] = Append(toGate[g], Cmd("NewSession", Head(toBillSuper), FALSE))
         \/ /\ LoginVerify(g) /\ billTask[g] = "okay"
            /\ LET i == Head(toBill[g]).login
               IN  toGate'[g] = Append(toGate[g], Cmd("Return", i, Is(accid[i], i, "WAIT_LOGIN")))
         \/ /\ PutSession(g) \/ accountVerifyOK(g)
            /\ toGate[g] # <<>> /\ toGate'[g] = Tail(toGate[g])
         \/ Loss(g) /\ toGate'[g] \in Prefixes(toGate[g])
<1>1. toGate \in [Gateway -> Seq(Commands)]
      BY DEF Types
<1>2. CASE NewSession
      <2> DEFINE i == Head(toBillSuper)
                 c == Cmd("NewSession", i, FALSE)
      <2>1. \/ toGate' = toGate
            \/ toGate' = ByID(wdGatewayID[i], c) /\ user[accid[i]] = None /\ toBillSuper # <<>>
            BY <1>2 DEF NewSession
      <2> HIDE DEF c
      <2>2. \/ toGate' = toGate
            \/ /\ toGate' = [toGate EXCEPT ![wdGatewayID[i]] = Append(@, c)]
               /\ billTask[wdGatewayID[i]] = "okay" /\ user[accid[i]] = None /\ toBillSuper # <<>>
            BY <2>1 DEF ByID
      <2>3. CASE toGate' = toGate
            BY <2>3
      <2>4. CASE toGate' # toGate
            <3>1. CASE wdGatewayID[i] = g
                  BY <1>1, <1>2, <2>2, <2>4, <3>1 DEF c
            <3>2. CASE wdGatewayID[i] # g
                  BY <1>1, <2>2, <2>4, <3>2
            <3> QED BY <3>1, <3>2
      <2> QED BY <2>3, <2>4
<1>3. ASSUME NEW h \in Gateway, LoginVerify(h), toGate'[g] # toGate[g]
      PROVE  /\ LoginVerify(g) /\ billTask[g] = "okay"
             /\ LET i == Head(toBill[g]).login
                IN  toGate'[g] = Append(toGate[g], Cmd("Return", i, Is(accid[i], i, "WAIT_LOGIN")))
      <2> DEFINE i == Head(toBill[h]).login
                 c == Cmd("Return", i, Is(accid[i], i, "WAIT_LOGIN"))
      <2>1. toGate' = ByID(h, c)
            BY <1>3 DEF LoginVerify
      <2> HIDE DEF c
      <2>2. toGate' = [toGate EXCEPT ![h] = Append(@, c)] /\ billTask[h] = "okay"
            BY <1>3, <2>1 DEF ByID
      <2>3. h = g /\ toGate'[g] = Append(toGate[g], c)
            BY <1>1, <1>3, <2>2
      <2> QED BY <1>3, <2>2, <2>3 DEF c
<1>4. ASSUME NEW h \in Gateway, PutSession(h) \/ accountVerifyOK(h), toGate'[g] # toGate[g]
      PROVE  /\ PutSession(g) \/ accountVerifyOK(g)
             /\ toGate[g] # <<>> /\ toGate'[g] = Tail(toGate[g])
      <2>1. toGate[h] # <<>> /\ toGate' = [toGate EXCEPT ![h] = Tail(@)]
            BY <1>4 DEF PutSession, accountVerifyOK, From
      <2>2. h = g
            BY <1>1, <1>4, <2>1
      <2> QED BY <1>1, <1>4, <2>1, <2>2
<1>5. ASSUME NEW h \in Gateway, Loss(h), toGate'[g] # toGate[g]
      PROVE  Loss(g) /\ toGate'[g] \in Prefixes(toGate[g])
      <2>1. PICK s \in Prefixes(toGate[h]) : toGate' = [toGate EXCEPT ![h] = s]
            BY <1>5 DEF Loss
      <2>2. h = g
            BY <1>1, <1>5, <2>1
      <2> QED BY <1>1, <1>5, <2>1, <2>2
<1>6. ASSUME NEW h \in Gateway, Logout(h) \/ CheckRecycle(h) \/ Reconnect(h) PROVE toGate' = toGate
      BY <1>6 DEF Logout, CheckRecycle, Reconnect, netVars
<1>7. ASSUME NEW i \in Login, \/ Answer(i) \/ verifyACCID(i) \/ Sync(i) \/ Leave(i) \/ RecycleThread(i)
                              \/ \E h \in Gateway : requestLogin(i, h)
      PROVE  toGate' = toGate
      BY <1>7 DEF Answer, verifyACCID, Sync, uniqueAdd, waitSync, Leave, RecycleThread, recycleConn, uniqueRemove,
                  requestLogin, netVars
<1>8. ASSUME \/ UNCHANGED vars
             \/ \E a \in Account : update(a) \/ \E h \in Gateway : SessionExpires(h, a)
      PROVE  toGate' = toGate
      BY <1>8 DEF vars, update, SessionExpires, netVars
<1> QED BY <1>2, <1>3, <1>4, <1>5, <1>6, <1>7, <1>8 DEF Next, Bill, BillClient

\* How the queue of a gateway to the bill server changes.
LEMMA BillSteps ==
  ASSUME Types, Asked, [Next]_vars, NEW g \in Gateway
  PROVE  \/ toBill'[g] = toBill[g]
         \/ \E e \in Commands : toBill'[g] = Append(toBill[g], e)
         \/ /\ LoginVerify(g) \/ Logout(g)
            /\ toBill[g] # <<>> /\ toBill'[g] = Tail(toBill[g])
         \/ Loss(g) \/ CheckRecycle(g)
<1>1. toBill \in [Gateway -> Seq(Commands)]
      BY DEF Types
<1>2. ASSUME NEW h \in Gateway, LoginVerify(h) \/ Logout(h), toBill'[g] # toBill[g]
      PROVE  /\ LoginVerify(g) \/ Logout(g)
             /\ toBill[g] # <<>> /\ toBill'[g] = Tail(toBill[g])
      <2>1. toBill[h] # <<>> /\ toBill' = [toBill EXCEPT ![h] = Tail(@)]
            BY <1>2 DEF LoginVerify, Logout, Receive
      <2>2. h = g
            BY <1>1, <1>2, <2>1
      <2> QED BY <1>1, <1>2, <2>1, <2>2
<1>3. ASSUME NEW h, NEW c \in Commands, Send(h, c), toBill'[g] # toBill[g]
      PROVE  toBill'[g] = Append(toBill[g], c)
      <2>1. toBill' = [toBill EXCEPT ![h] = Append(@, c)]
            BY <1>3 DEF Send
      <2>2. h = g
            BY <1>1, <1>3, <2>1
      <2> QED BY <1>1, <2>1, <2>2
<1>4. ASSUME NEW i \in Login, waitSync(i) \/ recycleConn(i), toBill'[g] # toBill[g]
      PROVE  \E e \in Commands : toBill'[g] = Append(toBill[g], e)
      <2>1. PICK k \in {"LoginVerify", "Logout"} : Send(wdGatewayID[i], Cmd(k, i, FALSE))
            BY <1>4 DEF waitSync, recycleConn
      <2>2. Cmd(k, i, FALSE) \in Commands
            BY CmdType
      <2> QED BY <1>3, <1>4, <2>1, <2>2
<1>5. ASSUME NEW h \in Gateway, Loss(h) \/ CheckRecycle(h), toBill'[g] # toBill[g]
      PROVE  Loss(g) \/ CheckRecycle(g)
      <2>1. \E t : toBill' = [toBill EXCEPT ![h] = t]
            BY <1>5 DEF Loss, CheckRecycle
      <2>2. h = g
            BY <1>1, <1>5, <2>1
      <2> QED BY <1>5, <2>2
<1>6. ASSUME NEW h \in Gateway, BillClient(h) \/ Reconnect(h) PROVE toBill' = toBill
      BY <1>6 DEF BillClient, PutSession, accountVerifyOK, Reconnect, netVars
<1>7. ASSUME NEW i \in Login, \/ Answer(i) \/ verifyACCID(i) \/ uniqueAdd(i) \/ Leave(i) \/ uniqueRemove(i)
                              \/ \E h \in Gateway : requestLogin(i, h)
      PROVE  toBill' = toBill
      BY <1>7 DEF Answer, verifyACCID, uniqueAdd, Leave, uniqueRemove, requestLogin, netVars
<1>8. ASSUME \/ NewSession \/ UNCHANGED vars
             \/ \E a \in Account : update(a) \/ \E h \in Gateway : SessionExpires(h, a)
      PROVE  toBill' = toBill
      BY <1>8 DEF NewSession, vars, update, SessionExpires, netVars
<1> QED BY <1>2, <1>4, <1>5, <1>6, <1>7, <1>8 DEF Next, Bill, Sync, RecycleThread

\* A command is there until it is read, or lost with the connection.
LEMMA SentStays ==
  ASSUME Types, Asked, [Next]_vars, NEW g \in Gateway, NEW c \in Commands
  PROVE  /\ Sent(toGate[g], c) =>
              \/ Sent(toGate'[g], c) \/ Loss(g)
              \/ c = Head(toGate[g]) /\ (PutSession(g) \/ accountVerifyOK(g))
         /\ Sent(toBill[g], c) =>
              \/ Sent(toBill'[g], c) \/ Loss(g) \/ CheckRecycle(g)
              \/ c = Head(toBill[g]) /\ (LoginVerify(g) \/ Logout(g))
<1>1. toGate[g] \in Seq(Commands) /\ toBill[g] \in Seq(Commands)
      BY DEF Types
<1>2. ASSUME Sent(toGate[g], c)
      PROVE  \/ Sent(toGate'[g], c) \/ Loss(g)
             \/ c = Head(toGate[g]) /\ (PutSession(g) \/ accountVerifyOK(g))
      <2>1. CASE toGate'[g] = toGate[g]
            BY <1>2, <2>1
      <2>2. CASE /\ NewSession /\ toBillSuper # <<>>
                 /\ toGate'[g] = Append(toGate[g], Cmd("NewSession", Head(toBillSuper), FALSE))
            <3>1. Head(toBillSuper) \in Login
                  BY <2>2, TailIs DEF Types
            <3>2. Cmd("NewSession", Head(toBillSuper), FALSE) \in Commands
                  BY <3>1, CmdType
            <3>3. Sent(Append(toGate[g], Cmd("NewSession", Head(toBillSuper), FALSE)), c)
                  BY <1>1, <1>2, <3>2, SentIs
            <3> QED BY <2>2, <3>3
      <2>3. CASE /\ LoginVerify(g)
                 /\ LET i == Head(toBill[g]).login
                    IN  toGate'[g] = Append(toGate[g], Cmd("Return", i, Is(accid[i], i, "WAIT_LOGIN")))
            <3> DEFINE i == Head(toBill[g]).login
                       e == Cmd("Return", i, Is(accid[i], i, "WAIT_LOGIN"))
            <3>1. i \in Login
                  BY <2>3, BillIs DEF LoginVerify
            <3>2. Is(accid[i], i, "WAIT_LOGIN") \in BOOLEAN
                  BY DEF Is
            <3>3. e \in Commands
                  BY <3>1, <3>2, CmdType
            <3>4. toGate'[g] = Append(toGate[g], e)
                  BY <2>3
            <3> HIDE DEF e
            <3>5. Sent(Append(toGate[g], e), c)
                  BY <1>1, <1>2, <3>3, SentIs
            <3> QED BY <3>4, <3>5
      <2>4. CASE /\ PutSession(g) \/ accountVerifyOK(g)
                 /\ toGate[g] # <<>> /\ toGate'[g] = Tail(toGate[g])
            <3>1. c = Head(toGate[g]) \/ Sent(Tail(toGate[g]), c)
                  BY <1>1, <1>2, <2>4, SentTail
            <3> QED BY <2>4, <3>1
      <2> QED BY <2>1, <2>2, <2>3, <2>4, GateSteps
<1>3. ASSUME Sent(toBill[g], c)
      PROVE  \/ Sent(toBill'[g], c) \/ Loss(g) \/ CheckRecycle(g)
             \/ c = Head(toBill[g]) /\ (LoginVerify(g) \/ Logout(g))
      <2>1. CASE toBill'[g] = toBill[g]
            BY <1>3, <2>1
      <2>2. ASSUME NEW e \in Commands, toBill'[g] = Append(toBill[g], e)
            PROVE  Sent(toBill'[g], c)
            <3>1. Sent(Append(toBill[g], e), c)
                  BY <1>1, <1>3, SentIs
            <3> QED BY <2>2, <3>1
      <2>3. CASE /\ LoginVerify(g) \/ Logout(g)
                 /\ toBill[g] # <<>> /\ toBill'[g] = Tail(toBill[g])
            <3>1. c = Head(toBill[g]) \/ Sent(Tail(toBill[g]), c)
                  BY <1>1, <1>3, <2>3, SentTail
            <3> QED BY <2>3, <3>1
      <2> QED BY <2>1, <2>2, <2>3, BillSteps
<1> QED BY <1>2, <1>3

\* A task starts to wait when it asks.
LEMMA WaitStarts ==
  ASSUME Types, [Next]_vars, NEW i \in Login, task'[i] = "WAITING", task[i] # "WAITING"
  PROVE  task[i] = "NONE" /\ Send(wdGatewayID[i], Cmd("LoginVerify", i, FALSE)) /\ UNCHANGED billVars
<1>1. task \in [Login -> TaskState]
      BY DEF Types
<1>2. ASSUME NEW j \in Login, waitSync(j)
      PROVE  task[i] = "NONE" /\ Send(wdGatewayID[i], Cmd("LoginVerify", i, FALSE)) /\ UNCHANGED billVars
      <2>1. \E st : SetTask(j, st)
            BY <1>2 DEF waitSync
      <2>2. i = j
            BY <1>1, <2>1 DEF SetTask
      <2>3. ASSUME NEW st, SetTask(j, st) PROVE st = "WAITING"
            BY <1>1, <2>2, <2>3 DEF SetTask
      <2>4. task[j] = "NONE" /\ Send(wdGatewayID[j], Cmd("LoginVerify", j, FALSE))
            BY <1>2, <2>3 DEF waitSync
      <2> QED BY <1>2, <2>2, <2>4 DEF waitSync
<1>3. ASSUME NEW j \in Login, verifyACCID(j) \/ uniqueAdd(j) \/ Leave(j) \/ recycleConn(j) \/ uniqueRemove(j)
      PROVE  FALSE
      <2>1. \E st \in TaskState \ {"WAITING"} : task' = [task EXCEPT ![j] = st]
            BY <1>3 DEF verifyACCID, uniqueAdd, Leave, recycleConn, uniqueRemove, SetTask, TaskState
      <2> QED BY <1>1, <2>1
<1>4. ASSUME NEW g \in Gateway, accountVerifyOK(g) PROVE FALSE
      <2>1. \/ task' = task
            \/ \E n : \E st \in {"SUCCESS", "FAILURE"} : task' = [task EXCEPT ![n] = st]
            BY <1>4 DEF accountVerifyOK
      <2> QED BY <1>1, <2>1
<1>5. ASSUME NEW g \in Gateway, Bill(g) \/ PutSession(g) \/ Loss(g) \/ Reconnect(g) PROVE task' = task
      BY <1>5 DEF Bill, LoginVerify, Logout, CheckRecycle, PutSession, Loss, Reconnect, gateVars
<1>6. ASSUME NEW j \in Login, Answer(j) \/ \E g \in Gateway : requestLogin(j, g) PROVE task' = task
      BY <1>6 DEF Answer, requestLogin, gateVars
<1>7. ASSUME \/ NewSession \/ UNCHANGED vars
             \/ \E a \in Account : update(a) \/ \E g \in Gateway : SessionExpires(g, a)
      PROVE  task' = task
      BY <1>7 DEF NewSession, vars, update, SessionExpires, gateVars
<1> QED BY <1>2, <1>3, <1>4, <1>5, <1>6, <1>7 DEF Next, BillClient, Sync, RecycleThread

\* A question or its answer is on the way, and the next step neither loses it nor
\* reads it without an answer.
LEMMA NextWait == ASSUME LoginInv, WaitIsAnswered, [Next]_vars PROVE WaitIsAnswered'
<1> USE DEF LoginInv
<1> SUFFICES ASSUME NEW i \in Login, task'[i] = "WAITING", Steady(wdGatewayID[i])'
             PROVE  \/ Sent(toBill'[wdGatewayID'[i]], Cmd("LoginVerify", i, FALSE))
                    \/ \E retcode \in BOOLEAN : Sent(toGate'[wdGatewayID'[i]], Cmd("Return", i, retcode))
    BY DEF WaitIsAnswered, Sent
<1> DEFINE g == wdGatewayID[i]
           ask == Cmd("LoginVerify", i, FALSE)
<1>1. task[i] \in {"NONE", "WAITING"}
      BY WaitStarts
<1>2. g \in Gateway /\ wdGatewayID'[i] = g
      <2>1. g \in Gateway /\ g # None
            BY <1>1 DEF Asked, AskedLogins, Types
      <2> QED BY <2>1, WdStays
<1>3. epoch'[g] = 0 /\ billTask'[g] = "okay"
      BY <1>2 DEF Steady
<1>4. Steady(g)
      BY <1>2, <1>3, SteadyBack DEF Steady
<1>5. ~Loss(g) /\ ~CheckRecycle(g)
      BY <1>2, <1>3 DEF Loss, CheckRecycle, Types
<1>6. toGate[g] \in Seq(Commands) /\ toBill[g] \in Seq(Commands)
      BY <1>2 DEF Types
<1>7. ask \in Commands /\ ask.kind = "LoginVerify" /\ ask.login = i
      BY CmdType
<1> HIDE DEF g, ask
<1> SUFFICES Sent(toBill'[g], ask) \/ \E retcode \in BOOLEAN : Sent(toGate'[g], Cmd("Return", i, retcode))
    BY <1>2 DEF ask
<1>8. CASE task[i] # "WAITING"
      <2>1. Send(g, ask)
            BY <1>8, WaitStarts DEF g, ask
      <2>2. toBill'[g] = Append(toBill[g], ask)
            BY <1>2, <1>4, <2>1 DEF Send, Steady, Types
      <2>3. Sent(Append(toBill[g], ask), ask)
            BY <1>6, <1>7, SentIs
      <2> QED BY <2>2, <2>3
<1>9. CASE task[i] = "WAITING" /\ Sent(toBill[g], ask)
      <2> SUFFICES ASSUME ~Sent(toBill'[g], ask)
                   PROVE  \E retcode \in BOOLEAN : Sent(toGate'[g], Cmd("Return", i, retcode))
          OBVIOUS
      <2>1. ask = Head(toBill[g]) /\ (LoginVerify(g) \/ Logout(g))
            BY <1>2, <1>5, <1>9, <1>7, SentStays
      <2>2. LoginVerify(g)
            BY <1>7, <2>1 DEF Logout, Receive
      <2>3. Head(toBill[g]).login = i
            BY <1>7, <2>1
      <2> DEFINE ok == Is(accid[i], i, "WAIT_LOGIN")
      <2>4. toGate' = ByID(g, Cmd("Return", i, ok))
            BY <2>2, <2>3 DEF LoginVerify
      <2>5. ok \in BOOLEAN
            BY DEF Is
      <2> HIDE DEF ok
      <2>6. toGate'[g] = Append(toGate[g], Cmd("Return", i, ok))
            BY <1>2, <1>4, <2>4 DEF ByID, Steady, Types
      <2>7. Cmd("Return", i, ok) \in Commands
            BY <2>5, CmdType
      <2>8. Sent(Append(toGate[g], Cmd("Return", i, ok)), Cmd("Return", i, ok))
            BY <1>6, <2>7, SentIs
      <2> QED BY <2>5, <2>6, <2>8
<1>10. ASSUME task[i] = "WAITING", NEW r \in BOOLEAN, Sent(toGate[g], Cmd("Return", i, r))
      PROVE  Sent(toGate'[g], Cmd("Return", i, r))
      <2> DEFINE c == Cmd("Return", i, r)
      <2> SUFFICES ASSUME ~Sent(toGate'[g], c) PROVE FALSE
          OBVIOUS
      <2>1. c \in Commands /\ c.kind = "Return" /\ c.login = i
            BY CmdType
      <2>2. c = Head(toGate[g]) /\ (PutSession(g) \/ accountVerifyOK(g))
            BY <1>2, <1>5, <1>10, <2>1, SentStays
      <2> HIDE DEF c
      <2>3. accountVerifyOK(g)
            BY <2>1, <2>2 DEF PutSession, From
      <2>4. task'[i] # "WAITING"
            <3>1. task' = [task EXCEPT ![i] = IF c.retcode THEN "SUCCESS" ELSE "FAILURE"]
                  BY <1>2, <2>1, <2>2, <2>3, ReturnIs
            <3> QED BY <3>1 DEF Types
      <2> QED BY <2>4
<1>11. CASE task[i] = "WAITING"
       BY <1>4, <1>9, <1>10, <1>11 DEF WaitIsAnswered, g, ask
<1> QED BY <1>8, <1>11

\* Whoever waits on a gateway that kept its bill server is asked for or answered.
LEMMA LoginWaitAnswered == Spec => []WaitIsAnswered
<1>1. Init => WaitIsAnswered
      BY DEF Init, WaitIsAnswered
<1>2. LoginInv /\ WaitIsAnswered /\ [Next]_vars => WaitIsAnswered'
      BY NextWait
<1> QED BY <1>1, <1>2, LoginInvariant, PTL DEF Spec

\* Who is new to FLServer is unheard of everywhere.
LEMMA NewUnheard ==
  ASSUME LoginInv, NEW i \in Login, client[i] = "new"
  PROVE  Unheard(i) /\ \A k \in DOMAIN toBillSuper : toBillSuper[k] # i
<1> USE DEF LoginInv
<1>1. wdGatewayID[i] = None /\ task[i] = "none"
      BY DEF Asked, AskedLogins
<1>2. \A k \in DOMAIN toBillSuper : toBillSuper[k] # i
      BY <1>1 DEF Asked, AskedBill
<1>3. ASSUME NEW g \in Gateway, NEW a \in Account, sessionData[g][a] = i PROVE FALSE
      BY <1>1, <1>3, LoginAssumption DEF Placed, PlacedGate
<1>4. ASSUME NEW g \in Gateway, NEW r \in BOOLEAN, Sent(toGate[g], Cmd("NewSession", i, r)) PROVE FALSE
      <2>1. PICK k \in DOMAIN toGate[g] : toGate[g][k] = Cmd("NewSession", i, r)
            BY <1>4 DEF Sent
      <2>2. wdGatewayID[toGate[g][k].login] = g
            BY DEF Messages, GateMsg
      <2>3. toGate[g][k].login = i
            BY <2>1 DEF Cmd
      <2> QED BY <1>1, <2>2, <2>3, LoginAssumption
<1> QED BY <1>1, <1>2, <1>3, <1>4 DEF Unheard

\* A session is on its way to the gateway from the bill server's admission on.
LEMMA SessionSent ==
  ASSUME Types, [Next]_vars, NEW g \in Gateway, NEW i \in Login, NEW r \in BOOLEAN,
         Sent(toGate'[g], Cmd("NewSession", i, r))
  PROVE  \/ Sent(toGate[g], Cmd("NewSession", i, r))
         \/ /\ NewSession /\ i = Head(toBillSuper)
            /\ wdGatewayID[i] = g /\ billTask[g] = "okay" /\ user[accid[i]] = None
<1> DEFINE c == Cmd("NewSession", i, r)
<1>1. c \in Commands /\ c.kind = "NewSession" /\ c.login = i
      BY CmdType
<1>2. toGate[g] \in Seq(Commands) /\ Sent(toGate'[g], c)
      BY DEF Types
<1> HIDE DEF c
<1> SUFFICES \/ Sent(toGate[g], c)
             \/ /\ NewSession /\ i = Head(toBillSuper)
                /\ wdGatewayID[i] = g /\ billTask[g] = "okay" /\ user[accid[i]] = None
    BY DEF c
<1>3. CASE toGate'[g] = toGate[g]
      BY <1>2, <1>3
<1>4. CASE /\ NewSession /\ billTask[g] = "okay" /\ toBillSuper # <<>>
           /\ wdGatewayID[Head(toBillSuper)] = g
           /\ user[accid[Head(toBillSuper)]] = None
           /\ toGate'[g] = Append(toGate[g], Cmd("NewSession", Head(toBillSuper), FALSE))
      <2> DEFINE e == Cmd("NewSession", Head(toBillSuper), FALSE)
      <2>1. Head(toBillSuper) \in Login
            BY <1>4, TailIs DEF Types
      <2>2. e \in Commands /\ e.login = Head(toBillSuper)
            BY <2>1, CmdType
      <2>3. toGate'[g] = Append(toGate[g], e)
            BY <1>4
      <2> HIDE DEF e
      <2>4. c = e \/ Sent(toGate[g], c)
            BY <1>2, <2>2, <2>3, SentIs
      <2> QED BY <1>1, <1>4, <2>2, <2>4
<1>5. CASE /\ LoginVerify(g)
           /\ LET j == Head(toBill[g]).login
              IN  toGate'[g] = Append(toGate[g], Cmd("Return", j, Is(accid[j], j, "WAIT_LOGIN")))
      <2> DEFINE j == Head(toBill[g]).login
                 e == Cmd("Return", j, Is(accid[j], j, "WAIT_LOGIN"))
      <2>1. j \in Login /\ Is(accid[j], j, "WAIT_LOGIN") \in BOOLEAN
            BY <1>5, BillIs DEF LoginVerify, Is
      <2>2. e \in Commands /\ e.kind = "Return"
            BY <2>1, CmdType
      <2>3. toGate'[g] = Append(toGate[g], e)
            BY <1>5
      <2> HIDE DEF e
      <2>4. c = e \/ Sent(toGate[g], c)
            BY <1>2, <2>2, <2>3, SentIs
      <2> QED BY <1>1, <2>2, <2>4
<1>6. CASE toGate[g] # <<>> /\ toGate'[g] = Tail(toGate[g])
      BY <1>2, <1>6, SentTail
<1>7. CASE toGate'[g] \in Prefixes(toGate[g])
      BY <1>2, <1>7, SentCut
<1> QED BY <1>3, <1>4, <1>5, <1>6, <1>7, GateSteps

\* A client's task begins with its session.
LEMMA TaskBegins ==
  ASSUME Types, [Next]_vars, NEW i \in Login, task[i] = "none", task'[i] # "none"
  PROVE  client[i] = "told" /\ sessionData[wdGatewayID[i]][accid[i]] = i
<1>1. task \in [Login -> TaskState]
      BY DEF Types
<1>2. ASSUME NEW j \in Login, uniqueAdd(j) \/ waitSync(j) \/ Leave(j) \/ recycleConn(j) \/ uniqueRemove(j)
      PROVE  FALSE
      <2>1. task[j] # "none" /\ \E st : task' = [task EXCEPT ![j] = st]
            BY <1>2 DEF uniqueAdd, waitSync, Leave, recycleConn, uniqueRemove, SetTask
      <2> QED BY <1>1, <2>1
<1>3. ASSUME NEW j \in Login, verifyACCID(j) PROVE client[i] = "told" /\ sessionData[wdGatewayID[i]][accid[i]] = i
      <2>1. task' = [task EXCEPT ![j] = "chosen"]
            BY <1>3 DEF verifyACCID, SetTask
      <2>2. j = i
            BY <1>1, <2>1
      <2> QED BY <1>3, <2>2 DEF verifyACCID
<1>4. ASSUME NEW g \in Gateway, accountVerifyOK(g) PROVE FALSE
      <2>1. \/ task' = task
            \/ \E n, st : task[n] # "none" /\ task' = [task EXCEPT ![n] = st]
            BY <1>4 DEF accountVerifyOK
      <2> QED BY <1>1, <2>1
<1>5. ASSUME NEW g \in Gateway, Bill(g) \/ PutSession(g) \/ Loss(g) \/ Reconnect(g) PROVE task' = task
      BY <1>5 DEF Bill, LoginVerify, Logout, CheckRecycle, PutSession, Loss, Reconnect, gateVars
<1>6. ASSUME NEW j \in Login, Answer(j) \/ \E g \in Gateway : requestLogin(j, g) PROVE task' = task
      BY <1>6 DEF Answer, requestLogin, gateVars
<1>7. ASSUME \/ NewSession \/ UNCHANGED vars
             \/ \E a \in Account : update(a) \/ \E g \in Gateway : SessionExpires(g, a)
      PROVE  task' = task
      BY <1>7 DEF NewSession, vars, update, SessionExpires, gateVars
<1> QED BY <1>2, <1>3, <1>4, <1>5, <1>6, <1>7 DEF Next, BillClient, Sync, RecycleThread

\* A gateway has the sessions it was sent.
LEMMA SessionBegins ==
  ASSUME Types, [Next]_vars, NEW g \in Gateway, NEW a \in Account, NEW i \in Login,
         sessionData'[g][a] = i, sessionData[g][a] # i
  PROVE  \E r \in BOOLEAN : Sent(toGate[g], Cmd("NewSession", i, r))
<1>1. sessionData \in [Gateway -> [Account -> Login \cup {None}]] /\ None # i
      BY LoginAssumption DEF Types
<1>2. ASSUME NEW h \in Gateway, PutSession(h)
      PROVE  \E r \in BOOLEAN : Sent(toGate[g], Cmd("NewSession", i, r))
      <2> DEFINE c == Head(toGate[h])
      <2>1. c \in Commands /\ c.kind = "NewSession" /\ 1 \in DOMAIN toGate[h] /\ c = toGate[h][1]
            BY <1>2, FromIs DEF PutSession
      <2>2. sessionData' = [sessionData EXCEPT ![h][accid[c.login]] = c.login]
            BY <1>2 DEF PutSession
      <2> HIDE DEF c
      <2>3. h = g /\ c.login = i
            BY <1>1, <2>2
      <2>4. c = Cmd("NewSession", i, c.retcode) /\ c.retcode \in BOOLEAN
            BY <2>1, <2>3 DEF Commands, Cmd
      <2> QED BY <2>1, <2>3, <2>4 DEF Sent
<1>3. ASSUME NEW j \in Login, verifyACCID(j) PROVE FALSE
      <2>1. \E h, b : sessionData' = [sessionData EXCEPT ![h][b] = None]
            BY <1>3 DEF verifyACCID
      <2> QED BY <1>1, <2>1
<1>4. ASSUME NEW h \in Gateway, NEW b \in Account, SessionExpires(h, b) PROVE FALSE
      BY <1>1, <1>4 DEF SessionExpires
<1>5. ASSUME NEW h \in Gateway, Bill(h) \/ accountVerifyOK(h) \/ Loss(h) \/ Reconnect(h)
      PROVE  sessionData' = sessionData
      BY <1>5 DEF Bill, LoginVerify, Logout, CheckRecycle, accountVerifyOK, Loss, Reconnect, gateVars
<1>6. ASSUME NEW j \in Login, \/ Answer(j) \/ Sync(j) \/ Leave(j) \/ RecycleThread(j)
                              \/ \E h \in Gateway : requestLogin(j, h)
      PROVE  sessionData' = sessionData
      BY <1>6 DEF Answer, Sync, uniqueAdd, waitSync, Leave, RecycleThread, recycleConn, uniqueRemove, requestLogin, gateVars
<1>7. ASSUME NewSession \/ UNCHANGED vars \/ \E b \in Account : update(b)
      PROVE  sessionData' = sessionData
      BY <1>7 DEF NewSession, vars, update, gateVars
<1> QED BY <1>2, <1>3, <1>4, <1>5, <1>6, <1>7 DEF Next, BillClient

\* An unheard login stays so until the bill server admits it and tells its gateway.
LEMMA UnheardStays ==
  ASSUME LoginInv, [Next]_vars, NEW i \in Login, Unheard(i),
         NewSession /\ i = Head(toBillSuper) => user[accid[i]] # None \/ billTask[wdGatewayID[i]] # "okay"
  PROVE  Unheard(i)'
<1> USE DEF LoginInv
<1>1. task'[i] = "none"
      <2> SUFFICES ASSUME task'[i] # "none" PROVE FALSE
          OBVIOUS
      <2>1. client[i] = "told" /\ sessionData[wdGatewayID[i]][accid[i]] = i
            BY TaskBegins DEF Unheard
      <2>2. wdGatewayID[i] \in Gateway /\ accid[i] \in Account
            BY <2>1, LoginAssumption DEF Asked, AskedLogins, Types
      <2> QED BY <2>1, <2>2 DEF Unheard
<1>2. ASSUME NEW g \in Gateway, NEW a \in Account PROVE sessionData'[g][a] # i
      BY SessionBegins DEF Unheard
<1>3. ASSUME NEW g \in Gateway, NEW r \in BOOLEAN PROVE ~Sent(toGate'[g], Cmd("NewSession", i, r))
      BY SessionSent DEF Unheard
<1> QED BY <1>1, <1>2, <1>3 DEF Unheard, Sent

\* FLServer asks the bill server once for a login.
LEMMA NextAskedOnce ==
  ASSUME LoginInv, AskedOnce, [Next]_vars
  PROVE  AskedOnce'
<1> USE DEF LoginInv
<1> DEFINE q == toBillSuper
<1>1. q \in Seq(Login)
      BY DEF Types
<1>2. ASSUME NEW k \in DOMAIN q PROVE q[k] \in Login /\ Unheard(q[k])
      BY <1>1, <1>2 DEF AskedOnce
<1>3. ASSUME NewSession PROVE AskedOnce'
      <2>1. q # <<>> /\ toBillSuper' = Tail(q)
            BY <1>3 DEF NewSession
      <2>2. /\ Head(q) = q[1] /\ 1 \in DOMAIN q
            /\ \A k \in DOMAIN Tail(q) : k + 1 \in DOMAIN q /\ Tail(q)[k] = q[k + 1] /\ k + 1 # 1
            /\ \A j, k \in DOMAIN Tail(q) : j + 1 = k + 1 => j = k
            BY <1>1, <2>1, TailIs
      <2>3. ASSUME NEW j \in DOMAIN Tail(q), NEW k \in DOMAIN Tail(q), Tail(q)[j] = Tail(q)[k]
            PROVE  j = k
            BY <2>2, <2>3 DEF AskedOnce
      <2>4. ASSUME NEW k \in DOMAIN toBillSuper' PROVE Unheard(toBillSuper[k])'
            <3>1. PICK i \in Login : i = q[k + 1] /\ Unheard(i) /\ i # Head(q)
                  BY <1>2, <2>1, <2>2, <2>4 DEF AskedOnce
            <3>2. Unheard(i)'
                  BY <3>1, UnheardStays
            <3>3. toBillSuper'[k] = i
                  BY <2>1, <2>2, <2>4, <3>1
            <3> QED BY <3>2, <3>3 DEF Unheard
      <2> QED BY <2>1, <2>3, <2>4 DEF AskedOnce
<1>4. ASSUME ~NewSession, NEW i \in Login, Unheard(i) PROVE Unheard(i)'
      BY <1>4, UnheardStays
<1>5. ASSUME ~NewSession, toBillSuper' = toBillSuper PROVE AskedOnce'
      <2>1. ASSUME NEW k \in DOMAIN toBillSuper' PROVE Unheard(toBillSuper[k])'
            <3>1. PICK i \in Login : i = toBillSuper[k] /\ Unheard(i)
                  BY <1>2, <1>5, <2>1
            <3>2. Unheard(i)'
                  BY <1>4, <1>5, <3>1
            <3> QED BY <1>5, <3>1, <3>2 DEF Unheard
      <2> QED BY <1>5, <2>1 DEF AskedOnce
<1>6. ASSUME NEW i \in Login, NEW g \in Gateway, requestLogin(i, g), ~NewSession PROVE AskedOnce'
      <2>1. client[i] = "new" /\ toBillSuper' = Append(q, i)
            BY <1>6 DEF requestLogin
      <2>2. Unheard(i) /\ \A k \in DOMAIN q : q[k] # i
            BY <2>1, NewUnheard
      <2>3. /\ Append(q, i)[Len(q) + 1] = i /\ DOMAIN q = 1 .. Len(q) /\ DOMAIN Append(q, i) = 1 .. Len(q) + 1
            /\ \A k \in 1 .. Len(q) : Append(q, i)[k] = q[k]
            /\ \A k \in 1 .. Len(q) + 1 : k \in 1 .. Len(q) \/ k = Len(q) + 1
            BY <1>1, AppendIs
      <2>4. ASSUME NEW j \in DOMAIN Append(q, i), NEW k \in DOMAIN Append(q, i), Append(q, i)[j] = Append(q, i)[k]
            PROVE  j = k
            BY <2>2, <2>3, <2>4 DEF AskedOnce
      <2>5. ASSUME NEW k \in DOMAIN toBillSuper' PROVE Unheard(toBillSuper[k])'
            <3>1. PICK l \in Login : l = Append(q, i)[k] /\ Unheard(l)
                  BY <1>2, <2>1, <2>2, <2>3, <2>5
            <3>2. Unheard(l)'
                  BY <1>4, <1>6, <3>1
            <3> QED BY <2>1, <3>1, <3>2 DEF Unheard
      <2> QED BY <2>1, <2>4, <2>5 DEF AskedOnce
<1>7. ASSUME NEW i \in Login, Answer(i) \/ verifyACCID(i) \/ Sync(i) \/ Leave(i) \/ RecycleThread(i)
      PROVE  toBillSuper' = toBillSuper
      BY <1>7 DEF Answer, verifyACCID, Sync, uniqueAdd, waitSync, Leave, RecycleThread, recycleConn, uniqueRemove, netVars
<1>8. ASSUME NEW g \in Gateway, Bill(g) \/ BillClient(g) \/ Loss(g) \/ Reconnect(g)
      PROVE  toBillSuper' = toBillSuper
      BY <1>8 DEF Bill, LoginVerify, Logout, CheckRecycle, BillClient, PutSession, accountVerifyOK, Loss, Reconnect, netVars
<1>9. ASSUME UNCHANGED vars \/ \E a \in Account : update(a) \/ \E g \in Gateway : SessionExpires(g, a)
      PROVE  toBillSuper' = toBillSuper
      BY <1>9 DEF vars, update, SessionExpires, netVars
<1> QED BY <1>3, <1>5, <1>6, <1>7, <1>8, <1>9 DEF Next

\* The parts of a user of the bill server.
LEMMA UserParts ==
  ASSUME Types, NEW a \in Account, user[a] # None
  PROVE  /\ user[a] \in BillUser /\ user[a].tempid \in Login
         /\ user[a].gatewaytask[1] \in Gateway /\ user[a].gatewaytask[2] \in Nat
         /\ user[a].gatewaytask = <<user[a].gatewaytask[1], user[a].gatewaytask[2]>>
<1>1. user[a] \in BillUser
      BY DEF Types
<1>2. user[a].tempid \in Login /\ user[a].gatewaytask \in Gateway \X (0 .. MaxLoss)
      BY <1>1 DEF BillUser
<1> QED BY <1>1, <1>2

\* How a user comes and changes: made for a new session, logged in, logged out.
LEMMA UserSteps ==
  ASSUME Types, [Next]_vars, NEW a \in Account, user'[a] # None, user'[a] # user[a]
  PROVE  \/ LET i == Head(toBillSuper)
                g == wdGatewayID[i]
            IN  /\ NewSession /\ toBillSuper # <<>> /\ accid[i] = a /\ user[a] = None /\ getTaskByID(g)
                /\ user'[a] = [tempid |-> i, state |-> "WAIT_LOGIN", gatewaytask |-> <<g, epoch[g]>>]
         \/ /\ user[a] # None /\ user'[a] = [user[a] EXCEPT !.state = "CONF_LOGIN"]
            /\ \E g \in Gateway : LoginVerify(g) /\ Is(a, Head(toBill[g]).login, "WAIT_LOGIN")
         \/ /\ user[a] # None /\ user'[a] = [user[a] EXCEPT !.state = "CONF_LOGOUT"]
            /\ \E g \in Gateway : Logout(g) /\ Is(a, Head(toBill[g]).login, "CONF_LOGIN")
<1>1. user \in [Account -> BillUser \cup {None}]
      BY DEF Types
<1>2. ASSUME NewSession
      PROVE  LET i == Head(toBillSuper)
                 g == wdGatewayID[i]
             IN  /\ NewSession /\ toBillSuper # <<>> /\ accid[i] = a /\ user[a] = None /\ getTaskByID(g)
                 /\ user'[a] = [tempid |-> i, state |-> "WAIT_LOGIN", gatewaytask |-> <<g, epoch[g]>>]
      <2> DEFINE i == Head(toBillSuper)
                 g == wdGatewayID[i]
                 u == [tempid |-> i, state |-> "WAIT_LOGIN", gatewaytask |-> <<g, epoch[g]>>]
      <2>1. \/ user' = user
            \/ user' = [user EXCEPT ![accid[i]] = u] /\ getTaskByID(g) /\ user[accid[i]] = None
            BY <1>2 DEF NewSession
      <2>2. toBillSuper # <<>>
            BY <1>2 DEF NewSession
      <2> HIDE DEF u
      <2>3. accid[i] = a
            BY <1>1, <2>1
      <2>4. user'[a] = u /\ getTaskByID(g) /\ user[a] = None
            BY <1>1, <2>1, <2>3
      <2> QED BY <1>2, <2>2, <2>3, <2>4 DEF u
<1>3. ASSUME NEW g \in Gateway, LoginVerify(g)
      PROVE  /\ user[a] # None /\ user'[a] = [user[a] EXCEPT !.state = "CONF_LOGIN"]
             /\ Is(a, Head(toBill[g]).login, "WAIT_LOGIN")
      <2> DEFINE i == Head(toBill[g]).login
      <2>1. \/ user' = user
            \/ Is(accid[i], i, "WAIT_LOGIN") /\ user' = [user EXCEPT ![accid[i]].state = "CONF_LOGIN"]
            BY <1>3 DEF LoginVerify
      <2> HIDE DEF i
      <2>2. Is(accid[i], i, "WAIT_LOGIN") /\ accid[i] = a
            BY <1>1, <2>1
      <2>3. user'[a] = [user[a] EXCEPT !.state = "CONF_LOGIN"]
            BY <1>1, <2>1, <2>2
      <2> QED BY <2>2, <2>3 DEF Is, i
<1>4. ASSUME NEW g \in Gateway, Logout(g)
      PROVE  /\ user[a] # None /\ user'[a] = [user[a] EXCEPT !.state = "CONF_LOGOUT"]
             /\ Is(a, Head(toBill[g]).login, "CONF_LOGIN")
      <2> DEFINE i == Head(toBill[g]).login
      <2>1. \/ user' = user
            \/ Is(accid[i], i, "CONF_LOGIN") /\ user' = [user EXCEPT ![accid[i]].state = "CONF_LOGOUT"]
            BY <1>4 DEF Logout
      <2> HIDE DEF i
      <2>2. Is(accid[i], i, "CONF_LOGIN") /\ accid[i] = a
            BY <1>1, <2>1
      <2>3. user'[a] = [user[a] EXCEPT !.state = "CONF_LOGOUT"]
            BY <1>1, <2>1, <2>2
      <2> QED BY <2>2, <2>3 DEF Is, i
<1>5. ASSUME NEW g \in Gateway, CheckRecycle(g) PROVE FALSE
      BY <1>5 DEF CheckRecycle
<1>6. ASSUME NEW b \in Account, update(b) PROVE FALSE
      BY <1>1, <1>6 DEF update
<1>7. ASSUME NEW j \in Login, \/ Answer(j) \/ verifyACCID(j) \/ Sync(j) \/ Leave(j) \/ RecycleThread(j)
                              \/ \E h \in Gateway : requestLogin(j, h)
      PROVE  user' = user
      BY <1>7 DEF Answer, verifyACCID, Sync, uniqueAdd, waitSync, Leave, RecycleThread, recycleConn, uniqueRemove,
                  requestLogin, billVars
<1>8. ASSUME NEW h \in Gateway, BillClient(h) \/ Loss(h) \/ Reconnect(h)
      PROVE  user' = user
      BY <1>8 DEF BillClient, PutSession, accountVerifyOK, Loss, Reconnect, billVars
<1>9. ASSUME UNCHANGED vars \/ \E b \in Account, h \in Gateway : SessionExpires(h, b)
      PROVE  user' = user
      BY <1>9 DEF vars, SessionExpires, billVars
<1> QED BY <1>2, <1>3, <1>4, <1>5, <1>6, <1>7, <1>8, <1>9 DEF Next, Bill

\* The life of a gateway's connection at the bill server.
LEMMA ConnSteps ==
  ASSUME Types, [Next]_vars, NEW g \in Gateway
  PROVE  \/ billTask'[g] = billTask[g] /\ epoch'[g] = epoch[g]
         \/ Loss(g) /\ billTask[g] = "okay" /\ billTask'[g] = "broken" /\ epoch'[g] = epoch[g]
         \/ CheckRecycle(g) /\ billTask[g] = "broken" /\ billTask'[g] = "swept" /\ epoch'[g] = epoch[g]
         \/ Reconnect(g) /\ billTask[g] = "swept" /\ billTask'[g] = "none" /\ epoch'[g] = epoch[g]
         \/ Reconnect(g) /\ billTask[g] = "none" /\ billTask'[g] = "okay" /\ epoch'[g] = epoch[g] + 1
<1>1. epoch \in [Gateway -> 0 .. MaxLoss] /\ billTask \in [Gateway -> {"okay", "broken", "swept", "none"}]
      BY DEF Types
<1>2. ASSUME NEW h \in Gateway, Loss(h) \/ CheckRecycle(h) \/ Reconnect(h), h # g
      PROVE  billTask'[g] = billTask[g] /\ epoch'[g] = epoch[g]
      <2>1. /\ \E b : billTask' = [billTask EXCEPT ![h] = b]
            /\ epoch' = epoch \/ \E n : epoch' = [epoch EXCEPT ![h] = n]
            BY <1>2 DEF Loss, CheckRecycle, Reconnect
      <2> QED BY <1>1, <1>2, <2>1
<1>3. ASSUME Loss(g) PROVE billTask[g] = "okay" /\ billTask'[g] = "broken" /\ epoch'[g] = epoch[g]
      BY <1>1, <1>3 DEF Loss
<1>4. ASSUME CheckRecycle(g) PROVE billTask[g] = "broken" /\ billTask'[g] = "swept" /\ epoch'[g] = epoch[g]
      BY <1>1, <1>4 DEF CheckRecycle
<1>5. ASSUME Reconnect(g)
      PROVE  \/ billTask[g] = "swept" /\ billTask'[g] = "none" /\ epoch'[g] = epoch[g]
             \/ billTask[g] = "none" /\ billTask'[g] = "okay" /\ epoch'[g] = epoch[g] + 1
      BY <1>1, <1>5 DEF Reconnect
<1>6. ASSUME NEW i \in Login, \/ Answer(i) \/ verifyACCID(i) \/ Sync(i) \/ Leave(i) \/ RecycleThread(i)
                              \/ \E h \in Gateway : requestLogin(i, h)
      PROVE  UNCHANGED <<billTask, epoch>>
      BY <1>6 DEF Answer, verifyACCID, Sync, uniqueAdd, waitSync, Leave, RecycleThread, recycleConn, uniqueRemove,
                  requestLogin, billVars
<1>7. ASSUME NEW h \in Gateway, LoginVerify(h) \/ Logout(h) \/ BillClient(h)
      PROVE  UNCHANGED <<billTask, epoch>>
      BY <1>7 DEF LoginVerify, Logout, BillClient, PutSession, accountVerifyOK, billVars
<1>8. ASSUME \/ NewSession \/ UNCHANGED vars
             \/ \E a \in Account : update(a) \/ \E h \in Gateway : SessionExpires(h, a)
      PROVE  UNCHANGED <<billTask, epoch>>
      BY <1>8 DEF NewSession, vars, update, SessionExpires, billVars
<1> QED BY <1>2, <1>3, <1>4, <1>5, <1>6, <1>7, <1>8 DEF Next, Bill

\* A user that stays becomes stale by no step: checkRecycle takes those of the
\* connection that broke.
LEMMA StaleBack ==
  ASSUME Types, [Next]_vars, NEW a \in Account, user[a] # None, user'[a] # None,
         NEW g \in Gateway, NEW e \in Nat, user[a].gatewaytask = <<g, e>>, e <= epoch[g]
  PROVE  /\ e <= epoch'[g]
         /\ e # epoch'[g] \/ billTask'[g] \in {"swept", "none"} => Stale(user[a])
<1>1. epoch[g] \in Nat /\ user[a].gatewaytask[1] = g /\ user[a].gatewaytask[2] = e
      BY LoginAssumption DEF Types
<1>2. CASE billTask'[g] = billTask[g] /\ epoch'[g] = epoch[g]
      BY <1>1, <1>2 DEF Stale
<1>3. CASE billTask'[g] = "broken" /\ epoch'[g] = epoch[g]
      BY <1>1, <1>3 DEF Stale
<1>4. CASE CheckRecycle(g) /\ epoch'[g] = epoch[g]
      <2>1. user[a].gatewaytask # <<g, epoch[g]>>
            BY <1>4 DEF CheckRecycle
      <2> QED BY <1>1, <1>4, <2>1 DEF Stale
<1>5. CASE billTask[g] = "swept" /\ epoch'[g] = epoch[g]
      BY <1>1, <1>5 DEF Stale
<1>6. CASE billTask[g] = "none" /\ epoch'[g] = epoch[g] + 1
      BY <1>1, <1>6 DEF Stale
<1> QED BY <1>2, <1>3, <1>4, <1>5, <1>6, ConnSteps

\* Whoever asks the bill server has been heard of.
LEMMA AskerHeard ==
  ASSUME LoginInv, NEW g \in Gateway, LoginVerify(g)
  PROVE  LET i == Head(toBill[g]).login
         IN  i \in Login /\ wdGatewayID[i] = g /\ task[i] = "WAITING" /\ ~Unheard(i)
<1>1. Head(toBill[g]).login \in Login /\ BillMsg(g, Head(toBill[g])) /\ Head(toBill[g]).kind = "LoginVerify"
      BY BillIs DEF LoginVerify, LoginInv, Messages
<1> QED BY <1>1 DEF BillMsg, Unheard

\* A user whose connection is gone cannot log in any more.
LEMMA NextUsersHeld ==
  ASSUME LoginInv, AskedOnce, UsersHeld, [Next]_vars
  PROVE  UsersHeld'
<1> USE DEF LoginInv
<1> SUFFICES ASSUME NEW a \in Account, user'[a] # None PROVE UserHeld(a)'
    BY DEF UsersHeld
<1> DEFINE Held(u) == /\ u.gatewaytask[2] <= epoch'[u.gatewaytask[1]]
                      /\ \/ u.gatewaytask[2] # epoch'[u.gatewaytask[1]]
                         \/ billTask'[u.gatewaytask[1]] \in {"swept", "none"}
                         => u.state = "WAIT_LOGIN" /\ (\A i \in {u.tempid} : Unheard(i)')
<1> SUFFICES Held(user'[a])
    BY DEF UserHeld, Stale, Unheard, Sent
<1>1. ASSUME user[a] # None
      PROVE  \E i \in Login, g \in Gateway, e \in Nat :
               /\ user[a].tempid = i /\ user[a].gatewaytask = <<g, e>> /\ e <= epoch'[g]
               /\ e # epoch'[g] \/ billTask'[g] \in {"swept", "none"} =>
                    user[a].state = "WAIT_LOGIN" /\ Unheard(i) /\ Unheard(i)'
      <2>1. PICK i \in Login, g \in Gateway, e \in Nat : user[a].tempid = i /\ user[a].gatewaytask = <<g, e>>
            BY <1>1, UserParts
      <2>2. e <= epoch[g] /\ (Stale(user[a]) => user[a].state = "WAIT_LOGIN" /\ Unheard(i))
            BY <1>1, <2>1 DEF UsersHeld, UserHeld
      <2>3. /\ e <= epoch'[g]
            /\ e # epoch'[g] \/ billTask'[g] \in {"swept", "none"} => Stale(user[a])
            BY <1>1, <2>1, <2>2, StaleBack
      <2>4. accid[i] = a
            BY <1>1, <2>1 DEF Placed, PlacedBill
      <2>5. Unheard(i) => Unheard(i)'
            BY <1>1, <2>4, UnheardStays
      <2> QED BY <2>1, <2>2, <2>3, <2>5
<1>2. CASE user'[a] = user[a]
      <2>1. PICK i \in Login, g \in Gateway, e \in Nat :
               /\ user[a].tempid = i /\ user[a].gatewaytask = <<g, e>> /\ e <= epoch'[g]
               /\ e # epoch'[g] \/ billTask'[g] \in {"swept", "none"} =>
                    user[a].state = "WAIT_LOGIN" /\ Unheard(i) /\ Unheard(i)'
            BY <1>1, <1>2
      <2> QED BY <1>2, <2>1
<1>3. ASSUME NewSession, toBillSuper # <<>>, NEW i, i = Head(toBillSuper), getTaskByID(wdGatewayID[i]),
             user'[a] = [tempid |-> i, state |-> "WAIT_LOGIN", gatewaytask |-> <<wdGatewayID[i], epoch[wdGatewayID[i]]>>]
      PROVE  Held(user'[a])
      <2> DEFINE g == wdGatewayID[i]
      <2>1. 1 \in DOMAIN toBillSuper /\ i = toBillSuper[1] /\ i \in Login
            BY <1>3, TailIs DEF Types
      <2>2. Unheard(i) /\ g \in Gateway
            BY <2>1 DEF AskedOnce, Asked, AskedBill, Types
      <2>3. billTask[g] # "none" /\ billTask' = billTask /\ epoch' = epoch
            BY <1>3 DEF getTaskByID, NewSession
      <2>4. epoch[g] \in Nat
            BY <2>2, LoginAssumption DEF Types
      <2>5. billTask[g] # "okay" => Unheard(i)'
            BY <2>1, <2>2, UnheardStays
      <2>6. /\ user'[a].gatewaytask[1] = g /\ user'[a].gatewaytask[2] = epoch[g]
            /\ user'[a].state = "WAIT_LOGIN" /\ user'[a].tempid = i
            BY <1>3
      <2> HIDE DEF g
      <2> QED BY <2>3, <2>4, <2>5, <2>6
<1>4. ASSUME user[a] # None, NEW g \in Gateway, LoginVerify(g), Is(a, Head(toBill[g]).login, "WAIT_LOGIN"),
             user'[a] = [user[a] EXCEPT !.state = "CONF_LOGIN"]
      PROVE  Held(user'[a])
      <2>1. PICK i \in Login, h \in Gateway, e \in Nat :
               /\ user[a].tempid = i /\ user[a].gatewaytask = <<h, e>> /\ e <= epoch'[h]
               /\ e # epoch'[h] \/ billTask'[h] \in {"swept", "none"} =>
                    user[a].state = "WAIT_LOGIN" /\ Unheard(i) /\ Unheard(i)'
            BY <1>1, <1>4
      <2>2. ~Unheard(i)
            BY <1>4, <2>1, AskerHeard DEF Is
      <2>3. user'[a].gatewaytask = <<h, e>>
            BY <1>4, <2>1, UserParts DEF BillUser
      <2> QED BY <2>1, <2>2, <2>3
<1>5. ASSUME user[a] # None, user[a].state = "CONF_LOGIN", user'[a] = [user[a] EXCEPT !.state = "CONF_LOGOUT"]
      PROVE  Held(user'[a])
      <2>1. PICK i \in Login, h \in Gateway, e \in Nat :
               /\ user[a].tempid = i /\ user[a].gatewaytask = <<h, e>> /\ e <= epoch'[h]
               /\ e # epoch'[h] \/ billTask'[h] \in {"swept", "none"} =>
                    user[a].state = "WAIT_LOGIN" /\ Unheard(i) /\ Unheard(i)'
            BY <1>1, <1>5
      <2>2. user'[a].gatewaytask = <<h, e>>
            BY <1>5, <2>1, UserParts DEF BillUser
      <2> QED BY <1>5, <2>1, <2>2
<1> HIDE DEF Held
<1> QED BY <1>2, <1>3, <1>4, <1>5, UserSteps DEF Is

\* The bill server's admission is answered, or the connection is about to be swept.
LEMMA InUseBegins ==
  ASSUME LoginInv, UsersHeld, [Next]_vars, NEW a \in Account, user[a] # None,
         NEW g \in Gateway, LoginVerify(g), Is(a, Head(toBill[g]).login, "WAIT_LOGIN")
  PROVE  LET i == user[a].tempid
         IN  /\ user[a].gatewaytask[1] = g /\ user[a].gatewaytask[2] = epoch'[g]
             /\ billTask'[g] = "broken" \/ Sent(toGate'[g], Cmd("Return", i, TRUE))
<1> USE DEF LoginInv
<1>1. PICK i \in Login : i = Head(toBill[g]).login /\ user[a].tempid = i /\ wdGatewayID[i] = g /\ ~Unheard(i)
      BY AskerHeard DEF Is
<1>2. accid[i] = a /\ user[a].gatewaytask[1] = g
      BY <1>1 DEF Placed, PlacedBill
<1>3. ~Stale(user[a])
      BY <1>1 DEF UsersHeld, UserHeld
<1>4. billTask' = billTask /\ epoch' = epoch /\ toGate' = ByID(g, Cmd("Return", i, TRUE))
      BY <1>1, <1>2 DEF LoginVerify
<1>5. user[a].gatewaytask[2] = epoch'[g] /\ billTask[g] \in {"okay", "broken"}
      BY <1>2, <1>3, <1>4 DEF Stale, Types
<1>6. ASSUME billTask[g] = "okay" PROVE Sent(toGate'[g], Cmd("Return", i, TRUE))
      <2>1. toGate[g] \in Seq(Commands) /\ Cmd("Return", i, TRUE) \in Commands
            <3>1. toGate[g] \in Seq(Commands)
                  BY DEF Types
            <3>2. Cmd("Return", i, TRUE) \in Commands
                  BY ONLY i \in Login, CmdType
            <3> QED BY <3>1, <3>2
      <2>2. toGate'[g] = Append(toGate[g], Cmd("Return", i, TRUE))
            BY <1>4, <1>6 DEF ByID, Types
      <2>3. Sent(Append(toGate[g], Cmd("Return", i, TRUE)), Cmd("Return", i, TRUE))
            BY <2>1, SentIs
      <2> QED BY <2>2, <2>3
<1> QED BY <1>1, <1>2, <1>4, <1>5, <1>6

\* A task that plays or leaves goes on to its logout.
LEMMA TaskHolds ==
  ASSUME LoginInv, [Next]_vars, NEW i \in Login, task[i] \in {"SUCCESS", "okay", "recycle"}
  PROVE  \/ task'[i] \in {"SUCCESS", "okay", "recycle"}
         \/ Send(wdGatewayID[i], Cmd("Logout", i, FALSE))
<1> USE DEF LoginInv
<1>1. task \in [Login -> TaskState]
      BY DEF Types
<1>2. ASSUME NEW j \in Login, verifyACCID(j) \/ uniqueAdd(j) \/ uniqueRemove(j)
      PROVE  task'[i] = task[i]
      <2>1. task[j] \notin {"SUCCESS", "okay", "recycle"} /\ \E st : task' = [task EXCEPT ![j] = st]
            BY <1>2 DEF verifyACCID, uniqueAdd, uniqueRemove, SetTask
      <2> QED BY <1>1, <2>1
<1>3. ASSUME NEW j \in Login, waitSync(j) \/ Leave(j)
      PROVE  task'[i] \in {"SUCCESS", "okay", "recycle"}
      <2>1. \E st : task' = [task EXCEPT ![j] = st] /\ (task[j] # "NONE" => st \in {"okay", "recycle"})
            BY <1>3 DEF waitSync, Leave, SetTask
      <2> QED BY <1>1, <2>1
<1>4. ASSUME NEW j \in Login, recycleConn(j)
      PROVE  task'[i] = task[i] \/ Send(wdGatewayID[i], Cmd("Logout", i, FALSE))
      <2>1. task' = [task EXCEPT ![j] = "leaving"] /\ Send(wdGatewayID[j], Cmd("Logout", j, FALSE))
            BY <1>4 DEF recycleConn, SetTask
      <2> QED BY <1>1, <2>1
<1>5. ASSUME NEW g \in Gateway, accountVerifyOK(g) PROVE task'[i] = task[i]
      <2>1. \E j \in Login : \E st : task[j] = "WAITING" /\ task' = [task EXCEPT ![j] = st]
            BY <1>5, ReturnIs
      <2> QED BY <1>1, <2>1
<1>6. ASSUME NEW g \in Gateway, Bill(g) \/ PutSession(g) \/ Loss(g) \/ Reconnect(g) PROVE task' = task
      BY <1>6 DEF Bill, LoginVerify, Logout, CheckRecycle, PutSession, Loss, Reconnect, gateVars
<1>7. ASSUME NEW j \in Login, Answer(j) \/ \E g \in Gateway : requestLogin(j, g) PROVE task' = task
      BY <1>7 DEF Answer, requestLogin, gateVars
<1>8. ASSUME \/ NewSession \/ UNCHANGED vars
             \/ \E a \in Account : update(a) \/ \E g \in Gateway : SessionExpires(g, a)
      PROVE  task' = task
      BY <1>8 DEF NewSession, vars, update, SessionExpires, gateVars
<1> QED BY <1>2, <1>3, <1>4, <1>5, <1>6, <1>7, <1>8 DEF Next, BillClient, Sync, RecycleThread

\* As long as the gateway keeps the bill server, an account in use is passed on
\* from the answer to the task and from the task to the logout.
LEMMA InUsePassed ==
  ASSUME LoginInv, [Next]_vars, NEW i \in Login, NEW g \in Gateway, wdGatewayID[i] = g,
         billTask[g] = "okay", ~Loss(g), Is(accid[i], i, "CONF_LOGIN"), Is(accid[i], i, "CONF_LOGIN")',
         \/ task[i] \in {"SUCCESS", "okay", "recycle"}
         \/ Sent(toGate[g], Cmd("Return", i, TRUE))
         \/ Sent(toBill[g], Cmd("Logout", i, FALSE))
  PROVE  \/ task'[i] \in {"SUCCESS", "okay", "recycle"}
         \/ Sent(toGate'[g], Cmd("Return", i, TRUE))
         \/ Sent(toBill'[g], Cmd("Logout", i, FALSE))
<1> USE DEF LoginInv
<1> DEFINE yes == Cmd("Return", i, TRUE)
           out == Cmd("Logout", i, FALSE)
<1>1. /\ yes \in Commands /\ yes.kind = "Return" /\ yes.login = i /\ yes.retcode
      /\ out \in Commands /\ out.kind = "Logout" /\ out.login = i
      <2>1. yes \in Commands /\ yes.kind = "Return" /\ yes.login = i /\ yes.retcode
            BY ONLY i \in Login, CmdType
      <2>2. out \in Commands /\ out.kind = "Logout" /\ out.login = i
            BY ONLY i \in Login, CmdType
      <2> QED BY <2>1, <2>2
<1>2. toGate[g] \in Seq(Commands) /\ toBill[g] \in Seq(Commands)
      BY DEF Types
<1>3. ~CheckRecycle(g)
      BY DEF CheckRecycle
<1> HIDE DEF yes, out
<1>4. CASE task[i] \in {"SUCCESS", "okay", "recycle"}
      <2> SUFFICES ASSUME Send(g, out) PROVE Sent(toBill'[g], out)
          BY <1>4, TaskHolds DEF out
      <2>1. toBill'[g] = Append(toBill[g], out)
            BY DEF Send, Types
      <2>2. Sent(Append(toBill[g], out), out)
            BY <1>1, <1>2, SentIs
      <2> QED BY <2>1, <2>2
<1>5. CASE Sent(toGate[g], yes)
      <2> SUFFICES ASSUME ~Sent(toGate'[g], yes) PROVE task'[i] = "SUCCESS"
          BY DEF yes
      <2>1. yes = Head(toGate[g]) /\ (PutSession(g) \/ accountVerifyOK(g))
            BY <1>1, <1>5, SentStays
      <2>2. accountVerifyOK(g)
            BY <1>1, <2>1 DEF PutSession, From
      <2>3. task' = [task EXCEPT ![i] = "SUCCESS"]
            BY <1>1, <2>1, <2>2, ReturnIs
      <2> QED BY <2>3 DEF Types
<1>6. CASE Sent(toBill[g], out)
      <2> SUFFICES ASSUME ~Sent(toBill'[g], out) PROVE FALSE
          BY DEF out
      <2>1. out = Head(toBill[g]) /\ (LoginVerify(g) \/ Logout(g))
            BY <1>1, <1>3, <1>6, SentStays
      <2>2. Logout(g) /\ Head(toBill[g]).login = i
            BY <1>1, <2>1 DEF LoginVerify, Receive
      <2>3. user' = [user EXCEPT ![accid[i]].state = "CONF_LOGOUT"]
            BY <2>2 DEF Logout
      <2>4. user[accid[i]] \in BillUser /\ accid[i] \in Account
            BY LoginAssumption DEF Types, Is
      <2>5. user'[accid[i]].state = "CONF_LOGOUT"
            BY <2>3, <2>4 DEF Types, BillUser
      <2> QED BY <2>5 DEF Is
<1> QED BY <1>4, <1>5, <1>6 DEF yes, out

\* An account in use stays held.
LEMMA NextInUse ==
  ASSUME LoginInv, UsersHeld, InUseIsHeld, [Next]_vars
  PROVE  InUseIsHeld'
<1> USE DEF LoginInv
<1> SUFFICES ASSUME NEW a \in Account, user'[a] # None, user'[a].state = "CONF_LOGIN",
                    NEW i, i = user'[a].tempid, NEW g, g = user'[a].gatewaytask[1]
             PROVE  \/ billTask'[g] = "broken" /\ user'[a].gatewaytask[2] = epoch'[g]
                    \/ task'[i] \in {"SUCCESS", "okay", "recycle"}
                    \/ Sent(toGate'[g], Cmd("Return", i, TRUE))
                    \/ Sent(toBill'[g], Cmd("Logout", i, FALSE))
    BY DEF InUseIsHeld, Sent, Cmd
<1>1. CASE user'[a] = user[a]
      <2>1. /\ i \in Login /\ g \in Gateway /\ user[a].gatewaytask[2] \in Nat
            /\ user[a].gatewaytask = <<g, user[a].gatewaytask[2]>>
            BY <1>1, UserParts
      <2>2. accid[i] = a /\ wdGatewayID[i] = g
            BY <1>1 DEF Placed, PlacedBill
      <2>3. /\ user[a].gatewaytask[2] = epoch[g] /\ billTask[g] \in {"okay", "broken"}
            <3>1. ~Stale(user[a])
                  BY <1>1 DEF UsersHeld, UserHeld
            <3> QED BY <1>1, <2>1, <3>1 DEF Stale, Types
      <2>4. Is(accid[i], i, "CONF_LOGIN") /\ Is(accid[i], i, "CONF_LOGIN")'
            BY <1>1, <2>2 DEF Is
      <2>5. CASE billTask[g] = "broken"
            <3>1. ~CheckRecycle(g)
                  BY <1>1, <2>1, <2>3 DEF CheckRecycle
            <3>2. billTask'[g] = "broken" /\ epoch'[g] = epoch[g]
                  BY <2>1, <2>5, <3>1, ConnSteps
            <3> QED BY <1>1, <2>3, <3>2
      <2>6. CASE Loss(g)
            <3>1. billTask'[g] = "broken" /\ epoch'[g] = epoch[g]
                  BY <2>1, <2>6 DEF Loss, Types
            <3> QED BY <1>1, <2>3, <3>1
      <2>7. CASE billTask[g] = "okay" /\ ~Loss(g)
            <3>1. \/ task[i] \in {"SUCCESS", "okay", "recycle"}
                  \/ Sent(toGate[g], Cmd("Return", i, TRUE))
                  \/ Sent(toBill[g], Cmd("Logout", i, FALSE))
                  BY <1>1, <2>7 DEF InUseIsHeld
            <3> QED BY <2>1, <2>2, <2>4, <2>7, <3>1, InUsePassed
      <2> QED BY <2>3, <2>5, <2>6, <2>7
<1>2. ASSUME user[a] # None, user'[a] = [user[a] EXCEPT !.state = "CONF_LOGIN"],
             NEW h \in Gateway, LoginVerify(h), Is(a, Head(toBill[h]).login, "WAIT_LOGIN")
      PROVE  \/ billTask'[g] = "broken" /\ user'[a].gatewaytask[2] = epoch'[g]
             \/ Sent(toGate'[g], Cmd("Return", i, TRUE))
      <2>1. user'[a].tempid = user[a].tempid /\ user'[a].gatewaytask = user[a].gatewaytask
            BY <1>2, UserParts DEF BillUser
      <2>2. /\ user[a].gatewaytask[1] = h /\ user[a].gatewaytask[2] = epoch'[h]
            /\ billTask'[h] = "broken" \/ Sent(toGate'[h], Cmd("Return", user[a].tempid, TRUE))
            BY <1>2, InUseBegins
      <2> QED BY <2>1, <2>2
<1>3. ASSUME user[a] # None, user'[a] = [user[a] EXCEPT !.state = "CONF_LOGOUT"] PROVE FALSE
      <2>1. user'[a].state = "CONF_LOGOUT"
            BY <1>3, UserParts DEF BillUser
      <2> QED BY <2>1
<1>4. ASSUME NEW j, NEW h, user'[a] = [tempid |-> j, state |-> "WAIT_LOGIN", gatewaytask |-> h] PROVE FALSE
      BY <1>4
<1>5. CASE user'[a] # user[a]
      <2>1. \/ \E j, h : user'[a] = [tempid |-> j, state |-> "WAIT_LOGIN", gatewaytask |-> h]
            \/ /\ user[a] # None /\ user'[a] = [user[a] EXCEPT !.state = "CONF_LOGIN"]
               /\ \E h \in Gateway : LoginVerify(h) /\ Is(a, Head(toBill[h]).login, "WAIT_LOGIN")
            \/ user[a] # None /\ user'[a] = [user[a] EXCEPT !.state = "CONF_LOGOUT"]
            BY <1>5, UserSteps
      <2> QED BY <1>2, <1>3, <1>4, <2>1
<1> QED BY <1>1, <1>5

\* Whoever is logged in at the bill server is held by somebody who will give the
\* account back: a connection about to be swept, a task, an answer or a logout.
LEMMA LoginInUseHeld == Spec => []InUseIsHeld
<1>1. Init => AskedOnce /\ UsersHeld /\ InUseIsHeld
      <2> SUFFICES ASSUME Init PROVE AskedOnce /\ UsersHeld /\ InUseIsHeld
          OBVIOUS
      <2>1. toBillSuper = <<>> /\ DOMAIN <<>> = {} /\ \A a \in Account : user[a] = None
            BY DEF Init
      <2> QED BY <2>1 DEF AskedOnce, UsersHeld, InUseIsHeld
<1>2. HeldInv /\ [Next]_vars => AskedOnce' /\ UsersHeld' /\ InUseIsHeld'
      BY NextAskedOnce, NextUsersHeld, NextInUse DEF HeldInv
<1> QED BY <1>1, <1>2, LoginInvariant, PTL DEF Spec, HeldInv

\* A task that waits for the bill server has its question or the answer on the way, and
\* a user that is logged in has somebody who will give the account back.
THEOREM LoginNoEndForgotten == Spec => []NoEndForgotten
<1>1. WaitIsAnswered /\ InUseIsHeld => NoEndForgotten
      BY DEF NoEndForgotten
<1> QED BY <1>1, LoginWaitAnswered, LoginInUseHeld, PTL
=============================================================================
