------------------------- MODULE RecordOwnerProofs -------------------------
(***************************************************************************)
(* One scene server holds a player and no write is lost, for any number of *)
(* scene servers, registrations, versions, lost connections and refused    *)
(* updates, and whatever the gateways and the session server ask for.      *)
(***************************************************************************)
EXTENDS RecordOwner, TLAPS

(***************************************************************************)
(* The inductive invariant.                                                *)
(***************************************************************************)
\* Beyond TypeOK: a read that succeeded carries a version.
Users == {u \in [st : {"none", "out", "in"}, ver : 0 .. MaxVer + 1, base : 0 .. MaxVer + 1,
                  req : 0 .. MaxReg, flaw : BOOLEAN] : u.st = "in" => u.ver \in Ver /\ u.base \in Ver}
Answers == {m \in [req : 1 .. MaxReg, ok : BOOLEAN, ver : 0 .. MaxVer + 1, latest : Ver, flaw : BOOLEAN] :
              m.ok => m.ver \in Ver}
Reads == [op : {"read"}, req : 1 .. MaxReg]

Types ==
  /\ user \in [Scene -> Users]
  /\ toRec \in [Scene -> Seq(Requests)]
  /\ toScene \in [Scene -> Seq(Answers)]
  /\ hand \in [Scene -> {Idle} \cup Writes \cup Reads]
  /\ session \in Scene \cup {None} /\ row \in Ver /\ newest \in Ver
  /\ up \in [Scene -> BOOLEAN] /\ old \in [Scene -> BOOLEAN] /\ doubt \in BOOLEAN
  /\ reg \in 0 .. MaxReg /\ ver \in Ver /\ down \in 0 .. MaxDown /\ fails \in 0 .. MaxFail

\* Each read has a number of its own, handed out in turn.
Numbers(s) ==
  /\ user[s].req \in 0 .. reg
  /\ \A i \in DOMAIN toRec[s] : toRec[s][i].op = "read" => toRec[s][i].req \in 0 .. reg
  /\ hand[s].op = "read" => hand[s].req \in 0 .. reg
  /\ \A i \in DOMAIN toScene[s] : toScene[s][i].req \in 0 .. reg

\* A user who waits has sent nothing after its read, and what it waits for is
\* in one place only.
Waits(s) == user[s].st = "out" =>
  /\ \A i \in DOMAIN toRec[s] :
       toRec[s][i].op = "read" /\ toRec[s][i].req = user[s].req => i = Len(toRec[s])
  /\ hand[s].op = "read" /\ hand[s].req = user[s].req => toRec[s] = <<>>
  /\ \A i \in DOMAIN toScene[s] :
       toScene[s][i].req = user[s].req => toRec[s] = <<>> /\ hand[s] = Idle

\* Nothing has happened that puts in doubt what the user has.
Good(s) == up[s] /\ ~user[s].flaw

\* From when its read was let in until its answer is there the server holds
\* the account,
Expects(s) == Good(s) /\ user[s].st = "out" =>
  /\ hand[s].op = "read" /\ hand[s].req = user[s].req => session = s
  /\ \A i \in DOMAIN toScene[s] :
       toScene[s][i].ok /\ toScene[s][i].req = user[s].req =>
         session = s /\ (~toScene[s][i].flaw => toScene[s][i].ver = newest)

Fresh(m) == m.op \in {"keep", "leave"} /\ ~m.flaw

\* and then as long as the player is in a scene of it.
Holds(s) == Good(s) /\ user[s].st = "in" =>
  /\ session = s /\ hand[s].op # "read"
  /\ \A i \in DOMAIN toRec[s] : Fresh(toRec[s][i]) /\ toRec[s][i].op = "keep"
  /\ user[s].base = IF toRec[s] = <<>> THEN newest ELSE toRec[s][Len(toRec[s])].ver

\* The good writes on their way to the record server come first, and each
\* goes on from the one before it, the first from the newest that was taken.
Chain(s) ==
  /\ \A i, j \in DOMAIN toRec[s] :
       i < j /\ Fresh(toRec[s][j]) => Fresh(toRec[s][i]) /\ toRec[s][i].op = "keep"
  /\ \A i \in DOMAIN toRec[s] :
       i > 1 /\ Fresh(toRec[s][i]) => toRec[s][i].base = toRec[s][i - 1].ver
  /\ session = s /\ toRec[s] # <<>> /\ Fresh(toRec[s][1]) => toRec[s][1].base = newest

Owner(s) == Numbers(s) /\ Waits(s) /\ Expects(s) /\ Holds(s) /\ Chain(s)

\* What is known of the row when no write is in doubt.
Row ==
  ~doubt =>
    /\ \A s \in Scene : Saving(s) => hand[s].ver = newest /\ \A t \in Scene : Saving(t) => t = s
    /\ (\A s \in Scene : ~Saving(s)) => row = newest

RecordInv == Types /\ (\A s \in Scene : Owner(s)) /\ Row

-----------------------------------------------------------------------------
(* Sequences.                                                              *)
LEMMA AppendIs ==
  ASSUME NEW S, NEW q \in Seq(S), NEW e \in S
  PROVE  /\ Append(q, e) \in Seq(S) /\ Append(q, e) # <<>>
         /\ Len(q) \in Nat /\ Len(Append(q, e)) = Len(q) + 1 /\ Append(q, e)[Len(q) + 1] = e
         /\ DOMAIN q = 1 .. Len(q) /\ DOMAIN Append(q, e) = 1 .. Len(q) + 1
         /\ \A i \in 1 .. Len(q) : Append(q, e)[i] = q[i]
         /\ \A i \in 1 .. Len(q) + 1 : i \in 1 .. Len(q) \/ i = Len(q) + 1
OBVIOUS

\* What was appended is one of the entries.
LEMMA LastIn ==
  ASSUME NEW S, NEW q \in Seq(S), NEW e, Append(q, e) \in Seq(S) PROVE e \in S
<1>1. Len(q) \in Nat /\ Len(Append(q, e)) = Len(q) + 1 /\ Append(q, e)[Len(q) + 1] = e
      OBVIOUS
<1>2. Len(q) + 1 \in 1 .. Len(Append(q, e))
      BY <1>1
<1> QED BY <1>1, <1>2

\* A sequence without its first entry.
LEMMA TailIs ==
  ASSUME NEW S, NEW q \in Seq(S), q # <<>>
  PROVE  /\ Tail(q) \in Seq(S) /\ Head(q) = q[1]
         /\ Len(q) \in Nat \ {0} /\ Len(Tail(q)) = Len(q) - 1
         /\ DOMAIN q = 1 .. Len(q) /\ DOMAIN Tail(q) = 1 .. Len(q) - 1
         /\ \A i \in 1 .. Len(q) - 1 : Tail(q)[i] = q[i + 1] /\ i + 1 \in 1 .. Len(q)
         /\ Tail(q) = <<>> <=> Len(q) = 1
<1>1. /\ Tail(q) \in Seq(S) /\ Head(q) = q[1]
      /\ Len(q) \in Nat \ {0} /\ Len(Tail(q)) = Len(q) - 1
      OBVIOUS
<1>2. DOMAIN q = 1 .. Len(q) /\ DOMAIN Tail(q) = 1 .. Len(q) - 1
      BY <1>1
<1>3. \A i \in 1 .. Len(q) - 1 : Tail(q)[i] = q[i + 1] /\ i + 1 \in 1 .. Len(q)
      BY <1>1
<1>4. Tail(q) = <<>> <=> Len(q) = 1
      <2>1. \A r \in Seq(S) : r = <<>> <=> Len(r) = 0
            OBVIOUS
      <2>2. Tail(q) = <<>> <=> Len(Tail(q)) = 0
            BY <1>1, <2>1
      <2> QED BY <1>1, <2>2
<1> QED BY <1>1, <1>2, <1>3, <1>4

\* A sequence over a set is one over a larger set.
LEMMA WiderSeq == ASSUME NEW S, NEW T, S \subseteq T, NEW q \in Seq(S) PROVE q \in Seq(T)
<1>1. q = [i \in 1 .. Len(q) |-> q[i]] /\ Len(q) \in Nat /\ \A i \in 1 .. Len(q) : q[i] \in T
      OBVIOUS
<1> QED BY <1>1

-----------------------------------------------------------------------------
(* The types.                                                              *)
LEMMA TypesType == Types => TypeOK
<1> SUFFICES ASSUME Types PROVE TypeOK
    OBVIOUS
<1>1. /\ user \in [Scene -> [st : {"none", "out", "in"}, ver : 0 .. MaxVer + 1, base : 0 .. MaxVer + 1,
                             req : 0 .. MaxReg, flaw : BOOLEAN]]
      /\ \A s \in Scene : user[s].st = "in" => {user[s].ver, user[s].base} \subseteq Ver
      BY DEF Types, Users
<1>2. \A s \in Scene : toRec[s] \in Seq(Requests)
      BY DEF Types
<1>3. \A s \in Scene : toScene[s] \in Seq([req : 1 .. MaxReg, ok : BOOLEAN, ver : 0 .. MaxVer + 1, latest : Ver, flaw : BOOLEAN])
      <2> DEFINE A == [req : 1 .. MaxReg, ok : BOOLEAN, ver : 0 .. MaxVer + 1, latest : Ver, flaw : BOOLEAN]
      <2>1. Answers \subseteq A
            BY DEF Answers
      <2>2. \A s \in Scene : toScene[s] \in Seq(Answers)
            BY DEF Types
      <2> HIDE DEF A
      <2>3. \A s \in Scene : toScene[s] \in Seq(A)
            BY <2>1, <2>2, WiderSeq
      <2> QED BY <2>3 DEF A
<1>4. reg <= MaxReg /\ ver <= MaxVer + 1 /\ down <= MaxDown /\ fails <= MaxFail
      BY RecordAssumption DEF Types, Ver
<1> QED BY <1>1, <1>2, <1>3, <1>4 DEF Types, TypeOK, Reads

\* What is sent.
LEMMA WriteType ==
  ASSUME Types, NEW s \in Scene, user[s].st = "in", NEW k \in {"keep", "leave"} PROVE Write(k, s) \in Writes
BY DEF Types, Users, Write, Writes

\* A scene server sends a request.
LEMMA SendType ==
  ASSUME Types, NEW s \in Scene, NEW m \in Requests, Send(s, m)
  PROVE  toRec' \in [Scene -> Seq(Requests)]
BY DEF Types, Send

\* The record server starts without sessions.
LEMMA InitTypes == Init => Types
<1> SUFFICES ASSUME Init PROVE Types
    OBVIOUS
<1>1. NoUser \in Users
      BY RecordAssumption DEF NoUser, Users
<1>2. {0, 1} \subseteq Nat /\ 1 \in Ver /\ 0 \in 0 .. MaxReg /\ 0 \in 0 .. MaxDown /\ 0 \in 0 .. MaxFail
      BY RecordAssumption DEF Ver
<1>3. /\ user \in [Scene -> Users] /\ hand \in [Scene -> {Idle}]
      /\ toRec \in [Scene -> Seq(Requests)] /\ toScene \in [Scene -> Seq(Answers)]
      BY <1>1 DEF Init
<1>4. hand \in [Scene -> {Idle} \cup Writes \cup Reads]
      BY <1>3
<1> QED BY <1>2, <1>3, <1>4 DEF Init, Types

\* A player goes from a scene server: he is saved, or his read is given up.
LEMMA DropTypes ==
  ASSUME Types, NEW s \in Scene, Drop(s)
  PROVE  user' \in [Scene -> Users] /\ toRec' \in [Scene -> Seq(Requests)]
<1>1. NoUser \in Users
      BY RecordAssumption DEF NoUser, Users
<1>2. user' \in [Scene -> Users]
      BY <1>1 DEF Types, Drop
<1>3. user[s].st = "in" => Write("leave", s) \in Requests
      BY WriteType DEF Requests
<1>4. GiveUp \in Requests
      BY DEF Requests
<1> QED BY <1>2, <1>3, <1>4, SendType DEF Drop, Types

\* Steps of a scene server keep the types,
LEMMA SceneTypes ==
  ASSUME Types, NEW s \in Scene, Reg(s) \/ Unreg(s) \/ UserInfo(s) \/ Save(s) \/ Play(s) PROVE Types'
<1>1. CASE Unreg(s)
      BY <1>1, DropTypes DEF Unreg, Types, connVars, countVars
<1>2. CASE Reg(s)
      <2>1. reg' \in 1 .. MaxReg
            BY <1>2, RecordAssumption DEF Reg, Types
      <2>2. CASE Drop(s)
            BY <1>2, <2>1, <2>2, DropTypes DEF Reg, Types, connVars
      <2>3. CASE ~Drop(s)
            <3>1. [NoUser EXCEPT !.st = "out", !.req = reg'] \in Users
                  <4>1. NoUser \in Users
                        BY RecordAssumption DEF NoUser, Users
                  <4>2. \A u \in Users : [u EXCEPT !.st = "out"] \in Users
                        BY RecordAssumption DEF Users
                  <4>3. \A u \in Users : \A n \in 1 .. MaxReg : [u EXCEPT !.req = n] \in Users
                        BY RecordAssumption DEF Users
                  <4>4. \A u \in Users : \A n \in 1 .. MaxReg : [[u EXCEPT !.st = "out"] EXCEPT !.req = n] \in Users
                        BY <4>2, <4>3
                  <4>5. [[NoUser EXCEPT !.st = "out"] EXCEPT !.req = reg'] \in Users
                        BY <2>1, <4>1, <4>4
                  <4> QED BY <4>5
            <3>2. user' \in [Scene -> Users]
                  BY <1>2, <2>3, <3>1 DEF Reg, Types
            <3>3. Read(reg') \in Requests
                  BY <2>1 DEF Read, Requests
            <3>4. toRec' \in [Scene -> Seq(Requests)]
                  BY <1>2, <2>3, <3>3, SendType DEF Reg
            <3> QED BY <1>2, <2>1, <3>2, <3>4 DEF Reg, Types, connVars
      <2> QED BY <2>2, <2>3
<1>3. CASE UserInfo(s)
      <2>1. toScene' \in [Scene -> Seq(Answers)]
            BY <1>3 DEF UserInfo, Types
      <2> DEFINE m == Head(toScene[s])
      <2>2. m \in Answers
            BY <1>3 DEF UserInfo, Types
      <2>3. user' \in [Scene -> Users]
            <3>1. CASE UNCHANGED user
                  BY <3>1 DEF Types
            <3>2. CASE user' # user
                  <4>1. /\ m.ok
                        /\ user' = [user EXCEPT ![s].st = "in", ![s].ver = m.ver, ![s].base = m.ver,
                                               ![s].flaw = @ \/ m.flaw \/ m.req # user[s].req]
                        BY <1>3, <3>2 DEF UserInfo, CanLoad
                  <4>2. m.ver \in Ver /\ m.ver \in 0 .. MaxVer + 1
                        BY <2>2, <4>1 DEF Answers
                  <4> HIDE DEF m
                  <4> DEFINE f == user[s].flaw \/ m.flaw \/ m.req # user[s].req
                             u == [user[s] EXCEPT !.st = "in", !.ver = m.ver, !.base = m.ver, !.flaw = f]
                  <4>3. user[s] \in Users /\ f \in BOOLEAN
                        BY DEF Types
                  <4>4. user' = [user EXCEPT ![s] = u]
                        BY <4>1 DEF Types
                  <4> HIDE DEF f
                  <4>5. u \in Users
                        BY <4>2, <4>3 DEF Users
                  <4> QED BY <4>4, <4>5 DEF Types
            <3> QED BY <3>1, <3>2
      <2> QED BY <1>3, <2>1, <2>3 DEF UserInfo, Types, connVars, countVars
<1>4. CASE Save(s)
      <2>1. user[s] \in Users /\ [user[s] EXCEPT !.base = user[s].ver] \in Users
            <3>1. user[s] \in Users /\ user[s].st = "in"
                  BY <1>4 DEF Save, Types
            <3> QED BY <3>1 DEF Users
      <2>2. user' \in [Scene -> Users]
            BY <1>4, <2>1 DEF Save, Types
      <2>3. toRec' \in [Scene -> Seq(Requests)]
            BY <1>4, WriteType, SendType DEF Save, Requests
      <2> QED BY <1>4, <2>2, <2>3 DEF Save, Types, connVars, countVars
<1>5. CASE Play(s)
      <2>1. ver' \in Ver /\ ver' \in 0 .. MaxVer + 1
            BY <1>5, RecordAssumption DEF Play, Types, Ver
      <2>2. [user[s] EXCEPT !.ver = ver'] \in Users
            <3>1. user[s] \in Users
                  BY DEF Types
            <3>2. \A v \in Ver : v \in 0 .. MaxVer + 1 => [user[s] EXCEPT !.ver = v] \in Users
                  BY <3>1 DEF Users
            <3> QED BY <2>1, <3>2
      <2>3. user' \in [Scene -> Users]
            BY <1>5, <2>2 DEF Play, Types
      <2> QED BY <1>5, <2>1, <2>3 DEF Play, Types, connVars
<1> QED BY <1>1, <1>2, <1>3, <1>4, <1>5

\* so do the record server's handlers and the connections.
LEMMA ServerTypes ==
  ASSUME Types, NEW s \in Scene,
         Parse(s) \/ readCharBase(s) \/ saveCharBase(s) \/ recycleConn(s) \/ Disconnect(s) \/ Restart(s)
  PROVE  Types'
<1>1. CASE Parse(s)
      <2> DEFINE m == Head(toRec[s])
      <2>1. m \in Requests /\ toRec' \in [Scene -> Seq(Requests)]
            BY <1>1 DEF Parse, Types
      <2>2. m.op = "read" => m \in Reads
            BY <2>1 DEF Requests, Writes, GiveUp, Reads
      <2>3. m.op \in {"keep", "leave"} => m \in Writes /\ m.ver \in Ver
            BY <2>1 DEF Requests, Writes, GiveUp
      <2>4. m.op = "read" =>
              [req |-> m.req, ok |-> FALSE, ver |-> 0, latest |-> newest, flaw |-> FALSE] \in Answers
            BY <2>2, RecordAssumption DEF Reads, Answers, Types
      <2>5. CASE m.op = "read"
            <3> DEFINE a == [req |-> m.req, ok |-> FALSE, ver |-> 0, latest |-> newest, flaw |-> FALSE]
            <3>1. a \in Answers
                  BY <2>4, <2>5
            <3>2. /\ \/ session' = s /\ hand' = [hand EXCEPT ![s] = m] /\ toScene' = toScene
                     \/ session' = session /\ hand' = hand /\ toScene' = [toScene EXCEPT ![s] = Append(@, a)]
                  /\ UNCHANGED <<newest, doubt, user, row, connVars, countVars>>
                  BY <1>1, <2>5 DEF Parse
            <3> HIDE DEF a, m
            <3>3. toScene' \in [Scene -> Seq(Answers)]
                  <4>1. toScene \in [Scene -> Seq(Answers)] /\ Append(toScene[s], a) \in Seq(Answers)
                        BY <3>1 DEF Types
                  <4> QED BY <3>2, <4>1
            <3>4. hand' \in [Scene -> {Idle} \cup Writes \cup Reads] /\ session' \in Scene \cup {None}
                  BY <2>2, <2>5, <3>2 DEF Types
            <3> QED BY <2>1, <3>2, <3>3, <3>4 DEF Types, connVars, countVars
      <2>6. CASE m.op = "remove"
            BY <1>1, <2>1, <2>6 DEF Parse, Types, connVars, countVars
      <2>7. CASE m.op \in {"keep", "leave"}
            BY <1>1, <2>1, <2>3, <2>7 DEF Parse, Types, connVars, countVars
      <2> QED BY <1>1, <2>5, <2>6, <2>7 DEF Parse
<1>2. CASE readCharBase(s)
      <2>1. hand[s] \in Reads
            <3>1. hand[s].op = "read" /\ hand[s] \in {Idle} \cup Writes \cup Reads
                  BY <1>2 DEF readCharBase, Types
            <3>2. Idle.op = "idle" /\ \A w \in Writes : w.op \in {"keep", "leave"}
                  BY DEF Idle, Writes
            <3> QED BY <3>1, <3>2
      <2>2. PICK ok \in BOOLEAN :
              /\ toScene' = IF ~up[s] THEN toScene ELSE [toScene EXCEPT ![s] = Append(@,
                    [req |-> hand[s].req, ok |-> ok, ver |-> IF ok THEN row ELSE 0, latest |-> newest,
                     flaw |-> doubt \/ \E t \in Scene : Saving(t)])]
              /\ session' = IF ~ok /\ verify(s) THEN None ELSE session
              /\ ok \/ fails < MaxFail
              /\ fails' = IF ok THEN fails ELSE fails + 1
            BY <1>2 DEF readCharBase
      <2> DEFINE d == doubt \/ \E t \in Scene : Saving(t)
                 m == [req |-> hand[s].req, ok |-> ok, ver |-> IF ok THEN row ELSE 0, latest |-> newest, flaw |-> d]
      <2>3. d \in BOOLEAN
            BY DEF Types
      <2>4. toScene' = IF ~up[s] THEN toScene ELSE [toScene EXCEPT ![s] = Append(@, m)]
            BY <2>2
      <2> HIDE DEF d
      <2>5. m \in Answers
            BY <2>1, <2>3, RecordAssumption DEF Types, Answers, Reads, Ver
      <2> HIDE DEF m
      <2>6. toScene' \in [Scene -> Seq(Answers)]
            BY <2>4, <2>5 DEF Types
      <2>7. fails' \in 0 .. MaxFail /\ session' \in Scene \cup {None}
            BY <2>2, RecordAssumption DEF Types
      <2> QED BY <1>2, <2>6, <2>7 DEF readCharBase, Types, connVars
<1>3. CASE saveCharBase(s)
      <2>1. hand[s].ver \in Ver
            BY <1>3 DEF saveCharBase, Saving, Types, Idle, Writes, Reads
      <2>2. row' \in Ver /\ doubt' \in BOOLEAN /\ fails' \in 0 .. MaxFail
            <3>1. row' = hand[s].ver \/ row' = row
                  BY <1>3 DEF saveCharBase
            <3>2. doubt' = TRUE \/ doubt' = doubt
                  BY <1>3 DEF saveCharBase
            <3>3. fails' = fails \/ (fails < MaxFail /\ fails' = fails + 1)
                  BY <1>3 DEF saveCharBase
            <3>4. fails' \in 0 .. MaxFail
                  BY <3>3, RecordAssumption DEF Types
            <3> QED BY <2>1, <3>1, <3>2, <3>4 DEF Types
      <2> QED BY <1>3, <2>2 DEF saveCharBase, Types, connVars
<1>4. CASE recycleConn(s)
      <2>1. [user[s] EXCEPT !.flaw = TRUE] \in Users
            <3>1. user[s] \in Users
                  BY DEF Types
            <3> QED BY <3>1 DEF Users
      <2>2. user' \in [Scene -> Users]
            BY <1>4, <2>1 DEF recycleConn, Types
      <2> QED BY <1>4, <2>2 DEF recycleConn, Types, countVars
<1>5. CASE Disconnect(s)
      <2>1. down' \in 0 .. MaxDown
            BY <1>5, RecordAssumption DEF Disconnect, Types
      <2>2. toRec' \in [Scene -> Seq(Requests)] /\ toScene' \in [Scene -> Seq(Answers)]
            BY <1>5 DEF Disconnect, Types
      <2> QED BY <1>5, <2>1, <2>2 DEF Disconnect, Types
<1>6. CASE Restart(s)
      <2>1. NoUser \in Users
            BY RecordAssumption DEF NoUser, Users
      <2> QED BY <1>6, <2>1 DEF Restart, Types, countVars
<1> QED BY <1>1, <1>2, <1>3, <1>4, <1>5, <1>6

\* Types is inductive.
LEMMA NextTypes == Types /\ [Next]_vars => Types'
<1>1. ASSUME Types, UNCHANGED vars PROVE Types'
      BY <1>1 DEF vars, sceneVars, connVars, countVars, Types
<1> QED BY <1>1, SceneTypes, ServerTypes DEF Next

(***************************************************************************)
(* The types of RecordOwner.                                               *)
(***************************************************************************)
THEOREM RecordTypes == Spec => []TypeOK
BY InitTypes, NextTypes, TypesType, PTL DEF Spec

-----------------------------------------------------------------------------
(***************************************************************************)
(* Who holds the account.  A step is of one scene server; the others have  *)
(* only the account and the newest version in common with it.              *)
(***************************************************************************)
Same(t) ==
  /\ user'[t] = user[t] /\ toRec'[t] = toRec[t] /\ toScene'[t] = toScene[t]
  /\ hand'[t] = hand[t] /\ up'[t] = up[t]

\* A server that nothing happens to, while the session and the newest version it may
\* rely on stay, keeps its part of the invariant.
LEMMA OtherOwner ==
  ASSUME Types, Types', NEW t \in Scene, Owner(t), Same(t), reg <= reg',
         session = t <=> session' = t, session = t => newest' = newest
  PROVE  Owner(t)'
<1> USE DEF Same
<1>1. reg \in Nat /\ reg' \in Nat /\ user[t].req \in Nat
      BY RecordAssumption DEF Types, Users
<1>2. Numbers(t)'
      BY <1>1 DEF Owner, Numbers
<1>3. Waits(t)'
      BY DEF Owner, Waits
<1>4. Expects(t)'
      BY DEF Owner, Expects, Good
<1>5. Holds(t)'
      BY DEF Owner, Holds, Good, Fresh
<1>6. Chain(t)'
      BY DEF Owner, Chain, Fresh
<1> QED BY <1>2, <1>3, <1>4, <1>5, <1>6 DEF Owner

\* What happens to one server leaves the others' part of the invariant alone: it
\* takes no session, and writes nothing newer, that another may rely on.
LEMMA StepOthers ==
  ASSUME Types, Types', NEW s \in Scene,
         \/ Reg(s) \/ Unreg(s) \/ UserInfo(s) \/ Save(s) \/ Play(s)
         \/ Parse(s) \/ readCharBase(s) \/ saveCharBase(s) \/ recycleConn(s)
         \/ Disconnect(s) \/ Restart(s)
  PROVE  \A t \in Scene \ {s} : Owner(t) => Owner(t)'
<1>1. SUFFICES ASSUME NEW t \in Scene \ {s}, Owner(t) PROVE Owner(t)'
      OBVIOUS
<1>2. t # None
      BY RecordAssumption
<1>3. reg <= reg'
      <2>1. reg \in Nat
            BY RecordAssumption DEF Types
      <2>2. reg' = reg \/ reg' = reg + 1
            BY DEF Reg, Unreg, UserInfo, Save, Play, Parse, readCharBase, saveCharBase, recycleConn,
               Disconnect, Restart, countVars
      <2> QED BY <2>1, <2>2
<1>4. user'[t] = user[t]
      BY DEF Types, Reg, Unreg, UserInfo, Save, Play, Parse, readCharBase, saveCharBase, recycleConn,
         Disconnect, Restart, Drop
<1>5. toRec'[t] = toRec[t]
      BY DEF Types, Reg, Unreg, UserInfo, Save, Play, Parse, readCharBase, saveCharBase, recycleConn,
         Disconnect, Restart, Drop, Send
<1>6. toScene'[t] = toScene[t]
      BY DEF Types, Reg, Unreg, UserInfo, Save, Play, Parse, readCharBase, saveCharBase, recycleConn,
         Disconnect, Restart
<1>7. hand'[t] = hand[t] /\ up'[t] = up[t]
      BY DEF Types, Reg, Unreg, UserInfo, Save, Play, Parse, readCharBase, saveCharBase, recycleConn,
         Disconnect, Restart, connVars
<1>8. session = t <=> session' = t
      BY <1>2 DEF Reg, Unreg, UserInfo, Save, Play, Parse, readCharBase, saveCharBase, recycleConn,
         Disconnect, Restart, add, verify
<1>9. session = t => newest' = newest
      BY DEF Reg, Unreg, UserInfo, Save, Play, Parse, readCharBase, saveCharBase, recycleConn,
         Disconnect, Restart, verify
<1>10. Same(t)
      BY <1>4, <1>5, <1>6, <1>7 DEF Same
<1> QED BY <1>1, <1>3, <1>8, <1>9, <1>10, OtherOwner

\* What becomes of the chain when something is sent, and when it is taken.
LEMMA AppendChain ==
  ASSUME Types, NEW s \in Scene, Chain(s), NEW e \in Requests,
         toRec'[s] = Append(toRec[s], e), session' = session, newest' = newest,
         Fresh(e) =>
           /\ \A i \in DOMAIN toRec[s] : Fresh(toRec[s][i]) /\ toRec[s][i].op = "keep"
           /\ e.base = IF toRec[s] = <<>> THEN newest ELSE toRec[s][Len(toRec[s])].ver
  PROVE  Chain(s)'
<1> DEFINE q == toRec[s]
           r == toRec'[s]
           n == Len(q)
<1>1. q \in Seq(Requests)
      BY DEF Types
<1>2. /\ n \in Nat /\ Len(r) = n + 1 /\ r[n + 1] = e /\ DOMAIN q = 1 .. n /\ DOMAIN r = 1 .. n + 1
      /\ \A i \in 1 .. n : r[i] = q[i]
      /\ \A i \in 1 .. n + 1 : i \in 1 .. n \/ i = n + 1
      /\ q = <<>> <=> n = 0
      BY <1>1, AppendIs
<1>3. /\ \A i, j \in 1 .. n : i < j /\ Fresh(q[j]) => Fresh(q[i]) /\ q[i].op = "keep"
      /\ \A i \in 1 .. n : i > 1 /\ Fresh(q[i]) => q[i].base = q[i - 1].ver
      /\ session = s /\ n # 0 /\ Fresh(q[1]) => q[1].base = newest
      BY <1>2 DEF Chain
<1>4. Fresh(e) => /\ \A i \in 1 .. n : Fresh(q[i]) /\ q[i].op = "keep"
                  /\ e.base = IF n = 0 THEN newest ELSE q[n].ver
      BY <1>2
<1> HIDE DEF q, r, n
<1>5. ASSUME NEW i \in 1 .. n + 1, NEW j \in 1 .. n + 1, i < j, Fresh(r[j]) PROVE Fresh(r[i]) /\ r[i].op = "keep"
      <2>1. i \in 1 .. n
            BY <1>2, <1>5
      <2>2. r[i] = q[i]
            BY <1>2, <2>1
      <2>3. CASE j \in 1 .. n
            BY <1>2, <1>3, <1>5, <2>1, <2>2, <2>3
      <2>4. CASE j = n + 1
            BY <1>2, <1>4, <1>5, <2>1, <2>2, <2>4
      <2> QED BY <1>2, <2>3, <2>4
<1>6. ASSUME NEW i \in 1 .. n + 1, i > 1, Fresh(r[i]) PROVE r[i].base = r[i - 1].ver
      <2>1. i - 1 \in 1 .. n
            BY <1>2, <1>6
      <2>2. r[i - 1] = q[i - 1]
            BY <1>2, <2>1
      <2>3. CASE i \in 1 .. n
            BY <1>2, <1>3, <1>6, <2>2, <2>3
      <2>4. CASE i = n + 1
            <3>1. n # 0 /\ i - 1 = n
                  BY <1>2, <2>1, <2>4
            <3> QED BY <1>2, <1>4, <1>6, <2>2, <2>4, <3>1
      <2> QED BY <1>2, <2>3, <2>4
<1>7. ASSUME session = s, Fresh(r[1]) PROVE r[1].base = newest
      <2>1. CASE n = 0
            BY <1>2, <1>4, <1>7, <2>1
      <2>2. CASE n # 0
            <3>1. 1 \in 1 .. n
                  BY <1>2, <2>2
            <3> QED BY <1>2, <1>3, <1>7, <2>2, <3>1
      <2> QED BY <2>1, <2>2
<1> QED BY <1>2, <1>5, <1>6, <1>7 DEF Chain, Fresh, r

\* The chain of writes goes on with the next request,
LEMMA TailChain ==
  ASSUME Types, NEW s \in Scene, Chain(s), toRec[s] # <<>>, toRec'[s] = Tail(toRec[s]),
         session' = s /\ Fresh(toRec[s][1]) /\ toRec[s][1].op = "keep" => newest' = toRec[s][1].ver
  PROVE  Chain(s)'
<1> DEFINE q == toRec[s]
           r == toRec'[s]
           n == Len(q)
<1>1. q \in Seq(Requests)
      BY DEF Types
<1>2. /\ n \in Nat \ {0} /\ Len(r) = n - 1 /\ DOMAIN q = 1 .. n /\ DOMAIN r = 1 .. n - 1
      /\ \A i \in 1 .. n - 1 : r[i] = q[i + 1] /\ i + 1 \in 1 .. n
      /\ r = <<>> <=> n = 1
      BY <1>1, TailIs
<1>3. /\ \A i, j \in 1 .. n : i < j /\ Fresh(q[j]) => Fresh(q[i]) /\ q[i].op = "keep"
      /\ \A i \in 1 .. n : i > 1 /\ Fresh(q[i]) => q[i].base = q[i - 1].ver
      BY <1>2 DEF Chain
<1>4. session' = s /\ Fresh(q[1]) /\ q[1].op = "keep" => newest' = q[1].ver
      OBVIOUS
<1> HIDE DEF q, r, n
<1>5. ASSUME NEW i \in 1 .. n - 1, NEW j \in 1 .. n - 1, i < j, Fresh(r[j]) PROVE Fresh(r[i]) /\ r[i].op = "keep"
      <2>1. i + 1 \in 1 .. n /\ j + 1 \in 1 .. n /\ i + 1 < j + 1
            BY <1>2, <1>5
      <2>2. r[i] = q[i + 1] /\ r[j] = q[j + 1]
            BY <1>2
      <2> QED BY <1>3, <1>5, <2>1, <2>2
<1>6. ASSUME NEW i \in 1 .. n - 1, i > 1, Fresh(r[i]) PROVE r[i].base = r[i - 1].ver
      <2>1. i + 1 \in 1 .. n /\ i + 1 > 1 /\ i - 1 \in 1 .. n - 1 /\ (i - 1) + 1 = (i + 1) - 1
            BY <1>2, <1>6
      <2>2. r[i] = q[i + 1] /\ r[i - 1] = q[(i + 1) - 1]
            BY <1>2, <2>1
      <2> QED BY <1>3, <1>6, <2>1, <2>2
<1>7. ASSUME session' = s, r # <<>>, Fresh(r[1]) PROVE r[1].base = newest'
      <2>1. 1 \in 1 .. n - 1 /\ 1 \in 1 .. n /\ 2 \in 1 .. n /\ 1 + 1 = 2 /\ 2 > 1 /\ 2 - 1 = 1 /\ 1 < 2
            BY <1>2, <1>7
      <2>2. r[1] = q[2]
            BY <1>2, <2>1
      <2>3. Fresh(q[1]) /\ q[1].op = "keep" /\ q[2].base = q[1].ver
            BY <1>3, <1>7, <2>1, <2>2
      <2> QED BY <1>4, <1>7, <2>2, <2>3
<1> QED BY <1>2, <1>5, <1>6, <1>7 DEF Chain, Fresh, r

\* Where nothing is sent or taken.
LEMMA SameChain ==
  ASSUME NEW s \in Scene, Chain(s), toRec'[s] = toRec[s], session' = s => session = s, newest' = newest
  PROVE  Chain(s)'
BY DEF Chain, Fresh

\* and is nothing without requests.
LEMMA EmptyChain == ASSUME NEW s \in Scene, toRec'[s] = <<>> PROVE Chain(s)'
BY DEF Chain

\* What is sent by a user: a good one has sent good writes only.
LEMMA SendChain ==
  ASSUME Types, NEW s \in Scene, Owner(s), session' = session, newest' = newest, NEW m, Send(s, m),
         \/ user[s].st = "in" /\ m = Write("leave", s)
         \/ user[s].st = "in" /\ m = Write("keep", s)
         \/ m \in Requests /\ m.op \in {"read", "remove"}
  PROVE  Chain(s)'
<1>1. CASE ~up[s]
      <2>1. toRec'[s] = toRec[s]
            BY <1>1 DEF Send, Types
      <2> QED BY <2>1, SameChain DEF Owner
<1>2. CASE up[s]
      <2>1. toRec'[s] = Append(toRec[s], m)
            BY <1>2 DEF Send, Types
      <2>2. m \in Requests
            BY WriteType DEF Requests
      <2>3. Fresh(m) => /\ \A i \in DOMAIN toRec[s] : Fresh(toRec[s][i]) /\ toRec[s][i].op = "keep"
                        /\ m.base = IF toRec[s] = <<>> THEN newest ELSE toRec[s][Len(toRec[s])].ver
            <3>1. SUFFICES ASSUME Fresh(m)
                           PROVE  /\ \A i \in DOMAIN toRec[s] : Fresh(toRec[s][i]) /\ toRec[s][i].op = "keep"
                                  /\ m.base = IF toRec[s] = <<>> THEN newest ELSE toRec[s][Len(toRec[s])].ver
                  OBVIOUS
            <3>2. user[s].st = "in" /\ m.base = user[s].base /\ ~user[s].flaw
                  BY <3>1 DEF Fresh, Write
            <3> QED BY <1>2, <3>2 DEF Owner, Holds, Good
      <2> QED BY <2>1, <2>2, <2>3, AppendChain DEF Owner
<1> QED BY <1>1, <1>2

\* What is sent leaves what was sent before it.
LEMMA SendNumbers ==
  ASSUME Types, NEW s \in Scene, Owner(s), NEW m \in Requests, Send(s, m), toScene' = toScene, hand' = hand,
         reg \in Nat, reg' \in Nat, reg <= reg', m.op = "read" => m.req \in 0 .. reg', user'[s].req \in 0 .. reg'
  PROVE  Numbers(s)'
<1>1. toRec'[s] = toRec[s] \/ toRec'[s] = Append(toRec[s], m)
      BY DEF Send, Types
<1>2. \A x \in 0 .. reg : x \in 0 .. reg'
      OBVIOUS
<1>3. \A i \in DOMAIN toRec[s] : toRec[s][i].op = "read" => toRec[s][i].req \in 0 .. reg'
      BY <1>2 DEF Owner, Numbers
<1>4. \A i \in DOMAIN toRec'[s] : toRec'[s][i].op = "read" => toRec'[s][i].req \in 0 .. reg'
      <2>1. CASE toRec'[s] = toRec[s]
            BY <1>3, <2>1
      <2>2. CASE toRec'[s] = Append(toRec[s], m)
            <3>1. toRec[s] \in Seq(Requests)
                  BY DEF Types
            <3>2. \A i \in DOMAIN toRec'[s] : (i \in DOMAIN toRec[s] /\ toRec'[s][i] = toRec[s][i]) \/ toRec'[s][i] = m
                  BY <2>2, <3>1, AppendIs
            <3> QED BY <1>3, <3>2
      <2> QED BY <1>1, <2>1, <2>2
<1> QED BY <1>2, <1>4 DEF Owner, Numbers

\* The numbers of reads are numbers.
LEMMA NumbersAre == ASSUME Types PROVE reg \in Nat /\ \A s \in Scene : user[s].req \in Nat
BY RecordAssumption DEF Types, Users

\* A player who goes,
LEMMA DropOwner ==
  ASSUME Types, Types', NEW s \in Scene, Owner(s), Drop(s), toScene' = toScene, hand' = hand,
         session' = session, newest' = newest, reg <= reg'
  PROVE  Owner(s)'
<1>1. user'[s] = NoUser /\ reg \in Nat /\ reg' \in Nat
      BY RecordAssumption DEF Drop, Types
<1>2. Waits(s)' /\ Expects(s)' /\ Holds(s)'
      BY <1>1 DEF Waits, Expects, Holds, NoUser
<1>3. user'[s].req \in 0 .. reg'
      BY <1>1 DEF NoUser
<1>4. CASE toRec' = toRec
      <2>1. Chain(s)'
            BY <1>4, SameChain DEF Owner
      <2>2. Numbers(s)'
            BY <1>1, <1>3, <1>4 DEF Owner, Numbers
      <2> QED BY <1>2, <2>1, <2>2 DEF Owner
<1>5. CASE user[s].st = "in" /\ Send(s, Write("leave", s))
      <2>1. Chain(s)'
            BY <1>5, SendChain
      <2>2. Write("leave", s) \in Requests /\ Write("leave", s).op # "read"
            BY <1>5, WriteType DEF Requests, Write
      <2>3. Numbers(s)'
            BY <1>1, <1>3, <1>5, <2>2, SendNumbers
      <2> QED BY <1>2, <2>1, <2>3 DEF Owner
<1>6. CASE user[s].st = "out" /\ Send(s, GiveUp)
      <2>1. GiveUp \in Requests /\ GiveUp.op = "remove"
            BY DEF Requests, GiveUp
      <2>2. Chain(s)'
            BY <1>6, <2>1, SendChain
      <2>3. Numbers(s)'
            BY <1>1, <1>3, <1>6, <2>1, SendNumbers
      <2> QED BY <1>2, <2>2, <2>3 DEF Owner
<1> QED BY <1>4, <1>5, <1>6 DEF Drop

\* registering a player and asking for his record,
LEMMA RegOwner == ASSUME Types, Types', NEW s \in Scene, Owner(s), Reg(s) PROVE Owner(s)'
<1>1. reg \in Nat /\ reg' = reg + 1 /\ reg' \in Nat /\ reg <= reg'
      BY NumbersAre DEF Reg
<1>2. CASE Drop(s)
      BY <1>1, <1>2, DropOwner DEF Reg
<1>3. CASE ~Drop(s)
      <2>1. /\ user' = [user EXCEPT ![s] = [NoUser EXCEPT !.st = "out", !.req = reg']]
            /\ Send(s, Read(reg'))
            /\ toScene' = toScene /\ hand' = hand /\ session' = session /\ newest' = newest /\ up' = up
            BY <1>3 DEF Reg, connVars
      <2>2. Read(reg') \in Requests /\ Read(reg').op = "read" /\ Read(reg').req = reg'
            <3>1. reg' \in 1 .. MaxReg
                  BY <1>1, RecordAssumption DEF Reg, Types
            <3> QED BY <3>1 DEF Read, Requests
      <2>3. user'[s].st = "out" /\ user'[s].req = reg'
            BY <2>1 DEF Types, NoUser
      <2>4. Chain(s)'
            BY <2>1, <2>2, SendChain
      <2>5. Numbers(s)'
            BY <1>1, <2>1, <2>2, <2>3, SendNumbers
      <2>6. \A x \in 0 .. reg : x # reg'
            BY <1>1
      <2>7. /\ \A i \in DOMAIN toRec[s] : toRec[s][i].op = "read" => toRec[s][i].req # reg'
            /\ hand[s].op = "read" => hand[s].req # reg'
            /\ \A i \in DOMAIN toScene[s] : toScene[s][i].req # reg'
            BY <2>6 DEF Owner, Numbers
      <2>8. \A i \in DOMAIN toRec'[s] : toRec'[s][i].op = "read" /\ toRec'[s][i].req = reg' => i = Len(toRec'[s])
            <3>1. toRec[s] \in Seq(Requests)
                  BY DEF Types
            <3>2. CASE toRec'[s] = toRec[s]
                  BY <2>7, <3>2
            <3>3. CASE toRec'[s] = Append(toRec[s], Read(reg'))
                  <4>1. \A i \in DOMAIN toRec'[s] :
                          (i \in DOMAIN toRec[s] /\ toRec'[s][i] = toRec[s][i]) \/ i = Len(toRec'[s])
                        BY <2>2, <3>1, <3>3, AppendIs
                  <4> QED BY <2>7, <4>1
            <3> QED BY <2>1, <3>2, <3>3 DEF Send, Types
      <2>9. Waits(s)'
            BY <2>1, <2>3, <2>7, <2>8 DEF Waits
      <2>10. Expects(s)' /\ Holds(s)'
            BY <2>1, <2>3, <2>7 DEF Expects, Holds
      <2> QED BY <2>4, <2>5, <2>9, <2>10 DEF Owner
<1> QED BY <1>2, <1>3

\* taking the record that was read,
LEMMA UserInfoOwner == ASSUME Types, Types', NEW s \in Scene, Owner(s), UserInfo(s) PROVE Owner(s)'
<1> DEFINE q == toScene[s]
           m == Head(toScene[s])
<1>1. /\ q # <<>> /\ toScene'[s] = Tail(q)
      /\ toRec' = toRec /\ hand' = hand /\ session' = session /\ newest' = newest /\ up' = up /\ reg' = reg
      BY DEF UserInfo, Types, connVars, countVars
<1>2. /\ q \in Seq(Answers) /\ m = q[1] /\ 1 \in DOMAIN q
      /\ \A i \in DOMAIN toScene'[s] : i + 1 \in DOMAIN q /\ toScene'[s][i] = q[i + 1]
      <2>1. q \in Seq(Answers)
            BY DEF Types
      <2> QED BY <1>1, <2>1, TailIs
<1>3. Chain(s)'
      BY <1>1, SameChain DEF Owner
<1>4. user' = user \/ user' # user
      OBVIOUS
<1>5. CASE user' = user
      <2>1. Numbers(s)'
            BY <1>1, <1>2, <1>5 DEF Owner, Numbers
      <2>2. Waits(s)'
            BY <1>1, <1>2, <1>5 DEF Owner, Waits
      <2>3. Expects(s)'
            BY <1>1, <1>2, <1>5 DEF Owner, Expects, Good
      <2>4. Holds(s)'
            BY <1>1, <1>5 DEF Owner, Holds, Good, Fresh
      <2> QED BY <1>3, <2>1, <2>2, <2>3, <2>4 DEF Owner
<1>6. CASE user' # user
      <2>1. /\ user[s].st = "out" /\ m.ok
            /\ user' = [user EXCEPT ![s].st = "in", ![s].ver = m.ver, ![s].base = m.ver,
                                   ![s].flaw = @ \/ m.flaw \/ m.req # user[s].req]
            BY <1>6 DEF UserInfo, CanLoad
      <2>2. /\ user'[s].st = "in" /\ user'[s].base = m.ver /\ user'[s].req = user[s].req
            /\ user'[s].flaw = (user[s].flaw \/ m.flaw \/ m.req # user[s].req)
            <3>1. user[s] \in Users
                  BY DEF Types
            <3> HIDE DEF m
            <3> QED BY <2>1, <3>1 DEF Types, Users
      <2>3. Numbers(s)'
            BY <1>1, <1>2, <2>2 DEF Owner, Numbers
      <2>4. Waits(s)' /\ Expects(s)'
            BY <2>2 DEF Waits, Expects
      <2>5. Holds(s)'
            <3>1. SUFFICES ASSUME up[s], ~user'[s].flaw
                           PROVE  /\ session = s /\ hand[s].op # "read" /\ toRec[s] = <<>>
                                  /\ user'[s].base = newest
                  BY <1>1 DEF Holds, Good, Fresh
            <3>2. ~user[s].flaw /\ ~m.flaw /\ m.req = user[s].req
                  BY <2>2, <3>1
            <3>3. session = s /\ m.ver = newest
                  BY <1>2, <2>1, <3>1, <3>2 DEF Owner, Expects, Good
            <3>4. toRec[s] = <<>> /\ hand[s] = Idle
                  BY <1>2, <2>1, <3>2 DEF Owner, Waits
            <3> QED BY <2>2, <3>3, <3>4 DEF Idle
      <2> QED BY <1>3, <2>3, <2>4, <2>5 DEF Owner
<1> QED BY <1>5, <1>6

\* sending a write,
LEMMA SaveOwner == ASSUME Types, Types', NEW s \in Scene, Owner(s), Save(s) PROVE Owner(s)'
<1> DEFINE m == Write("keep", s)
<1>1. /\ user[s].st = "in" /\ Send(s, m) /\ user' = [user EXCEPT ![s].base = user[s].ver]
      /\ toScene' = toScene /\ hand' = hand /\ session' = session /\ newest' = newest /\ up' = up /\ reg' = reg
      BY DEF Save, connVars, countVars
<1>2. m \in Requests /\ m.op = "keep" /\ m.ver = user[s].ver /\ m.flaw = user[s].flaw
      BY <1>1, WriteType DEF Requests, Write
<1>3. /\ user'[s].st = "in" /\ user'[s].base = user[s].ver /\ user'[s].req = user[s].req
      /\ user'[s].flaw = user[s].flaw
      BY <1>1 DEF Types, Users
<1>4. Chain(s)'
      BY <1>1, SendChain
<1>5. Numbers(s)'
      <2>1. reg \in Nat /\ user[s].req \in 0 .. reg
            BY NumbersAre DEF Owner, Numbers
      <2> QED BY <1>1, <1>2, <1>3, <2>1, SendNumbers
<1>6. Waits(s)' /\ Expects(s)'
      BY <1>3 DEF Waits, Expects
<1>7. Holds(s)'
      <2>1. SUFFICES ASSUME up[s], ~user[s].flaw PROVE Holds(s)'
            BY <1>1, <1>3 DEF Holds, Good
      <2>2. /\ session = s /\ hand[s].op # "read"
            /\ \A i \in DOMAIN toRec[s] : Fresh(toRec[s][i]) /\ toRec[s][i].op = "keep"
            BY <1>1, <2>1 DEF Owner, Holds, Good
      <2> DEFINE q == toRec[s]
                 r == toRec'[s]
      <2>3. r = Append(q, m) /\ q \in Seq(Requests)
            BY <1>1, <2>1 DEF Send, Types
      <2>4. /\ r # <<>> /\ r[Len(r)] = m
            /\ \A i \in DOMAIN r : (i \in DOMAIN q /\ r[i] = q[i]) \/ r[i] = m
            BY <1>2, <2>3, AppendIs
      <2>5. \A i \in DOMAIN r : Fresh(r[i]) /\ r[i].op = "keep"
            BY <1>2, <2>1, <2>2, <2>4 DEF Fresh
      <2> QED BY <1>1, <1>2, <1>3, <2>2, <2>4, <2>5 DEF Holds, Fresh
<1> QED BY <1>4, <1>5, <1>6, <1>7 DEF Owner

\* releasing, playing, the end of a write and the other steps of a connection,
LEMMA ConnOwner ==
  ASSUME Types, Types', NEW s \in Scene, Owner(s),
         Unreg(s) \/ Play(s) \/ saveCharBase(s) \/ recycleConn(s) \/ Disconnect(s) \/ Restart(s)
  PROVE  Owner(s)'
<1>1. CASE Unreg(s)
      BY <1>1, NumbersAre, DropOwner DEF Unreg, countVars
<1>2. CASE Play(s)
      <2>1. /\ user'[s].st = user[s].st /\ user'[s].base = user[s].base
            /\ user'[s].req = user[s].req /\ user'[s].flaw = user[s].flaw
            /\ UNCHANGED <<toRec, toScene, hand, session, newest, up, reg>>
            BY <1>2 DEF Play, Types, Users, connVars
      <2>2. Chain(s)'
            BY <2>1, SameChain DEF Owner
      <2>3. Numbers(s)' /\ Waits(s)' /\ Expects(s)' /\ Holds(s)'
            BY <2>1 DEF Owner, Numbers, Waits, Expects, Holds, Good, Fresh
      <2> QED BY <2>2, <2>3 DEF Owner
<1>3. CASE saveCharBase(s)
      <2>1. /\ hand[s].op # "read" /\ hand'[s] = Idle
            /\ UNCHANGED <<user, toRec, toScene, session, newest, up, reg>>
            BY <1>3 DEF saveCharBase, Saving, Types, connVars
      <2>2. Chain(s)'
            BY <2>1, SameChain DEF Owner
      <2>3. Numbers(s)' /\ Waits(s)' /\ Expects(s)' /\ Holds(s)'
            BY <2>1 DEF Owner, Numbers, Waits, Expects, Holds, Good, Fresh, Idle
      <2> QED BY <2>2, <2>3 DEF Owner
<1>4. CASE recycleConn(s)
      <2>1. /\ user'[s].st = user[s].st /\ user'[s].base = user[s].base /\ user'[s].req = user[s].req
            /\ UNCHANGED <<toRec, toScene, hand, newest, up, reg>>
            BY <1>4 DEF recycleConn, Types, Users, countVars
      <2>2. CASE session = s
            <3>1. session' = None /\ (user[s].st # "none" => user'[s].flaw = TRUE)
                  BY <1>4, <2>2 DEF recycleConn, Types, Users
            <3>2. Chain(s)'
                  BY <2>1, <3>1, SameChain, RecordAssumption DEF Owner
            <3>3. Numbers(s)' /\ Waits(s)'
                  BY <2>1 DEF Owner, Numbers, Waits
            <3>4. Expects(s)' /\ Holds(s)'
                  BY <2>1, <3>1 DEF Expects, Holds, Good
            <3> QED BY <3>2, <3>3, <3>4 DEF Owner
      <2>3. CASE session # s
            <3>1. session' = session /\ user' = user
                  BY <1>4, <2>3 DEF recycleConn
            <3>2. Chain(s)'
                  BY <2>1, <3>1, SameChain DEF Owner
            <3>3. Numbers(s)' /\ Waits(s)' /\ Expects(s)' /\ Holds(s)'
                  BY <2>1, <3>1 DEF Owner, Numbers, Waits, Expects, Holds, Good, Fresh
            <3> QED BY <3>2, <3>3 DEF Owner
      <2> QED BY <2>2, <2>3
<1>5. CASE Disconnect(s)
      <2>1. /\ toRec'[s] = <<>> /\ toScene'[s] = <<>> /\ ~up'[s] /\ UNCHANGED <<user, hand, session, newest, reg>>
            BY <1>5 DEF Disconnect, Types
      <2>2. Chain(s)'
            BY <2>1, EmptyChain
      <2>3. Numbers(s)' /\ Waits(s)' /\ Expects(s)' /\ Holds(s)'
            BY <2>1 DEF Owner, Numbers, Waits, Expects, Holds, Good
      <2> QED BY <2>2, <2>3 DEF Owner
<1>6. CASE Restart(s)
      <2>1. /\ user'[s] = NoUser /\ UNCHANGED <<toRec, toScene, hand, session, newest, reg>> /\ reg \in Nat
            BY <1>6, NumbersAre DEF Restart, Types, countVars
      <2>2. Chain(s)'
            BY <2>1, SameChain DEF Owner
      <2>3. Numbers(s)' /\ Waits(s)' /\ Expects(s)' /\ Holds(s)'
            BY <2>1 DEF Owner, Numbers, Waits, Expects, Holds, NoUser
      <2> QED BY <2>2, <2>3 DEF Owner
<1> QED BY <1>1, <1>2, <1>3, <1>4, <1>5, <1>6

\* Where the oldest request of a connection is taken, what is said of the rest.
LEMMA Taken ==
  ASSUME Types, NEW s \in Scene, Owner(s), Parse(s)
  PROVE  LET q == toRec[s]
             r == toRec'[s]
         IN  /\ q # <<>> /\ r = Tail(q) /\ Head(q) = q[1] /\ q \in Seq(Requests)
             /\ 1 \in DOMAIN q /\ q[1] \in Requests
             /\ \A i \in DOMAIN r : i + 1 \in DOMAIN q /\ r[i] = q[i + 1] /\ (i + 1 = Len(q) => i = Len(r))
             /\ (1 = Len(q) => r = <<>>)
<1> DEFINE q == toRec[s]
           r == toRec'[s]
<1>1. q # <<>> /\ r = Tail(q) /\ q \in Seq(Requests)
      BY DEF Parse, Types
<1>2. /\ Head(q) = q[1] /\ Len(q) \in Nat \ {0} /\ Len(r) = Len(q) - 1
      /\ DOMAIN q = 1 .. Len(q) /\ DOMAIN r = 1 .. Len(q) - 1
      /\ \A i \in 1 .. Len(q) - 1 : r[i] = q[i + 1] /\ i + 1 \in 1 .. Len(q)
      /\ r = <<>> <=> Len(q) = 1
      BY <1>1, TailIs
<1>3. 1 \in DOMAIN q /\ q[1] \in Requests
      BY <1>1, <1>2
<1>4. \A i \in DOMAIN r : i + 1 \in DOMAIN q /\ r[i] = q[i + 1] /\ (i + 1 = Len(q) => i = Len(r))
      BY <1>2
<1> QED BY <1>1, <1>2, <1>3, <1>4

\* and the record server's check of the session keep a server's part of the invariant.
LEMMA ParseOwner == ASSUME Types, Types', NEW s \in Scene, Owner(s), Parse(s) PROVE Owner(s)'
<1> DEFINE q == toRec[s]
           r == toRec'[s]
           m == Head(q)
           a == [req |-> m.req, ok |-> FALSE, ver |-> 0, latest |-> newest, flaw |-> FALSE]
<1>1. /\ q # <<>> /\ r = Tail(q) /\ m = q[1] /\ q \in Seq(Requests)
      /\ 1 \in DOMAIN q /\ q[1] \in Requests
      /\ \A i \in DOMAIN r : i + 1 \in DOMAIN q /\ r[i] = q[i + 1] /\ (i + 1 = Len(q) => i = Len(r))
      /\ 1 = Len(q) => r = <<>>
      BY Taken
<1>2. up[s] /\ hand[s] = Idle /\ user' = user /\ up' = up /\ reg' = reg
      BY DEF Parse, connVars, countVars
<1>3. m.op \in {"read", "remove", "keep", "leave"}
      BY <1>1 DEF Requests, Writes, GiveUp
<1>4. \/ /\ m.op = "read" /\ session = None /\ session' = s /\ hand'[s] = m
         /\ toScene' = toScene /\ newest' = newest
      \/ /\ m.op = "read" /\ session # None /\ session' = session /\ hand' = hand /\ newest' = newest
         /\ toScene' = [toScene EXCEPT ![s] = Append(@, a)]
      \/ /\ m.op = "remove" /\ session' # s /\ hand' = hand
         /\ toScene' = toScene /\ newest' = newest
      \/ /\ m.op \in {"keep", "leave"} /\ session = s
         /\ session' = IF m.op = "leave" THEN None ELSE session
         /\ hand'[s] = m /\ newest' = m.ver /\ toScene' = toScene
      \/ /\ m.op \in {"keep", "leave"} /\ session # s /\ session' = session
         /\ hand' = hand /\ toScene' = toScene /\ newest' = newest
      <2>1. hand \in [Scene -> {Idle} \cup Writes \cup Reads] /\ None # s
            BY RecordAssumption DEF Types
      <2>2. m.op = "remove" /\ session' = (IF session = s THEN None ELSE session) => session' # s
            BY <2>1
      <2>3. \/ /\ m.op = "read" /\ session = None
               /\ session' = s /\ hand' = [hand EXCEPT ![s] = m]
               /\ UNCHANGED <<toScene, newest, doubt>>
            \/ /\ m.op = "read" /\ session # None
               /\ toScene' = [toScene EXCEPT ![s] = Append(@, a)]
               /\ UNCHANGED <<session, hand, newest, doubt>>
            \/ /\ m.op = "remove"
               /\ session' = IF session = s THEN None ELSE session
               /\ UNCHANGED <<hand, toScene, newest, doubt>>
            \/ /\ m.op \in {"keep", "leave"} /\ session = s
               /\ session' = IF m.op = "leave" THEN None ELSE session
               /\ hand' = [hand EXCEPT ![s] = m]
               /\ newest' = m.ver /\ toScene' = toScene
            \/ /\ m.op \in {"keep", "leave"} /\ session # s
               /\ UNCHANGED <<session, hand, toScene, newest, doubt>>
            BY DEF Parse, add, verify
      <2> HIDE DEF m, a
      <2> QED BY <2>1, <2>2, <2>3
<1>5. m.op = "read" => m.req \in 0 .. reg
      BY <1>1 DEF Owner, Numbers
<1> HIDE DEF m
<1>6. Chain(s)'
      <2>1. session' = s /\ Fresh(q[1]) /\ q[1].op = "keep" => newest' = q[1].ver
            BY <1>1, <1>4 DEF Fresh
      <2> QED BY <1>1, <2>1, TailChain DEF Owner
<1>7. /\ toScene \in [Scene -> Seq(Answers)] /\ toScene' \in [Scene -> Seq(Answers)]
      /\ \A i \in DOMAIN toScene'[s] :
           \/ i \in DOMAIN toScene[s] /\ toScene'[s][i] = toScene[s][i]
           \/ m.op = "read" /\ ~toScene'[s][i].ok /\ toScene'[s][i].req = m.req /\ hand' = hand
      <2>1. toScene \in [Scene -> Seq(Answers)] /\ toScene' \in [Scene -> Seq(Answers)]
            BY DEF Types
      <2>2. CASE toScene' = toScene
            BY <2>1, <2>2
      <2>3. CASE m.op = "read" /\ hand' = hand /\ toScene' = [toScene EXCEPT ![s] = Append(@, a)]
            <3>1. ~a.ok /\ a.req = m.req
                  OBVIOUS
            <3>2. \A i \in DOMAIN Append(toScene[s], a) :
                    \/ i \in DOMAIN toScene[s] /\ Append(toScene[s], a)[i] = toScene[s][i]
                    \/ Append(toScene[s], a)[i] = a
                  <4>1. a \in Answers
                        <5>1. toScene'[s] = Append(toScene[s], a) /\ toScene[s] \in Seq(Answers) /\ toScene'[s] \in Seq(Answers)
                              BY <2>1, <2>3
                        <5> HIDE DEF a
                        <5> QED BY <5>1, LastIn
                  <4> HIDE DEF a
                  <4> QED BY <2>1, <4>1, AppendIs
            <3> HIDE DEF a
            <3> QED BY <2>1, <2>3, <3>1, <3>2
      <2> QED BY <1>4, <2>1, <2>2, <2>3
<1>8. hand'[s] = Idle \/ (hand'[s] = m /\ toScene' = toScene)
      BY <1>2, <1>4
<1>9. Numbers(s)'
      <2>1. \A i \in DOMAIN toScene'[s] : toScene'[s][i].req \in 0 .. reg
            BY <1>5, <1>7 DEF Owner, Numbers
      <2>2. hand'[s].op = "read" => hand'[s].req \in 0 .. reg
            BY <1>5, <1>8 DEF Idle
      <2> QED BY <1>1, <1>2, <2>1, <2>2 DEF Owner, Numbers
<1>10. Waits(s)'
      <2>1. SUFFICES ASSUME user[s].st = "out" PROVE Waits(s)'
            BY <1>2 DEF Waits
      <2>2. \A i \in DOMAIN q : q[i].op = "read" /\ q[i].req = user[s].req => i = Len(q)
            BY <2>1 DEF Owner, Waits
      <2>3. \A i \in DOMAIN r : r[i].op = "read" /\ r[i].req = user[s].req => i = Len(r)
            BY <1>1, <2>2
      <2>4. m.op = "read" /\ m.req = user[s].req => r = <<>>
            BY <1>1, <2>2
      <2>5. \A i \in DOMAIN toScene[s] : toScene[s][i].req # user[s].req
            BY <1>1, <2>1 DEF Owner, Waits
      <2>6. hand'[s].op = "read" /\ hand'[s].req = user[s].req => r = <<>>
            BY <1>8, <2>4 DEF Idle
      <2>7. \A i \in DOMAIN toScene'[s] : toScene'[s][i].req = user[s].req => r = <<>> /\ hand'[s] = Idle
            BY <1>2, <1>7, <2>4, <2>5
      <2> QED BY <1>2, <2>3, <2>6, <2>7 DEF Waits
<1>11. Expects(s)'
      <2>1. SUFFICES ASSUME user[s].st = "out" PROVE Expects(s)'
            BY <1>2 DEF Expects
      <2>2. \A i \in DOMAIN toScene[s] : toScene[s][i].req # user[s].req
            BY <1>1, <2>1 DEF Owner, Waits
      <2>3. \A i \in DOMAIN toScene'[s] : ~(toScene'[s][i].ok /\ toScene'[s][i].req = user[s].req)
            BY <1>7, <2>2
      <2>4. hand'[s].op = "read" => session' = s
            BY <1>2, <1>4 DEF Idle
      <2> QED BY <1>2, <2>3, <2>4 DEF Expects
<1>12. Holds(s)'
      <2>1. SUFFICES ASSUME Good(s), user[s].st = "in" PROVE Holds(s)'
            BY <1>2 DEF Holds, Good
      <2>2. /\ session = s /\ \A i \in DOMAIN q : Fresh(q[i]) /\ q[i].op = "keep"
            /\ user[s].base = q[Len(q)].ver
            BY <1>1, <2>1 DEF Owner, Holds
      <2>3. m.op = "keep"
            BY <1>1, <2>2
      <2>4. session' = s /\ newest' = m.ver /\ hand'[s].op = "keep"
            BY <1>4, <2>2, <2>3
      <2>5. \A i \in DOMAIN r : Fresh(r[i]) /\ r[i].op = "keep"
            BY <1>1, <2>2
      <2>6. user[s].base = IF r = <<>> THEN newest' ELSE r[Len(r)].ver
            <3>1. Len(q) \in Nat \ {0} /\ Len(r) = Len(q) - 1 /\ (r = <<>> <=> Len(q) = 1)
                  BY <1>1, TailIs
            <3>2. CASE r = <<>>
                  BY <1>1, <2>2, <2>4, <3>1, <3>2
            <3>3. CASE r # <<>>
                  <4>1. Len(r) \in DOMAIN r /\ Len(r) + 1 = Len(q)
                        BY <1>1, <3>1, <3>3, TailIs
                  <4> QED BY <1>1, <2>2, <3>3, <4>1
            <3> QED BY <3>2, <3>3
      <2> QED BY <1>2, <2>4, <2>5, <2>6 DEF Holds, Fresh
<1> QED BY <1>6, <1>9, <1>10, <1>11, <1>12 DEF Owner

\* The answer that a good user waits for carries the newest version.
LEMMA ReadOwner == ASSUME Types, Types', NEW s \in Scene, Owner(s), Row, readCharBase(s) PROVE Owner(s)'
<1>1. /\ hand[s].op = "read" /\ hand' = [hand EXCEPT ![s] = Idle]
      /\ UNCHANGED <<user, toRec, up, newest, reg>>
      BY DEF readCharBase, connVars
<1>2. PICK ok \in BOOLEAN :
        /\ toScene' = IF ~up[s] THEN toScene ELSE [toScene EXCEPT ![s] = Append(@,
              [req |-> hand[s].req, ok |-> ok, ver |-> IF ok THEN row ELSE 0, latest |-> newest,
               flaw |-> doubt \/ \E t \in Scene : Saving(t)])]
        /\ session' = IF ~ok /\ session = s THEN None ELSE session
      BY DEF readCharBase, verify
<1> DEFINE d == doubt \/ \E t \in Scene : Saving(t)
           a == [req |-> hand[s].req, ok |-> ok, ver |-> IF ok THEN row ELSE 0, latest |-> newest, flaw |-> d]
<1>3. a.req = hand[s].req /\ a.ok = ok /\ (ok => a.ver = row) /\ a.flaw = d
      OBVIOUS
<1>4. ~d => row = newest
      BY DEF Row
<1>5. /\ toScene \in [Scene -> Seq(Answers)] /\ toScene' \in [Scene -> Seq(Answers)]
      /\ hand'[s] = Idle /\ None # s
      BY <1>1, RecordAssumption DEF Types
<1>6. toScene' = IF ~up[s] THEN toScene ELSE [toScene EXCEPT ![s] = Append(@, a)]
      BY <1>2
<1> HIDE DEF a, d
<1>7. \A i \in DOMAIN toScene'[s] :
        (i \in DOMAIN toScene[s] /\ toScene'[s][i] = toScene[s][i]) \/ toScene'[s][i] = a
      <2>1. CASE ~up[s]
            BY <1>6, <2>1
      <2>2. CASE up[s]
            <3>1. toScene'[s] = Append(toScene[s], a) /\ toScene[s] \in Seq(Answers) /\ toScene'[s] \in Seq(Answers)
                  BY <1>5, <1>6, <2>2
            <3>2. a \in Answers
                  BY <3>1, LastIn
            <3> QED BY <3>1, <3>2, AppendIs
      <2> QED BY <2>1, <2>2
<1>8. Chain(s)'
      <2>1. session' = s => session = s
            BY <1>2, <1>5
      <2> QED BY <1>1, <2>1, SameChain DEF Owner
<1>9. Numbers(s)'
      BY <1>1, <1>3, <1>5, <1>7 DEF Owner, Numbers, Idle
<1>10. Waits(s)'
      BY <1>1, <1>3, <1>5, <1>7 DEF Owner, Waits, Idle
<1>11. Expects(s)'
      <2>1. SUFFICES ASSUME Good(s), user[s].st = "out" PROVE Expects(s)'
            BY <1>1 DEF Expects, Good
      <2>2. \A i \in DOMAIN toScene[s] : toScene[s][i].req # user[s].req
            BY <1>1, <2>1 DEF Owner, Waits, Idle
      <2>3. a.ok /\ a.req = user[s].req => session = s /\ session' = s /\ (~a.flaw => a.ver = newest)
            BY <1>1, <1>2, <1>3, <1>4, <2>1 DEF Owner, Expects
      <2>4. hand'[s].op # "read"
            BY <1>5 DEF Idle
      <2>5. ASSUME NEW i \in DOMAIN toScene'[s], toScene'[s][i].ok, toScene'[s][i].req = user[s].req
            PROVE  session' = s /\ (~toScene'[s][i].flaw => toScene'[s][i].ver = newest)
            <3>1. toScene'[s][i] = a
                  BY <1>7, <2>2, <2>5
            <3> QED BY <2>3, <2>5, <3>1
      <2> QED BY <1>1, <2>4, <2>5 DEF Expects
<1>12. Holds(s)'
      BY <1>1 DEF Owner, Holds, Good
<1> QED BY <1>8, <1>9, <1>10, <1>11, <1>12 DEF Owner

(* The row of the database.                                                *)
LEMMA StillRow ==
  ASSUME Row, UNCHANGED <<newest, doubt, row>>,
         \A t \in Scene : (Saving(t)' <=> Saving(t)) /\ (Saving(t) => hand'[t].ver = hand[t].ver)
  PROVE  Row'
<1>1. CASE doubt
      BY <1>1 DEF Row
<1>2. CASE ~doubt
      <2>1. \A t \in Scene : Saving(t)' => hand'[t].ver = newest' /\ \A u \in Scene : Saving(u)' => u = t
            BY <1>2 DEF Row
      <2>2. (\A t \in Scene : ~Saving(t)') => row' = newest'
            BY <1>2 DEF Row
      <2> QED BY <2>1, <2>2 DEF Row, Saving
<1> QED BY <1>1, <1>2

\* The row is the newest version, or the one write on its way is, unless one is in doubt.
LEMMA NextRow == ASSUME Types, Row, [Next]_vars PROVE Row'
<1>1. hand \in [Scene -> {Idle} \cup Writes \cup Reads] /\ Idle.op = "idle"
      BY DEF Types, Idle
<1>2. ASSUME UNCHANGED <<newest, doubt, row, hand>> PROVE Row'
      BY <1>2 DEF Row, Saving
<1>3. CASE UNCHANGED vars
      BY <1>2, <1>3 DEF vars, sceneVars
<1>4. ASSUME NEW s \in Scene,
             \/ Reg(s) \/ Unreg(s) \/ UserInfo(s) \/ Save(s) \/ Play(s) \/ recycleConn(s)
             \/ Disconnect(s) \/ Restart(s)
      PROVE  Row'
      BY <1>2, <1>4 DEF Reg, Unreg, UserInfo, Save, Play, recycleConn, Disconnect, Restart
<1>5. ASSUME NEW s \in Scene, Parse(s) PROVE Row'
      <2> DEFINE m == Head(toRec[s])
      <2>1. row' = row /\ ~Saving(s)
            BY <1>1, <1>5 DEF Parse, Saving
      <2>2. CASE m.op \in {"keep", "leave"} /\ verify(s)
            <3>1. hand' = [hand EXCEPT ![s] = m] /\ newest' = m.ver /\ doubt' = \E t \in Scene \ {s} : Saving(t)
                  BY <1>5, <2>2 DEF Parse
            <3>2. \A t \in Scene \ {s} : hand'[t] = hand[t] /\ (Saving(t)' <=> Saving(t))
                  BY <1>1, <3>1 DEF Saving
            <3>3. hand'[s] = m /\ Saving(s)'
                  BY <1>1, <2>2, <3>1 DEF Saving
            <3>4. ~doubt' => \A t \in Scene : Saving(t)' => t = s
                  BY <3>1, <3>2
            <3> QED BY <3>1, <3>3, <3>4 DEF Row, Saving
      <2>3. CASE m.op = "read" /\ add(s)
            <3>1. hand' = [hand EXCEPT ![s] = m] /\ UNCHANGED <<newest, doubt>>
                  BY <1>5, <2>3 DEF Parse
            <3>2. \A t \in Scene : (Saving(t)' <=> Saving(t)) /\ (Saving(t) => hand'[t].ver = hand[t].ver)
                  BY <1>1, <2>1, <2>3, <3>1 DEF Saving
            <3> QED BY <2>1, <3>1, <3>2, StillRow
      <2>4. CASE ~(m.op \in {"keep", "leave"} /\ verify(s)) /\ ~(m.op = "read" /\ add(s))
            <3>1. UNCHANGED <<newest, doubt, row, hand>>
                  BY <1>5, <2>1, <2>4 DEF Parse
            <3> QED BY <1>2, <3>1
      <2> QED BY <2>2, <2>3, <2>4
<1>6. ASSUME NEW s \in Scene, readCharBase(s) PROVE Row'
      <2>1. hand' = [hand EXCEPT ![s] = Idle] /\ hand[s].op = "read" /\ UNCHANGED <<newest, doubt, row>>
            BY <1>6 DEF readCharBase
      <2>2. \A t \in Scene : (Saving(t)' <=> Saving(t)) /\ (Saving(t) => hand'[t].ver = hand[t].ver)
            BY <1>1, <2>1 DEF Saving
      <2> QED BY <2>1, <2>2, StillRow
<1>7. ASSUME NEW s \in Scene, saveCharBase(s) PROVE Row'
      <2>1. Saving(s) /\ hand' = [hand EXCEPT ![s] = Idle] /\ newest' = newest
            BY <1>7 DEF saveCharBase
      <2>2. CASE doubt' = TRUE
            BY <2>2 DEF Row
      <2>3. CASE row' = hand[s].ver /\ doubt' = doubt
            <3>1. SUFFICES ASSUME ~doubt PROVE Row'
                  BY <2>3 DEF Row
            <3>2. hand[s].ver = newest /\ \A t \in Scene : Saving(t) => t = s
                  BY <2>1, <3>1 DEF Row
            <3>3. \A t \in Scene : ~Saving(t)'
                  BY <1>1, <2>1, <3>2 DEF Saving
            <3> QED BY <2>1, <2>3, <3>2, <3>3 DEF Row, Saving
      <2> QED BY <1>7, <2>2, <2>3 DEF saveCharBase
<1> QED BY <1>3, <1>4, <1>5, <1>6, <1>7 DEF Next

-----------------------------------------------------------------------------
(* The invariant and what it gives.                                        *)
LEMMA InitRecord == Init => RecordInv
<1> SUFFICES ASSUME Init PROVE RecordInv
    OBVIOUS
<1>1. Types
      BY InitTypes
<1>2. ASSUME NEW s \in Scene PROVE Owner(s)
      BY DEF Init, NoUser, Idle, Owner, Numbers, Waits, Expects, Holds, Chain
<1>3. Row
      BY DEF Init, Row, Saving, Idle
<1> QED BY <1>1, <1>2, <1>3 DEF RecordInv

\* RecordInv is inductive.
LEMMA NextRecord == RecordInv /\ [Next]_vars => RecordInv'
<1> SUFFICES ASSUME RecordInv, [Next]_vars PROVE RecordInv'
    OBVIOUS
<1>1. Types /\ Types' /\ Row /\ Row' /\ \A s \in Scene : Owner(s)
      BY NextTypes, NextRow DEF RecordInv
<1>2. CASE UNCHANGED vars
      <2>1. ASSUME NEW t \in Scene PROVE Owner(t)'
            <3>1. Same(t) /\ reg \in Nat /\ reg' = reg /\ session' = session /\ newest' = newest
                  BY <1>1, <1>2, NumbersAre DEF vars, sceneVars, connVars, countVars, Same
            <3>2. reg <= reg'
                  BY <3>1
            <3> QED BY <1>1, <3>1, <3>2, OtherOwner
      <2> QED BY <1>1, <2>1 DEF RecordInv
<1>3. ASSUME NEW s \in Scene,
             \/ Reg(s) \/ Unreg(s) \/ UserInfo(s) \/ Save(s) \/ Play(s)
             \/ Parse(s) \/ readCharBase(s) \/ saveCharBase(s) \/ recycleConn(s)
             \/ Disconnect(s) \/ Restart(s)
      PROVE  RecordInv'
      <2>1. Owner(s)'
            BY <1>1, <1>3, RegOwner, UserInfoOwner, SaveOwner, ConnOwner, ParseOwner, ReadOwner
      <2>2. \A t \in Scene \ {s} : Owner(t)'
            BY <1>1, <1>3, StepOthers
      <2>3. \A t \in Scene : Owner(t)'
            BY <2>1, <2>2
      <2> QED BY <1>1, <2>3 DEF RecordInv
<1> QED BY <1>2, <1>3 DEF Next

(***************************************************************************)
(* The property of RecordOwner of the same name, for any number of scene   *)
(* servers and of requests of the gateways and the session server: no two  *)
(* running scene servers have the player in a scene, but for the flaws     *)
(* that the module names.                                                  *)
(***************************************************************************)
THEOREM RecordOneOwner == Spec => []OneOwner
<1>1. RecordInv => OneOwner
      BY DEF RecordInv, OneOwner, Owner, Holds, Good
<1> QED BY <1>1, InitRecord, NextRecord, PTL DEF Spec

(***************************************************************************)
(* The property of RecordOwner of the same name: a write that is taken and *)
(* not flawed goes on from the newest version taken before it.             *)
(***************************************************************************)
THEOREM RecordNoLostUpdate == Spec => NoLostUpdate
<1> DEFINE A == \A s \in Scene : ~Saving(s) /\ Saving(s)' => hand'[s].flaw \/ hand'[s].base = newest
<1>1. ASSUME RecordInv, [Next]_vars PROVE A
      <2>1. SUFFICES ASSUME NEW s \in Scene, ~Saving(s), Saving(s)', ~hand'[s].flaw PROVE hand'[s].base = newest
            OBVIOUS
      <2>2. Types /\ Chain(s) /\ hand'[s] # hand[s]
            BY <1>1, <2>1 DEF RecordInv, Owner, Saving
      <2>3. Parse(s)
            <3>1. hand'[s].op \in {"keep", "leave"} /\ Idle.op = "idle"
                  BY <2>1 DEF Saving, Idle
            <3>2. hand' # hand /\ hand'[s] # Idle
                  BY <2>2, <3>1
            <3>3. ASSUME NEW r \in Scene,
                         Reg(r) \/ Unreg(r) \/ UserInfo(r) \/ Save(r) \/ Play(r) \/ recycleConn(r) \/ Disconnect(r) \/ Restart(r)
                  PROVE  hand' = hand
                  BY <3>3 DEF sceneVars, Reg, Unreg, UserInfo, Save, Play, recycleConn, Disconnect, Restart
            <3>4. ASSUME NEW r \in Scene, readCharBase(r) \/ saveCharBase(r) PROVE hand'[s] \in {hand[s], Idle}
                  BY <2>2, <3>4 DEF readCharBase, saveCharBase, Types
            <3>5. ASSUME NEW r \in Scene, Parse(r) PROVE r = s
                  BY <2>2, <3>2, <3>5 DEF Parse, Types
            <3>6. Next
                  BY <1>1, <3>2 DEF vars, sceneVars
            <3> QED BY <2>2, <3>2, <3>3, <3>4, <3>5, <3>6 DEF Next
      <2>4. hand'[s] = toRec[s][1] /\ toRec[s] # <<>> /\ Fresh(toRec[s][1]) /\ session = s
            <3>1. toRec[s] # <<>> /\ Head(toRec[s]) = toRec[s][1] /\ hand \in [Scene -> {Idle} \cup Writes \cup Reads]
                  BY <2>2, <2>3, TailIs DEF Parse, Types
            <3>2. hand'[s] = Head(toRec[s])
                  BY <2>2, <2>3, <3>1 DEF Parse
            <3>3. hand'[s].op \in {"keep", "leave"}
                  BY <2>1 DEF Saving
            <3>4. session = s
                  BY <2>2, <2>3, <3>2, <3>3 DEF Parse, verify
            <3> QED BY <2>1, <3>1, <3>2, <3>3, <3>4 DEF Fresh
      <2> QED BY <2>2, <2>4 DEF Chain
<1>2. RecordInv /\ [Next]_vars => [A]_vars
      BY <1>1
<1> HIDE DEF A
<1>3. Spec => [][A]_vars
      BY <1>2, InitRecord, NextRecord, PTL DEF Spec
<1> QED BY <1>3 DEF NoLostUpdate, A
=============================================================================
