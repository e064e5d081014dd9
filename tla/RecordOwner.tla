---------------------------- MODULE RecordOwner ----------------------------
(***************************************************************************)
(* Who may write a character's record.  A scene server that is told to     *)
(* register a player asks the record server to read; the record server     *)
(* lets one scene server at a time hold the account (RecordSessionManager) *)
(* and takes writes from the holder only.  A scene server writes from time *)
(* to time and when the player leaves or changes to another scene server,  *)
(* which ends its hold.                                                    *)
(*                                                                         *)
(* One account with one character.  The record server parses each scene    *)
(* server's connection in its own thread: the session map is locked, the   *)
(* database is not, so a handler takes two steps.  A scene server runs     *)
(* one main loop and a handler of it is one step; the gateways and the     *)
(* session server may ask it to register and unregister a player at any    *)
(* time and in any order.                                                  *)
(*                                                                         *)
(* Data is a version number: playing makes a new one.  History: newest     *)
(* is the last version whose write passed the check; base is the version   *)
(* that was current when what is written was loaded or last written.       *)
(***************************************************************************)
EXTENDS Naturals, Sequences, SequencesExt

CONSTANTS Scene,   \* the scene servers
          None,
          MaxReg,  \* how often a player is registered (a bound)
          MaxVer,  \* how many versions are played (a bound)
          MaxDown, \* how often a scene server loses its connection (a bound)
          MaxFail  \* how often the database refuses an update (a bound)

ASSUME RecordAssumption ==
  /\ {MaxReg, MaxVer, MaxDown, MaxFail} \subseteq Nat /\ MaxVer > 0 /\ None \notin Scene

VARIABLES
  user,    \* the SceneUser of the player on each scene server
  toRec,   \* scene server -> record server
  toScene, \* record server -> scene server: what a read found
  hand,    \* what the thread of a connection is in the middle of
  session, \* sessionMap: the scene server that holds the account, or None
  row,     \* the version in CHARBASE
  up,      \* whether a scene server runs with a connection
  old,     \* an earlier connection of it that recycleConn has yet to see
  newest,  \* history, see above
  doubt,   \* history: the newest write was refused by the database, or two
           \* threads were writing at once
  reg, ver, down, fails   \* counters, for the bounds

sceneVars == <<user, toRec, toScene, hand>>
connVars  == <<up, old>>
countVars == <<reg, ver, down, fails>>
vars == <<sceneVars, session, row, connVars, newest, doubt, countVars>>

\* in and out: in a scene or not (hasInScene); req: its read; flaw is history,
\* that what it has or holds is in doubt: it was loaded by the answer to an
\* earlier read, or from a row with a write under way or in doubt, or the
\* account has been taken from it
NoUser == [st |-> "none", ver |-> 0, base |-> 0, req |-> 0, flaw |-> FALSE]
Idle == [op |-> "idle"]
Ver == 1 .. MaxVer + 1

Write(kind, s) == [op |-> kind, ver |-> user[s].ver, base |-> user[s].base, flaw |-> user[s].flaw]
Read(n) == [op |-> "read", req |-> n]
GiveUp == [op |-> "remove"]

Writes == [op : {"keep", "leave"}, ver : Ver, base : Ver, flaw : BOOLEAN]
Requests == Writes \cup [op : {"read"}, req : 1 .. MaxReg] \cup {GiveUp}

TypeOK ==
  /\ user \in [Scene -> [st : {"none", "out", "in"}, ver : 0 .. MaxVer + 1, base : 0 .. MaxVer + 1,
                         req : 0 .. MaxReg, flaw : BOOLEAN]]
  /\ \A s \in Scene : user[s].st = "in" => {user[s].ver, user[s].base} \subseteq Ver
  /\ \A s \in Scene : toRec[s] \in Seq(Requests)
  /\ \A s \in Scene : toScene[s] \in
       Seq([req : 1 .. MaxReg, ok : BOOLEAN, ver : 0 .. MaxVer + 1, latest : Ver, flaw : BOOLEAN])
  /\ hand \in [Scene -> {Idle} \cup Writes \cup [op : {"read"}, req : 1 .. MaxReg]]
  /\ session \in Scene \cup {None} /\ row \in Ver /\ newest \in Ver
  /\ up \in [Scene -> BOOLEAN] /\ old \in [Scene -> BOOLEAN] /\ doubt \in BOOLEAN
  /\ reg <= MaxReg /\ ver <= MaxVer + 1 /\ down <= MaxDown /\ fails <= MaxFail

Init ==
  /\ user = [s \in Scene |-> NoUser]
  /\ toRec = [s \in Scene |-> <<>>] /\ toScene = [s \in Scene |-> <<>>]
  /\ hand = [s \in Scene |-> Idle]
  /\ session = None /\ row = 1 /\ newest = 1 /\ doubt = FALSE
  /\ up = [s \in Scene |-> TRUE] /\ old = [s \in Scene |-> FALSE]
  /\ reg = 0 /\ ver = 1 /\ down = 0 /\ fails = 0

-----------------------------------------------------------------------------
(* a scene server; without a connection what it sends is lost *)

Send(s, m) == toRec' = [toRec EXCEPT ![s] = IF up[s] THEN Append(@, m) ELSE @]

\* the player goes: a user in a scene is saved, unless save has nothing to
\* send, and one that still waits for its record gives up its read
Drop(s) ==
  /\ \/ user[s].st = "in" /\ (Send(s, Write("leave", s)) \/ UNCHANGED toRec)
     \/ user[s].st = "out" /\ Send(s, GiveUp)
  /\ user' = [user EXCEPT ![s] = NoUser]

\* t_Unreg_LoginScene, PARA_SCENE_UNREGUSER, a kick, and t_changeScene (for
\* which the gateway then has the player registered on another server)
Unreg(s) ==
  /\ Drop(s)
  /\ UNCHANGED <<toScene, hand, session, row, connVars, newest, doubt, countVars>>

\* PARA_SCENE_REGUSER; a user that is already there is thrown out instead
Reg(s) ==
  /\ reg < MaxReg /\ reg' = reg + 1
  /\ \/ Drop(s)
     \/ /\ user[s].st = "none"
        /\ user' = [user EXCEPT ![s] = [NoUser EXCEPT !.st = "out", !.req = reg']]
        /\ Send(s, Read(reg'))
  /\ UNCHANGED <<toScene, hand, session, row, connVars, newest, doubt, ver, down, fails>>

\* Seeded fault: PARA_SCENE_USER_READ_ERROR is not looked at.
CanLoadAny(s, m) == user[s].st = "out"
CanLoad(s, m) == user[s].st = "out" /\ m.ok

\* PARA_SCENE_USERINFO: found by the character's id, whichever read it answers;
\* intoScene may fail, and the user stays outside
UserInfo(s) ==
  /\ toScene[s] # <<>> /\ toScene' = [toScene EXCEPT ![s] = Tail(@)]
  /\ LET m == Head(toScene[s])
     IN  \/ /\ CanLoad(s, m)
            /\ user' = [user EXCEPT ![s].st = "in", ![s].ver = m.ver, ![s].base = m.ver,
                                    ![s].flaw = @ \/ m.flaw \/ m.req # user[s].req]
         \/ UNCHANGED user
  /\ UNCHANGED <<toRec, hand, session, row, connVars, newest, doubt, countVars>>

\* save with TIMETICK_WRITEBACK or OPERATION_WRITEBACK; one that would write
\* the same again is left out
Save(s) ==
  /\ user[s].st = "in" /\ user[s].ver # user[s].base
  /\ Send(s, Write("keep", s))
  /\ user' = [user EXCEPT ![s].base = user[s].ver]
  /\ UNCHANGED <<toScene, hand, session, row, connVars, newest, doubt, countVars>>

Play(s) ==
  /\ user[s].st = "in" /\ ver <= MaxVer
  /\ ver' = ver + 1 /\ user' = [user EXCEPT ![s].ver = ver + 1]
  /\ UNCHANGED <<toRec, toScene, hand, session, row, connVars, newest, doubt, reg, down, fails>>

-----------------------------------------------------------------------------
(* the record server *)

\* Seeded fault: a server that finds a session is let in all the same.
addAgain(s) == TRUE
add(s) == session = None

\* Seeded fault: the server is not compared.
verifyAny(s) == session # None
verify(s) == session = s

\* a thread is between its check and the update of the row
Saving(s) == hand[s].op \in {"keep", "leave"}

\* what msgParse_Scene does with the session map, under its lock
Parse(s) ==
  /\ up[s] /\ hand[s] = Idle /\ toRec[s] # <<>>
  /\ toRec' = [toRec EXCEPT ![s] = Tail(@)]
  /\ LET m == Head(toRec[s])
     IN  \/ /\ m.op = "read" /\ add(s)
            /\ session' = s /\ hand' = [hand EXCEPT ![s] = m]
            /\ UNCHANGED <<toScene, newest, doubt>>
         \/ /\ m.op = "read" /\ ~add(s)
            /\ toScene' = [toScene EXCEPT ![s] = Append(@,
                 [req |-> m.req, ok |-> FALSE, ver |-> 0, latest |-> newest, flaw |-> FALSE])]
            /\ UNCHANGED <<session, hand, newest, doubt>>
         \/ /\ m.op = "remove"
            /\ session' = IF verify(s) THEN None ELSE session
            /\ UNCHANGED <<hand, toScene, newest, doubt>>
         \/ /\ m.op \in {"keep", "leave"} /\ verify(s)
            /\ session' = IF m.op = "leave" THEN None ELSE session
            /\ hand' = [hand EXCEPT ![s] = m]
            /\ newest' = m.ver /\ doubt' = \E t \in Scene \ {s} : Saving(t)
            /\ UNCHANGED toScene
         \/ /\ m.op \in {"keep", "leave"} /\ ~verify(s)
            /\ UNCHANGED <<session, hand, toScene, newest, doubt>>
  /\ UNCHANGED <<user, row, connVars, countVars>>

\* readCharBase; when there is no row to be had the session is removed again
readCharBase(s) ==
  /\ hand[s].op = "read" /\ hand' = [hand EXCEPT ![s] = Idle]
  /\ \E ok \in BOOLEAN :
       /\ toScene' = IF ~up[s] THEN toScene ELSE [toScene EXCEPT ![s] = Append(@,
            [req |-> hand[s].req, ok |-> ok, ver |-> IF ok THEN row ELSE 0, latest |-> newest,
             flaw |-> doubt \/ \E t \in Scene : Saving(t)])]
       /\ session' = IF ~ok /\ verify(s) THEN None ELSE session
       /\ ok \/ fails < MaxFail
       /\ fails' = IF ok THEN fails ELSE fails + 1
  /\ UNCHANGED <<user, toRec, row, connVars, newest, doubt, reg, ver, down>>

\* saveCharBase: an update that is refused is answered like one that is not
saveCharBase(s) ==
  /\ Saving(s) /\ hand' = [hand EXCEPT ![s] = Idle]
  /\ \/ row' = hand[s].ver /\ UNCHANGED <<doubt, fails>>
     \/ fails < MaxFail /\ fails' = fails + 1 /\ doubt' = TRUE /\ UNCHANGED row
  /\ UNCHANGED <<user, toRec, toScene, session, connVars, newest, reg, ver, down>>

\* recycleConn, for the old connection: all sessions of the server's number
recycleConn(s) ==
  /\ old[s] /\ old' = [old EXCEPT ![s] = FALSE]
  /\ session' = IF session = s THEN None ELSE session
  /\ user' = IF session = s /\ user[s].st # "none" THEN [user EXCEPT ![s].flaw = TRUE] ELSE user
  /\ UNCHANGED <<toRec, toScene, hand, row, up, newest, doubt, countVars>>

-----------------------------------------------------------------------------
(* connections *)

\* RecordClient::run comes to its end and with it the scene server; until it
\* has ended its players go on
Disconnect(s) ==
  /\ up[s] /\ ~old[s] /\ down < MaxDown /\ down' = down + 1
  /\ up' = [up EXCEPT ![s] = FALSE] /\ old' = [old EXCEPT ![s] = TRUE]
  /\ toRec' = [toRec EXCEPT ![s] = <<>>] /\ toScene' = [toScene EXCEPT ![s] = <<>>]
  /\ UNCHANGED <<user, hand, session, row, newest, doubt, reg, ver, fails>>

Restart(s) ==
  /\ ~up[s] /\ hand[s] = Idle
  /\ up' = [up EXCEPT ![s] = TRUE] /\ user' = [user EXCEPT ![s] = NoUser]
  /\ UNCHANGED <<toRec, toScene, hand, session, row, old, newest, doubt, countVars>>

Next ==
  \E s \in Scene :
    \/ Reg(s) \/ Unreg(s) \/ UserInfo(s) \/ Save(s) \/ Play(s)
    \/ Parse(s) \/ readCharBase(s) \/ saveCharBase(s) \/ recycleConn(s)
    \/ Disconnect(s) \/ Restart(s)

Spec == Init /\ [][Next]_vars

-----------------------------------------------------------------------------
\* The player is in a scene of one scene server only, whatever the gateways
\* and the session server ask for (the comment in RecordSessionManager.cpp:
\* the container is there to rule out a double login), but for a server that
\* is ending, and for the flaws that this model names.
OneOwner ==
  \A s, t \in Scene : s # t =>
    ~ \A r \in {s, t} : up[r] /\ user[r].st = "in" /\ ~user[r].flaw

\* A write that is taken goes on from the newest version taken before it: no
\* server overwrites what another has written since its own load.
NoLostUpdate ==
  [][\A s \in Scene :
       ~Saving(s) /\ Saving(s)' => hand'[s].flaw \/ hand'[s].base = newest]_vars

\* "After the write-back at logout is complete, the session record has to be
\* removed" (RecordSessionManager.cpp, remove): so what a read finds is what
\* was last written.
ReadsSaved ==
  \A s \in Scene : \A m \in ToSet(toScene[s]) : m.ok => m.ver = m.latest
=============================================================================
