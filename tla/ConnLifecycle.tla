---------------------------- MODULE ConnLifecycle ----------------------------
(***************************************************************************)
(* What the server-side connection pool promises about one connection,     *)
(* whatever threads, queues and locks it uses.  A connection is accepted,   *)
(* verified, admitted, served, dismissed and reclaimed, in this order;     *)
(* it can be dismissed from every stage but skips none on the way up; the  *)
(* rest of the server sees it (in the global container) exactly while it   *)
(* is served; and it is reclaimed once.                                    *)
(***************************************************************************)

CONSTANT Conn           \* the connections ever accepted

VARIABLES phase,        \* where each connection is in its life
          container     \* the connections the rest of the server can see

lifeVars == <<phase, container>>

Phase == {"none", "verify", "sync", "okay", "recycle", "notuse"}

LifeTypeOK == /\ phase \in [Conn -> Phase]
              /\ container \in SUBSET Conn

LifeInit == /\ phase = [c \in Conn |-> "none"]
            /\ container = {}

\* One connection moves on.
Move(c, from, to) == /\ phase[c] = from
                     /\ phase' = [phase EXCEPT ![c] = to]

Open(c)     == Move(c, "none", "verify") /\ UNCHANGED container
Verified(c) == Move(c, "verify", "sync") /\ UNCHANGED container
Admit(c)    == Move(c, "sync", "okay") /\ container' = container \cup {c}
Leave(c)    == Move(c, "okay", "recycle") /\ container' = container \ {c}
Reject(c)   == /\ \/ Move(c, "verify", "recycle")
                  \/ Move(c, "sync", "recycle")
               /\ UNCHANGED container
Reclaim(c)  == Move(c, "recycle", "notuse") /\ UNCHANGED container

LifeNext == \E c \in Conn : \/ Open(c)  \/ Verified(c) \/ Admit(c)
                            \/ Leave(c) \/ Reject(c)   \/ Reclaim(c)

LifeSpec == LifeInit /\ [][LifeNext]_lifeVars
=============================================================================
