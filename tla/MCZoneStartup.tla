--------------------------- MODULE MCZoneStartup ---------------------------
(* A zone of two record servers, which race for their numbers, a session    *)
(* server, a mini-game server and a scene server.  An instance starts some  *)
(* of them; the types it leaves out are left out of the sequence too.       *)
EXTENDS ZoneStartup, TLC

CONSTANTS r1, r2, s, m, c

MCProcType == r1 :> "RECORD" @@ r2 :> "RECORD" @@ s :> "SESSION" @@ m :> "MINI" @@ c :> "SCENES"
MCTypeOf == 1 :> "RECORD" @@ 2 :> "RECORD" @@ 3 :> "SESSION" @@ 4 :> "MINI" @@ 5 :> "SCENES"
MCSequence == [RECORD |-> <<>>, SESSION |-> <<"RECORD">>, MINI |-> <<>>, SCENES |-> <<"MINI">>]
MCRequired == [RECORD |-> {}, SESSION |-> {"RECORD"}, MINI |-> {}, SCENES |-> {"MINI"}]
MCReasks == [RECORD |-> {}, SESSION |-> {}, MINI |-> {}, SCENES |-> {"MINI"}]
Sym == Permutations({r1, r2})
============================================================================
