------------------------------- MODULE Points -------------------------------
(***************************************************************************)
(* Points for gold and cards: a player's request reaches the bill server,  *)
(* which sends a transaction to the user server outside the zone, keeps    *)
(* it in BillCache, remembers its number in the BillUser (begin_tid), and  *)
(* when the answer comes pays the player, or, if the player has gone,      *)
(* writes a row of RESTOREGOLD or RESTORECARD that a later request pays.   *)
(*                                                                         *)
(* All of it runs in the main loop of the bill server (BillTimeTick::run), *)
(* so a handler is one step.  The user server is not in the repository: it *)
(* takes the points or refuses.  A transaction's number (tid) is its       *)
(* place in the sequence bd of those sent.                                 *)
(***************************************************************************)
EXTENDS Naturals, Sequences, SequencesExt

CONSTANTS Account,
          MaxTid,      \* how many transactions are sent (a bound)
          None, Free   \* no BillUser; a BillUser with an empty tid

ASSUME PointsAssumption ==
  /\ MaxTid \in Nat /\ None # Free /\ {None, Free} \cap (1 .. MaxTid) = {}

VARIABLES
  bd,       \* the transactions sent, oldest first: uid and at of each
  cache,    \* BillCache: the transactions whose answer is awaited
  expired,  \* history: those that update has swept out of it
  user,     \* BillUserManager: the tid of an account's BillUser
  restore,  \* the rows of RESTOREGOLD and RESTORECARD
  writable, \* whether the database takes an insert or a delete
  wire,     \* sent to the user server and not yet served
  answers,  \* t_cmd_ret on their way back: tid and result
  charged,  \* the user server's books: the transactions that took points
  granted   \* how often a transaction's goods were sent to the gateway

bookVars == <<wire, answers, charged>>
vars == <<bd, cache, expired, user, restore, writable, bookVars, granted>>

At == {"CONSUME", "MCARD", "CARD", "QBALANCE"}   \* CARD: AT_PCARD and AT_SCARD
Goods == {"CONSUME", "CARD"}
Tid == 1 .. Len(bd)

TypeOK ==
  /\ bd \in Seq([uid : Account, at : At]) /\ Len(bd) <= MaxTid
  /\ cache \subseteq Tid /\ expired \subseteq Tid \ cache
  /\ \A a \in Account : user[a] \in {None, Free} \cup {t \in Tid : bd[t].uid = a}
  /\ \A a \in Account, k \in Goods : ToSet(restore[a][k]) \subseteq {t \in Tid : bd[t] = [uid |-> a, at |-> k]}
  /\ wire \subseteq Tid /\ answers \subseteq Tid \X BOOLEAN /\ writable \in BOOLEAN
  /\ charged \subseteq Tid /\ granted \in [1 .. MaxTid -> Nat]

Init ==
  /\ bd = <<>> /\ cache = {} /\ expired = {}
  /\ user = [a \in Account |-> None]
  /\ restore = [a \in Account |-> [k \in Goods |-> <<>>]] /\ writable = TRUE
  /\ wire = {} /\ answers = {} /\ charged = {}
  /\ granted = [t \in 1 .. MaxTid |-> 0]

-----------------------------------------------------------------------------
\* a BillUser comes with a new session and goes with update
addUser(a) ==
  /\ user[a] = None /\ user' = [user EXCEPT ![a] = Free]
  /\ UNCHANGED <<bd, cache, expired, restore, writable, bookVars, granted>>

removeUser(a) ==
  /\ user[a] # None /\ user' = [user EXCEPT ![a] = None]
  /\ UNCHANGED <<bd, cache, expired, restore, writable, bookVars, granted>>

\* restoregold, restorecard: all rows are deleted and the first is paid
\* Seeded fault: paid although the delete failed.
RestorePays(rows) == rows # <<>>
Restores(rows) == rows # <<>> /\ writable

RestoreRows(a, k) ==
  LET rows == restore[a][k]
  IN  /\ restore' = IF writable THEN [restore EXCEPT ![a][k] = <<>>] ELSE restore
      /\ granted' = IF Restores(rows) THEN [granted EXCEPT ![Head(rows)] = @ + 1] ELSE granted

\* begin_tid comes after Bill_action: with another tid in place the player is
\* told of a failure, and the transaction is on its way
begin_tid(a, t) == IF user[a] = Free THEN [user EXCEPT ![a] = t] ELSE user

\* Bill_action: BillCache::add, sendCmd
Bill_action(a, at) ==
  /\ Len(bd) < MaxTid
  /\ bd' = Append(bd, [uid |-> a, at |-> at])
  /\ cache' = cache \cup {Len(bd')} /\ wire' = wire \cup {Len(bd')}
  /\ user' = begin_tid(a, Len(bd'))

\* without a connection, or when sendCmd fails, the player is told of a failure
Unsent == UNCHANGED <<bd, cache, wire, user>>

\* a request from the gateway for an account that has a BillUser
Request(a, at) ==
  /\ user[a] # None
  /\ Bill_action(a, at) \/ Unsent
  /\ IF at = "QBALANCE" THEN RestoreRows(a, "CONSUME")
     ELSE IF at = "CARD" THEN RestoreRows(a, "CARD")
     ELSE UNCHANGED <<restore, granted>>
  /\ UNCHANGED <<expired, writable, answers, charged>>

-----------------------------------------------------------------------------
\* BillCache::update: 60 s after it was sent; the BillUser keeps the tid
Timeout(t) ==
  /\ t \in cache /\ cache' = cache \ {t} /\ expired' = expired \cup {t}
  /\ UNCHANGED <<bd, user, restore, writable, bookVars, granted>>

\* Seeded fault: a BillUser with an empty tid is not paid either.
check_tidStrict(a, t) == user[a] = t
check_tid(a, t) == user[a] \in {Free, t}

\* Seeded fault: a refused transaction is not ended.
end_tidPaid(a, ok) == IF ok THEN [user EXCEPT ![a] = Free] ELSE user
end_tid(a, ok) == [user EXCEPT ![a] = Free]

\* redeem_gold, redeem_object_card, query_point
Redeem(a, t, ok) ==
  /\ user' = IF check_tid(a, t) THEN end_tid(a, ok) ELSE user
  /\ granted' = IF check_tid(a, t) /\ ok /\ bd[t].at \in Goods THEN [granted EXCEPT ![t] = @ + 1] ELSE granted
  /\ UNCHANGED restore

\* Seeded fault: the gold's rows go to the table of the cards.
TableCard(at) == "CARD"
Table(at) == at

\* redeem_gold_err, redeem_object_card_err; a balance is for nobody
RedeemErr(a, t, ok) ==
  /\ restore' = IF ok /\ writable /\ bd[t].at \in Goods
                THEN [restore EXCEPT ![a][Table(bd[t].at)] = Append(@, t)] ELSE restore
  /\ UNCHANGED <<user, granted>>

\* BillClient::cmdMsgParse and action; the answer for a month card is not
\* passed on
Return(t, ok) ==
  /\ <<t, ok>> \in answers /\ answers' = answers \ {<<t, ok>>}
  /\ cache' = cache \ {t}
  /\ LET a == bd[t].uid
     IN  IF t \notin cache \/ bd[t].at = "MCARD" THEN UNCHANGED <<user, restore, granted>>
         ELSE IF user[a] # None THEN Redeem(a, t, ok)
         ELSE RedeemErr(a, t, ok)
  /\ UNCHANGED <<bd, expired, writable, wire, charged>>

-----------------------------------------------------------------------------
(* outside the bill server *)

\* the user server takes the points, or refuses
Serve(t, ok) ==
  /\ t \in wire /\ wire' = wire \ {t}
  /\ answers' = answers \cup {<<t, ok>>}
  /\ charged' = IF ok /\ bd[t].at # "QBALANCE" THEN charged \cup {t} ELSE charged
  /\ UNCHANGED <<bd, cache, expired, user, restore, writable, granted>>

\* the connection to it is lost with all that is on the way; it comes again
Disconnect ==
  /\ wire # {} \/ answers # {}
  /\ wire' = {} /\ answers' = {}
  /\ UNCHANGED <<bd, cache, expired, user, restore, writable, charged, granted>>

Database ==
  /\ writable' = ~writable
  /\ UNCHANGED <<bd, cache, expired, user, restore, bookVars, granted>>

Next ==
  \/ \E a \in Account : addUser(a) \/ removeUser(a) \/ \E at \in At : Request(a, at)
  \/ \E t \in Tid : Timeout(t) \/ \E ok \in BOOLEAN : Return(t, ok) \/ Serve(t, ok)
  \/ Disconnect \/ Database

Spec == Init /\ [][Next]_vars

-----------------------------------------------------------------------------
Rows(t) == IF bd[t].at \in Goods THEN ToSet(restore[bd[t].uid][bd[t].at]) ELSE {}

\* No transaction pays twice, none that took no points pays, and one that has
\* paid is neither awaited nor in a table of what is still to be paid: the
\* cache entry is taken out before it is used, and a row is paid only when
\* the rows are deleted.
PaidOnce ==
  \A t \in Tid : granted[t] > 0 =>
    granted[t] = 1 /\ t \in charged /\ t \notin cache \cup Rows(t)

\* An account is busy, so that its next requests are answered with a failure,
\* only while its transaction is awaited, after the 60 s ran out, or for a
\* month card: every other answer ends the tid, also a refusal.
BusyIsAwaited ==
  \A a \in Account : user[a] \in Tid =>
    user[a] \in cache \cup expired \/ bd[user[a]].at = "MCARD"

\* What the answer or the table still promises the player.
Owed(t) ==
  /\ t \in charged /\ granted[t] = 0
  /\ t \in Rows(t) \/ (t \in cache /\ <<t, TRUE>> \in answers)

Lost(t) == Owed(t) /\ ~Owed(t)' /\ granted'[t] = 0

\* Gold or a card that was paid for is lost only in these ways: the
\* transaction runs out before its answer, the connection breaks, the
\* account has another tid in place, the database takes no row, or the row
\* is not the first of those a restore deletes.  In particular it is not
\* lost by a player's leaving, or leaving and coming back.
OnlyKnownLosses ==
  [][\A t \in Tid : bd[t].at \in Goods /\ Lost(t) =>
       LET a == bd[t].uid
       IN  \/ t \in expired' \/ Disconnect
           \/ user[a] \notin {None, Free, t}
           \/ ~writable
           \/ t \in Rows(t) /\ t # Head(restore[a][bd[t].at])]_vars
=============================================================================
