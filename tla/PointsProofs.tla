---------------------------- MODULE PointsProofs ----------------------------
(***************************************************************************)
(* What holds of the bill server's transactions for any number of          *)
(* accounts and transactions: types, nothing paid twice or unpaid for, and *)
(* no account busy without a reason.                                       *)
(***************************************************************************)
EXTENDS Points, TLAPS

Record == [uid : Account, at : At]

(***************************************************************************)
(* The inductive invariant.  PaidOnce alone does not say why an answer may *)
(* be trusted or why a row may be paid: what has been answered with a yes  *)
(* is charged, and a row is of a transaction that is charged, no longer    *)
(* awaited and not yet paid.                                               *)
(***************************************************************************)
Shape ==
  /\ user \in [Account -> {None, Free} \cup Tid]
  /\ restore \in [Account -> [Goods -> Seq(Tid)]]

Books ==
  /\ \A t \in Tid : <<t, TRUE>> \in answers /\ bd[t].at # "QBALANCE" => t \in charged
  /\ \A t \in Tid : t \in Rows(t) => t \in charged /\ t \notin cache /\ granted[t] = 0
  /\ \A t \in (1 .. MaxTid) \ Tid : granted[t] = 0

IInv == TypeOK /\ Shape /\ Books /\ PaidOnce /\ BusyIsAwaited

-----------------------------------------------------------------------------
(* Nothing has been sent, paid or owed at the start.                       *)
LEMMA InitIInv == Init => IInv
<1> SUFFICES ASSUME Init PROVE IInv
    OBVIOUS
<1> USE PointsAssumption DEF Init, Tid, At, Goods
<1>1. TypeOK
      BY DEF TypeOK, ToSet
<1>2. Shape
      BY DEF Shape
<1>3. Books /\ PaidOnce /\ BusyIsAwaited
      BY DEF Books, PaidOnce, BusyIsAwaited
<1> QED BY <1>1, <1>2, <1>3 DEF IInv

(* A number of a transaction is within the bound and is no mark of a user. *)
LEMMA TidFacts ==
  ASSUME TypeOK
  PROVE  /\ \A t \in Tid : t \in 1 .. MaxTid /\ t # None /\ t # Free
         /\ \A t \in Tid : bd[t] \in Record
         /\ granted \in [1 .. MaxTid -> Nat]
<1>1. Len(bd) \in Nat /\ Len(bd) <= MaxTid /\ \A t \in 1 .. Len(bd) : bd[t] \in Record
      <2>1. bd \in Seq(Record) /\ Len(bd) <= MaxTid
            BY DEF TypeOK, Record
      <2> QED BY <2>1
<1>2. \A t \in Tid : t \in 1 .. MaxTid
      BY <1>1, PointsAssumption DEF Tid
<1>3. \A t \in Tid : t # None /\ t # Free
      BY <1>2, PointsAssumption
<1> QED BY <1>1, <1>2, <1>3 DEF TypeOK, Tid

(* What a table of an account holds are its own transactions of that kind. *)
LEMMA RowsFacts ==
  ASSUME TypeOK, Shape, NEW a \in Account, NEW k \in Goods,
         NEW t \in ToSet(restore[a][k])
  PROVE  t \in Tid /\ bd[t].uid = a /\ bd[t].at = k /\ t \in Rows(t)
<1>1. t \in Tid /\ bd[t] = [uid |-> a, at |-> k]
      BY DEF TypeOK
<1> QED BY <1>1 DEF Rows

(* Steps that change no book: a user comes or goes, or the database does.  *)
LEMMA UsersAndDatabase ==
  ASSUME IInv, UNCHANGED <<bd, cache, expired, restore, bookVars, granted>>,
         writable' \in BOOLEAN,
         user' = user \/ \E a \in Account, v \in {None, Free} : user' = [user EXCEPT ![a] = v]
  PROVE  IInv'
<1> USE DEF IInv, bookVars, Tid
<1>1. \A b \in Account : user'[b] = user[b] \/ user'[b] \in {None, Free}
      BY DEF Shape
<1>2. user' \in [Account -> {None, Free} \cup Tid]
      BY DEF Shape
<1>3. TypeOK'
      BY <1>1 DEF TypeOK
<1>4. Shape'
      BY <1>2 DEF Shape
<1>5. Books' /\ PaidOnce'
      BY DEF Books, PaidOnce, Rows
<1>6. BusyIsAwaited'
      BY <1>1, TidFacts DEF BusyIsAwaited
<1> QED BY <1>3, <1>4, <1>5, <1>6

(* A transaction runs out: it is no longer awaited, and it is known to.    *)
LEMMA TimeoutStep == ASSUME IInv, NEW t \in Tid, Timeout(t) PROVE IInv'
<1> USE DEF IInv, Timeout, bookVars, Tid
<1>1. TypeOK'
      BY DEF TypeOK
<1>2. Shape'
      BY DEF Shape
<1>3. Books' /\ PaidOnce'
      BY DEF Books, PaidOnce, Rows
<1>4. BusyIsAwaited'
      BY DEF BusyIsAwaited
<1> QED BY <1>1, <1>2, <1>3, <1>4

(* The user server charges what it answers with a yes.                     *)
LEMMA ServeStep ==
  ASSUME IInv, NEW t \in Tid, NEW ok \in BOOLEAN, Serve(t, ok) PROVE IInv'
<1> USE DEF IInv, Serve, Tid
<1>1. TypeOK'
      BY DEF TypeOK
<1>2. Shape'
      BY DEF Shape
<1>3. charged \subseteq charged'
      OBVIOUS
<1>4. \A u \in Tid : <<u, TRUE>> \in answers' /\ bd[u].at # "QBALANCE" => u \in charged'
      BY <1>3 DEF Books
<1>5. Books' /\ PaidOnce'
      BY <1>3, <1>4 DEF Books, PaidOnce, Rows
<1>6. BusyIsAwaited'
      BY DEF BusyIsAwaited
<1> QED BY <1>1, <1>2, <1>5, <1>6

(* With the connection go the promises, not the books.                     *)
LEMMA DisconnectStep == ASSUME IInv, Disconnect PROVE IInv'
<1> USE DEF IInv, Disconnect, Tid
<1>1. TypeOK'
      BY DEF TypeOK
<1>2. Shape' /\ Books' /\ PaidOnce' /\ BusyIsAwaited'
      BY DEF Shape, Books, PaidOnce, BusyIsAwaited, Rows
<1> QED BY <1>1, <1>2

-----------------------------------------------------------------------------
(* The answer to a transaction that is awaited: it is no longer in the     *)
(* cache, and what it pays or writes was neither paid nor written before.  *)
LEMMA AwaitedIsUnpaid ==
  ASSUME IInv, NEW t \in cache
  PROVE  /\ t \in Tid /\ granted[t] = 0 /\ t \notin Rows(t)
         /\ \A a \in Account, k \in Goods : t \notin ToSet(restore[a][k])
<1>1. t \in Tid /\ granted[t] \in Nat
      BY TidFacts DEF IInv, TypeOK
<1>2. granted[t] = 0 /\ t \notin Rows(t)
      BY <1>1 DEF IInv, PaidOnce, Books
<1> QED BY <1>1, <1>2, RowsFacts DEF IInv

(* The player is there: paid once, or refused, and no longer busy.         *)
LEMMA ReturnRedeem ==
  ASSUME IInv, NEW t \in Tid, NEW ok \in BOOLEAN, Return(t, ok),
         t \in cache, bd[t].at # "MCARD", user[bd[t].uid] # None
  PROVE  IInv'
<1> DEFINE a == bd[t].uid
<1> USE DEF IInv, Tid
<1>1. /\ <<t, ok>> \in answers /\ answers' \subseteq answers /\ cache' = cache \ {t}
      /\ UNCHANGED <<bd, expired, writable, wire, charged, restore>>
      /\ user' = IF check_tid(a, t) THEN end_tid(a, ok) ELSE user
      /\ granted' = IF check_tid(a, t) /\ ok /\ bd[t].at \in Goods THEN [granted EXCEPT ![t] = @ + 1] ELSE granted
      BY DEF Return, Redeem
<1>2. a \in Account
      BY TidFacts DEF Record
<1>3. \A b \in Account : user'[b] = user[b] \/ user'[b] = Free
      BY <1>1, <1>2 DEF Shape, end_tid
<1>4. user' \in [Account -> {None, Free} \cup Tid]
      BY <1>1, <1>2 DEF Shape, end_tid
<1>5. t \in 1 .. MaxTid /\ granted \in [1 .. MaxTid -> Nat]
      BY TidFacts
<1>6. granted' \in [1 .. MaxTid -> Nat]
      BY <1>1, <1>5
<1>7. TypeOK'
      BY <1>1, <1>3, <1>6 DEF TypeOK
<1>8. Shape'
      BY <1>1, <1>4 DEF Shape
<1>9. \A u \in 1 .. MaxTid : u # t => granted'[u] = granted[u]
      BY <1>1, <1>5
<1>10. granted'[t] = 0 \/ (granted'[t] = 1 /\ t \in charged)
      <2>1. granted[t] = 0
            BY AwaitedIsUnpaid
      <2>2. ok /\ bd[t].at \in Goods => t \in charged
            BY <1>1 DEF Books, Goods
      <2> QED BY <1>1, <1>5, <2>1, <2>2
<1>11. \A u \in Tid : Rows(u)' = Rows(u)
      BY <1>1 DEF Rows
<1>12. Books'
      <2>1. \A u \in Tid : u \in Rows(u) => u # t
            BY AwaitedIsUnpaid
      <2> QED BY <1>1, <1>9, <1>11, <2>1, TidFacts DEF Books
<1>13. PaidOnce'
      BY <1>1, <1>9, <1>10, <1>11, TidFacts, AwaitedIsUnpaid DEF PaidOnce
<1>14. BusyIsAwaited'
      <2>1. SUFFICES ASSUME NEW b \in Account, user'[b] \in Tid
                     PROVE  user'[b] \in cache' \cup expired \/ bd[user'[b]].at = "MCARD"
            BY <1>1 DEF BusyIsAwaited
      <2>2. user'[b] = user[b]
            BY <1>3, <2>1, TidFacts
      <2>3. user[b] = t => b = a
            BY <2>1, TidFacts DEF TypeOK
      <2>4. user[b] # t
            BY <1>1, <2>1, <2>2, <2>3, TidFacts DEF check_tid, end_tid, Shape
      <2> QED BY <1>1, <2>1, <2>2, <2>4 DEF BusyIsAwaited
<1> QED BY <1>7, <1>8, <1>12, <1>13, <1>14

(* A row more is the transaction more.                                     *)
LEMMA AppendedRow ==
  ASSUME NEW S, NEW rows \in Seq(S), NEW t \in S
  PROVE  ToSet(Append(rows, t)) = ToSet(rows) \cup {t}
<1> DEFINE n == Len(rows)
           more == Append(rows, t)
<1>1. n \in Nat /\ DOMAIN rows = 1 .. n /\ DOMAIN more = 1 .. (n + 1)
      OBVIOUS
<1>2. more[n + 1] = t /\ \A i \in 1 .. n : more[i] = rows[i]
      OBVIOUS
<1>3. 1 .. (n + 1) = (1 .. n) \cup {n + 1}
      BY <1>1
<1> HIDE DEF n, more
<1>4. ToSet(more) = {rows[i] : i \in 1 .. n} \cup {t}
      BY <1>1, <1>2, <1>3 DEF ToSet
<1> QED BY <1>1, <1>4 DEF ToSet, more

(* The player has gone: the row is written, unless it cannot be.           *)
LEMMA ReturnRedeemErr ==
  ASSUME IInv, NEW t \in Tid, NEW ok \in BOOLEAN, Return(t, ok),
         t \in cache, bd[t].at # "MCARD", user[bd[t].uid] = None
  PROVE  IInv'
<1> DEFINE a == bd[t].uid
           k == bd[t].at
<1> USE DEF IInv, Tid
<1>1. /\ <<t, ok>> \in answers /\ answers' \subseteq answers /\ cache' = cache \ {t}
      /\ UNCHANGED <<bd, expired, writable, wire, charged, user, granted>>
      /\ restore' = IF ok /\ writable /\ k \in Goods
                    THEN [restore EXCEPT ![a][k] = Append(@, t)] ELSE restore
      BY DEF Return, RedeemErr, Table
<1>2. a \in Account
      BY TidFacts DEF Record
<1>3. ASSUME NEW b \in Account, NEW g \in Goods
      PROVE  /\ restore'[b][g] \in Seq(Tid)
             /\ ToSet(restore'[b][g]) = ToSet(restore[b][g])
                \/ /\ ToSet(restore'[b][g]) = ToSet(restore[b][g]) \cup {t}
                   /\ b = a /\ g = k /\ ok
      <2>1. restore[b][g] \in Seq(Tid)
            BY DEF Shape
      <2>2. CASE restore'[b][g] = restore[b][g]
            BY <2>1, <2>2
      <2>3. CASE restore'[b][g] # restore[b][g]
            <3>1. b = a /\ g = k /\ ok /\ restore'[b][g] = Append(restore[b][g], t)
                  BY <1>1, <2>3 DEF Shape
            <3>2. ToSet(Append(restore[b][g], t)) = ToSet(restore[b][g]) \cup {t}
                  BY <2>1, AppendedRow
            <3>3. Append(restore[b][g], t) \in Seq(Tid)
                  BY <2>1
            <3> QED BY <3>1, <3>2, <3>3
      <2> QED BY <2>2, <2>3
<1>4. Shape'
      <2>1. restore' \in [Account -> [Goods -> Seq(Tid)]]
            BY <1>1, <1>2 DEF Shape
      <2> QED BY <1>1, <2>1 DEF Shape
<1>5. bd[t] = [uid |-> a, at |-> k]
      BY TidFacts DEF Record
<1>6. TypeOK'
      <2>1. ASSUME NEW b \in Account, NEW g \in Goods
            PROVE  ToSet(restore'[b][g]) \subseteq {u \in Tid : bd[u] = [uid |-> b, at |-> g]}
            <3>1. ToSet(restore[b][g]) \subseteq {u \in Tid : bd[u] = [uid |-> b, at |-> g]}
                  BY DEF TypeOK
            <3>2. b = a /\ g = k => t \in {u \in Tid : bd[u] = [uid |-> b, at |-> g]}
                  BY <1>5
            <3>3. ToSet(restore'[b][g]) \subseteq ToSet(restore[b][g]) \cup {t}
                  /\ (t \in ToSet(restore'[b][g]) => t \in ToSet(restore[b][g]) \/ (b = a /\ g = k))
                  BY <1>3
            <3> QED BY <3>1, <3>2, <3>3
      <2> QED BY <1>1, <2>1 DEF TypeOK
<1>7. \A u \in Tid : Rows(u)' \subseteq Rows(u) \cup (IF ok /\ k \in Goods THEN {t} ELSE {})
      <2>1. SUFFICES ASSUME NEW u \in Tid, bd[u].at \in Goods
                     PROVE  Rows(u)' \subseteq Rows(u) \cup (IF ok /\ k \in Goods THEN {t} ELSE {})
            BY <1>1 DEF Rows
      <2>2. bd[u].uid \in Account
            BY TidFacts DEF Record
      <2>3. /\ Rows(u)' = ToSet(restore'[bd[u].uid][bd[u].at])
            /\ Rows(u) = ToSet(restore[bd[u].uid][bd[u].at])
            BY <1>1, <2>1 DEF Rows
      <2>4. \/ Rows(u)' = Rows(u)
            \/ Rows(u)' = Rows(u) \cup {t} /\ bd[u].at = k /\ ok
            BY <1>3, <2>1, <2>2, <2>3
      <2> QED BY <2>1, <2>4
<1>8. ok /\ k \in Goods => t \in charged
      BY <1>1 DEF Books, Goods
<1>9. Books'
      BY <1>1, <1>7, <1>8, AwaitedIsUnpaid DEF Books
<1>10. PaidOnce'
      BY <1>1, <1>7, AwaitedIsUnpaid DEF PaidOnce
<1>11. BusyIsAwaited'
      <2>1. \A b \in Account : user[b] # t
            BY TidFacts DEF TypeOK
      <2> QED BY <1>1, <2>1 DEF BusyIsAwaited
<1> QED BY <1>4, <1>6, <1>9, <1>10, <1>11

(* An answer nobody awaits, or to a month card, which is not passed on.    *)
LEMMA ReturnStep ==
  ASSUME IInv, NEW t \in Tid, NEW ok \in BOOLEAN, Return(t, ok) PROVE IInv'
<1> USE DEF IInv, Tid
<1>1. CASE t \notin cache \/ bd[t].at = "MCARD"
      <2>1. /\ answers' \subseteq answers /\ cache' = cache \ {t}
            /\ UNCHANGED <<bd, expired, writable, wire, charged, user, restore, granted>>
            BY <1>1 DEF Return
      <2>2. TypeOK' /\ Shape'
            BY <2>1 DEF TypeOK, Shape
      <2>3. Books' /\ PaidOnce'
            BY <2>1 DEF Books, PaidOnce, Rows
      <2>4. BusyIsAwaited'
            BY <1>1, <2>1 DEF BusyIsAwaited
      <2> QED BY <2>2, <2>3, <2>4
<1>2. CASE t \in cache /\ bd[t].at # "MCARD"
      BY <1>2, ReturnRedeem, ReturnRedeemErr
<1> QED BY <1>1, <1>2

-----------------------------------------------------------------------------
(***************************************************************************)
(* A request.  It sends at most one transaction, whose number is new and   *)
(* so in no book, and it pays at most one row of the account.              *)
(***************************************************************************)
(* What Bill_action does to the transactions, the cache and the user.      *)
SentOne(a, at) ==
  /\ Tid' = Tid \cup {Len(bd')} /\ Len(bd') \in (1 .. MaxTid) \ Tid
  /\ bd'[Len(bd')] = [uid |-> a, at |-> at]
  /\ cache' = cache \cup {Len(bd')} /\ wire' = wire \cup {Len(bd')}
  /\ user' = begin_tid(a, Len(bd'))

Sent(a, at) ==
  /\ bd' \in Seq(Record) /\ Len(bd') <= MaxTid
  /\ Tid \subseteq Tid' /\ \A t \in Tid : bd'[t] = bd[t]
  /\ SentOne(a, at) \/ (Tid' = Tid /\ UNCHANGED <<cache, wire, user>>)

\* A request sends a transaction with a new number, or none.
LEMMA RequestSends ==
  ASSUME IInv, NEW a \in Account, NEW at \in At, Request(a, at) PROVE Sent(a, at)
<1>1. bd \in Seq(Record) /\ Len(bd) <= MaxTid
      BY DEF IInv, TypeOK, Record
<1>2. CASE Unsent
      BY <1>1, <1>2 DEF Unsent, Sent, Tid
<1>3. CASE Bill_action(a, at)
      <2> DEFINE r == [uid |-> a, at |-> at]
      <2>1. r \in Record /\ bd' = Append(bd, r) /\ Len(bd) < MaxTid
            BY <1>3 DEF Bill_action, Record
      <2>2. /\ bd' \in Seq(Record) /\ Len(bd') = Len(bd) + 1 /\ Len(bd) \in Nat
            /\ bd'[Len(bd) + 1] = r /\ \A t \in 1 .. Len(bd) : bd'[t] = bd[t]
            BY <1>1, <2>1
      <2>3. /\ Tid' = Tid \cup {Len(bd')} /\ Len(bd') \in (1 .. MaxTid) \ Tid
            /\ Len(bd') <= MaxTid
            BY <2>1, <2>2, PointsAssumption DEF Tid
      <2>4. SentOne(a, at)
            BY <1>3, <2>2, <2>3 DEF Bill_action, SentOne
      <2> QED BY <2>2, <2>3, <2>4 DEF Sent, Tid
<1> QED BY <1>2, <1>3 DEF Request

(* The rows of the account are left, or all are deleted and one is paid.   *)
Paid(a, k) ==
  \/ UNCHANGED <<restore, granted>>
  \/ /\ restore' = [restore EXCEPT ![a][k] = <<>>]
     /\ \/ granted' = granted
        \/ \E t \in ToSet(restore[a][k]) : granted' = [granted EXCEPT ![t] = @ + 1]

\* A request pays at most one row of a restore table of the account, which it empties.
LEMMA RequestPays ==
  ASSUME IInv, NEW a \in Account, NEW at \in At, Request(a, at)
  PROVE  \E k \in Goods : Paid(a, k)
<1>1. ASSUME NEW k \in Goods, RestoreRows(a, k) PROVE Paid(a, k)
      <2> DEFINE rows == restore[a][k]
      <2>1. rows \in Seq(Tid)
            BY DEF IInv, Shape
      <2>2. rows # <<>> => Head(rows) \in ToSet(rows)
            BY <2>1 DEF ToSet
      <2>3. CASE Restores(rows)
            BY <1>1, <2>2, <2>3 DEF RestoreRows, Restores, Paid
      <2>4. CASE ~Restores(rows)
            BY <1>1, <2>4 DEF RestoreRows, Paid
      <2> QED BY <2>3, <2>4
<1>2. "CONSUME" \in Goods /\ "CARD" \in Goods
      BY DEF Goods
<1> QED BY <1>1, <1>2 DEF Request, Paid

(* What a request sends is in no book, and the row it pays in none after.  *)
LEMMA RequestStep ==
  ASSUME IInv, NEW a \in Account, NEW at \in At, Request(a, at) PROVE IInv'
<1> DEFINE new == Len(bd')
<1>1. Sent(a, at) /\ UNCHANGED <<expired, writable, answers, charged>> /\ user[a] # None
      BY RequestSends DEF Request
<1>2. PICK k \in Goods : Paid(a, k)
      BY RequestPays
<1>3. /\ TypeOK /\ Shape /\ Books /\ PaidOnce /\ BusyIsAwaited
      /\ \A t \in Tid : bd[t] \in Record /\ t \in 1 .. MaxTid /\ t # None /\ t # Free
      /\ granted \in [1 .. MaxTid -> Nat]
      BY TidFacts DEF IInv
<1>4. /\ Tid \subseteq Tid' /\ Tid' \subseteq Tid \cup {new} /\ Tid' \subseteq 1 .. MaxTid
      /\ \A t \in Tid : bd'[t] = bd[t]
      /\ Tid' # Tid => /\ SentOne(a, at) /\ new \notin Tid
                       /\ bd'[new] = [uid |-> a, at |-> at]
      BY <1>1, <1>3 DEF Sent, SentOne
<1>5. /\ cache \subseteq cache' /\ cache' \subseteq cache \cup (Tid' \ Tid)
      /\ wire' \subseteq wire \cup (Tid' \ Tid)
      /\ cache' \cap Tid = cache
      <2>1. cache \subseteq Tid
            BY <1>3 DEF TypeOK
      <2>2. CASE SentOne(a, at)
            BY <1>3, <1>4, <2>1, <2>2 DEF SentOne
      <2>3. CASE UNCHANGED <<cache, wire, user>>
            BY <2>1, <2>3
      <2> QED BY <1>1, <2>2, <2>3 DEF Sent
<1>6. \A b \in Account : \/ user'[b] = user[b]
                         \/ b = a /\ user'[b] = new /\ new \in cache' /\ new \in Tid' /\ bd'[new].uid = a
      BY <1>1, <1>3 DEF Sent, SentOne, begin_tid, Shape
<1>7. ASSUME NEW b \in Account, NEW g \in Goods
      PROVE  /\ restore'[b][g] \in Seq(Tid)
             /\ ToSet(restore'[b][g]) \subseteq ToSet(restore[b][g])
      <2>1. restore[b][g] \in Seq(Tid)
            BY <1>3 DEF Shape
      <2>2. ToSet(<<>>) = {}
            BY DEF ToSet
      <2>3. restore'[b][g] = restore[b][g] \/ restore'[b][g] = <<>>
            <3>1. CASE restore' = restore
                  BY <3>1
            <3>2. CASE restore' = [restore EXCEPT ![a][k] = <<>>]
                  BY <1>3, <3>2 DEF Shape
            <3> QED BY <1>2, <3>1, <3>2 DEF Paid
      <2>4. CASE restore'[b][g] = restore[b][g]
            BY <2>1, <2>4
      <2>5. CASE restore'[b][g] = <<>>
            <3>1. <<>> \in Seq(Tid)
                  OBVIOUS
            <3> QED BY <2>2, <2>5, <3>1
      <2> QED BY <2>3, <2>4, <2>5
<1>8. /\ granted' \in [1 .. MaxTid -> Nat]
      /\ \A t \in 1 .. MaxTid :
           \/ granted'[t] = granted[t]
           \/ /\ granted'[t] = granted[t] + 1 /\ t \in ToSet(restore[a][k])
              /\ restore'[a][k] = <<>>
      <2>1. CASE granted' = granted
            BY <1>3, <2>1
      <2>2. ASSUME NEW u \in ToSet(restore[a][k]), granted' = [granted EXCEPT ![u] = @ + 1],
                   restore' = [restore EXCEPT ![a][k] = <<>>]
            PROVE  /\ granted' \in [1 .. MaxTid -> Nat]
                   /\ \A t \in 1 .. MaxTid :
                        granted'[t] = granted[t] \/ (granted'[t] = granted[t] + 1 /\ t = u)
                   /\ restore'[a][k] = <<>>
            <3>1. restore'[a][k] = <<>>
                  BY <1>3, <2>2 DEF Shape
            <3>2. granted' \in [1 .. MaxTid -> Nat]
                  <4>1. u \in 1 .. MaxTid
                        BY <1>3, RowsFacts
                  <4>2. granted[u] + 1 \in Nat
                        BY <1>3, <4>1
                  <4> QED BY <1>3, <2>2, <4>1, <4>2
            <3>3. \A t \in 1 .. MaxTid : granted'[t] = granted[t] \/ (granted'[t] = granted[t] + 1 /\ t = u)
                  BY <1>3, <2>2
            <3> QED BY <3>1, <3>2, <3>3
      <2> QED BY <1>2, <2>1, <2>2 DEF Paid
<1>9. Shape'
      <2>1. user' \in [Account -> {None, Free} \cup Tid']
            BY <1>1, <1>3, <1>4 DEF Sent, SentOne, begin_tid, Shape
      <2>2. \A b \in Account, g \in Goods : restore'[b][g] \in Seq(Tid')
            <3>1. SUFFICES ASSUME NEW b \in Account, NEW g \in Goods PROVE restore'[b][g] \in Seq(Tid')
                  OBVIOUS
            <3> DEFINE rows == restore'[b][g]
            <3>2. rows \in Seq(Tid)
                  BY <1>7
            <3> HIDE DEF rows
            <3>3. Len(rows) \in Nat /\ DOMAIN rows = 1 .. Len(rows) /\ \A i \in 1 .. Len(rows) : rows[i] \in Tid
                  BY <3>2
            <3>4. rows = [i \in 1 .. Len(rows) |-> rows[i]]
                  BY <3>2
            <3>5. rows \in [1 .. Len(rows) -> Tid']
                  BY <1>4, <3>3, <3>4
            <3> QED BY <3>3, <3>5 DEF rows
      <2>3. /\ DOMAIN restore' = Account /\ restore' = [b \in Account |-> restore'[b]]
            /\ \A b \in Account : restore'[b] = [g \in Goods |-> restore'[b][g]]
            <3>1. CASE restore' = restore
                  BY <1>3, <3>1 DEF Shape
            <3>2. CASE restore' = [restore EXCEPT ![a][k] = <<>>]
                  BY <1>3, <3>2 DEF Shape
            <3> QED BY <1>2, <3>1, <3>2 DEF Paid
      <2>4. restore' \in [Account -> [Goods -> Seq(Tid')]]
            BY <2>2, <2>3
      <2> QED BY <2>1, <2>4 DEF Shape
<1>10. TypeOK'
      <2>1. bd' \in Seq([uid : Account, at : At]) /\ Len(bd') <= MaxTid
            BY <1>1 DEF Sent, Record
      <2>2. cache' \subseteq Tid' /\ expired' \subseteq Tid' \ cache'
            BY <1>1, <1>3, <1>4, <1>5 DEF TypeOK
      <2>3. \A b \in Account : user'[b] \in {None, Free} \cup {t \in Tid' : bd'[t].uid = b}
            <3>1. SUFFICES ASSUME NEW b \in Account
                  PROVE  user'[b] \in {None, Free} \/ (user'[b] \in Tid' /\ bd'[user'[b]].uid = b)
                  OBVIOUS
            <3>2. user[b] \in {None, Free} \/ (user[b] \in Tid /\ bd[user[b]].uid = b)
                  BY <1>3 DEF TypeOK
            <3> QED BY <1>4, <1>6, <3>2
      <2>4. \A b \in Account, g \in Goods :
              ToSet(restore'[b][g]) \subseteq {t \in Tid' : bd'[t] = [uid |-> b, at |-> g]}
            <3>1. SUFFICES ASSUME NEW b \in Account, NEW g \in Goods
                  PROVE  ToSet(restore'[b][g]) \subseteq {t \in Tid' : bd'[t] = [uid |-> b, at |-> g]}
                  OBVIOUS
            <3>2. ToSet(restore[b][g]) \subseteq {t \in Tid : bd[t] = [uid |-> b, at |-> g]}
                  BY <1>3 DEF TypeOK
            <3> QED BY <1>4, <1>7, <3>2
      <2>5. /\ wire' \subseteq Tid' /\ answers' \subseteq Tid' \X BOOLEAN /\ writable' \in BOOLEAN
            /\ charged' \subseteq Tid'
            BY <1>1, <1>3, <1>4, <1>5 DEF TypeOK
      <2> QED BY <1>8, <2>1, <2>2, <2>3, <2>4, <2>5 DEF TypeOK
<1>11. \A t \in Tid' : t \in Rows(t)' => t \in Tid /\ t \in Rows(t)
      <2>1. SUFFICES ASSUME NEW t \in Tid', t \in Rows(t)' PROVE t \in Tid /\ t \in Rows(t)
            OBVIOUS
      <2> DEFINE b == bd'[t].uid
                 g == bd'[t].at
      <2>2. g \in Goods /\ t \in ToSet(restore'[b][g])
            BY <2>1 DEF Rows
      <2>3. b \in Account
            <3>1. bd' \in Seq(Record) /\ t \in 1 .. Len(bd')
                  BY <1>1 DEF Sent, Tid
            <3>2. bd'[t] \in Record
                  BY <3>1
            <3> QED BY <3>2 DEF Record
      <2>4. t \in ToSet(restore[b][g])
            BY <1>7, <2>2, <2>3
      <2> QED BY <1>3, <2>2, <2>3, <2>4, RowsFacts
<1>12. ASSUME NEW t \in 1 .. MaxTid, granted'[t] # granted[t]
      PROVE  /\ t \in Tid /\ t \in charged /\ t \notin cache /\ granted'[t] = 1
             /\ t \notin Rows(t)'
      <2>1. t \in ToSet(restore[a][k]) /\ restore'[a][k] = <<>> /\ granted'[t] = granted[t] + 1
            BY <1>8, <1>12
      <2>2. t \in Tid /\ bd[t].uid = a /\ bd[t].at = k /\ t \in Rows(t)
            BY <1>3, <2>1, RowsFacts
      <2>3. t \in charged /\ t \notin cache /\ granted[t] = 0
            BY <1>3, <2>2 DEF Books
      <2>4. Rows(t)' = {}
            BY <1>4, <2>1, <2>2 DEF Rows, ToSet
      <2> QED BY <2>1, <2>2, <2>3, <2>4
<1>13. Books'
      <2>1. \A t \in Tid' : <<t, TRUE>> \in answers' /\ bd'[t].at # "QBALANCE" => t \in charged'
            BY <1>1, <1>3, <1>4 DEF Books, TypeOK
      <2>2. \A t \in Tid' : t \in Rows(t)' => t \in charged' /\ t \notin cache' /\ granted'[t] = 0
            BY <1>1, <1>3, <1>4, <1>5, <1>11, <1>12 DEF Books
      <2>3. \A t \in (1 .. MaxTid) \ Tid' : granted'[t] = 0
            BY <1>3, <1>4, <1>12 DEF Books
      <2> QED BY <2>1, <2>2, <2>3 DEF Books
<1>14. PaidOnce'
      <2>1. SUFFICES ASSUME NEW t \in Tid', granted'[t] > 0
                     PROVE  granted'[t] = 1 /\ t \in charged' /\ t \notin cache' /\ t \notin Rows(t)'
            BY DEF PaidOnce
      <2>2. t \in 1 .. MaxTid
            BY <1>4
      <2>3. CASE granted'[t] # granted[t]
            BY <1>1, <1>5, <1>12, <2>2, <2>3
      <2>4. CASE granted'[t] = granted[t]
            <3>1. t \in Tid
                  BY <1>3, <2>1, <2>2, <2>4 DEF Books
            <3> QED BY <1>1, <1>3, <1>5, <1>11, <2>1, <2>4, <3>1 DEF PaidOnce
      <2> QED BY <2>3, <2>4
<1>15. BusyIsAwaited'
      <2>1. SUFFICES ASSUME NEW b \in Account, user'[b] \in Tid'
                     PROVE  user'[b] \in cache' \cup expired' \/ bd'[user'[b]].at = "MCARD"
            BY DEF BusyIsAwaited
      <2>2. CASE user'[b] = user[b]
            <3>1. user[b] \in Tid
                  BY <1>4, <2>1, <2>2, <1>3, PointsAssumption DEF TypeOK
            <3> QED BY <1>1, <1>3, <1>4, <1>5, <2>2, <3>1 DEF BusyIsAwaited
      <2>3. CASE user'[b] # user[b]
            BY <1>6, <2>3
      <2> QED BY <2>2, <2>3
<1> QED BY <1>9, <1>10, <1>13, <1>14, <1>15 DEF IInv

-----------------------------------------------------------------------------
(* Every step keeps the invariant.                                         *)
LEMMA InductiveStep == IInv /\ [Next]_vars => IInv'
<1> SUFFICES ASSUME IInv, [Next]_vars PROVE IInv'
    OBVIOUS
<1>1. ASSUME NEW a \in Account, addUser(a) \/ removeUser(a) PROVE IInv'
      <2>1. /\ UNCHANGED <<bd, cache, expired, restore, writable, bookVars, granted>>
            /\ \E v \in {None, Free} : user' = [user EXCEPT ![a] = v]
            BY <1>1 DEF addUser, removeUser
      <2> QED BY <2>1, UsersAndDatabase DEF IInv, TypeOK
<1>2. ASSUME Database \/ UNCHANGED vars PROVE IInv'
      <2>1. /\ UNCHANGED <<bd, cache, expired, restore, bookVars, granted, user>>
            /\ writable' \in BOOLEAN
            BY <1>2 DEF Database, vars, IInv, TypeOK
      <2> QED BY <2>1, UsersAndDatabase
<1> QED BY <1>1, <1>2, RequestStep, TimeoutStep, ReturnStep, ServeStep, DisconnectStep DEF Next

(* A transaction, the account and the books are what they are typed to be. *)
THEOREM PointsTypeCorrect == Spec => []TypeOK
<1>1. IInv => TypeOK
      BY DEF IInv
<1> QED BY <1>1, InitIInv, InductiveStep, PTL DEF Spec

(* Nothing is paid twice, unpaid for, or paid while it may still be paid.  *)
THEOREM NothingPaidTwice == Spec => []PaidOnce
<1>1. IInv => PaidOnce
      BY DEF IInv
<1> QED BY <1>1, InitIInv, InductiveStep, PTL DEF Spec

(* No account is busy but for an answer it waits for, one that ran out, or *)
(* a month card.                                                           *)
THEOREM NobodyBusyWithoutReason == Spec => []BusyIsAwaited
<1>1. IInv => BusyIsAwaited
      BY DEF IInv
<1> QED BY <1>1, InitIInv, InductiveStep, PTL DEF Spec

-----------------------------------------------------------------------------
(***************************************************************************)
(* The losses.  That an answer's promise ends only as OnlyKnownLosses says *)
(* needs one more fact: no transaction is answered twice, or both ways.    *)
(***************************************************************************)
OneAnswer ==
  /\ \A t \in wire, ok \in BOOLEAN : <<t, ok>> \notin answers
  /\ \A t \in Tid : <<t, TRUE>> \notin answers \/ <<t, FALSE>> \notin answers

(* A number is sent once and served once, so it is answered once.          *)
LEMMA OneAnswerStep == IInv /\ OneAnswer /\ [Next]_vars => OneAnswer'
<1> SUFFICES ASSUME IInv, OneAnswer, [Next]_vars PROVE OneAnswer'
    OBVIOUS
<1>1. CASE wire' \subseteq wire /\ answers' \subseteq answers /\ Tid' = Tid
      BY <1>1 DEF OneAnswer
<1>2. ASSUME NEW a \in Account, NEW at \in At, Request(a, at) PROVE OneAnswer'
      <2>1. /\ answers' = answers /\ answers \subseteq Tid \X BOOLEAN
            /\ Tid' = Tid \/ Tid' = Tid \cup {Len(bd')}
            /\ wire' = wire \/ (wire' = wire \cup {Len(bd')} /\ Len(bd') \notin Tid)
            BY <1>2, RequestSends DEF Request, Sent, SentOne, IInv, TypeOK
      <2> QED BY <2>1 DEF OneAnswer
<1>3. ASSUME NEW t \in Tid, NEW ok \in BOOLEAN, Serve(t, ok) PROVE OneAnswer'
      BY <1>3 DEF Serve, OneAnswer, Tid
<1>4. ASSUME NEW t \in Tid, NEW ok \in BOOLEAN, Return(t, ok) PROVE OneAnswer'
      BY <1>1, <1>4 DEF Return, Tid
<1>5. ASSUME NEW a \in Account, addUser(a) \/ removeUser(a) PROVE OneAnswer'
      BY <1>1, <1>5 DEF addUser, removeUser, bookVars, Tid
<1>6. ASSUME NEW t \in Tid, Timeout(t) PROVE OneAnswer'
      BY <1>1, <1>6 DEF Timeout, bookVars, Tid
<1>7. ASSUME Disconnect \/ Database \/ UNCHANGED vars PROVE OneAnswer'
      BY <1>1, <1>7 DEF Disconnect, Database, vars, bookVars, Tid
<1> QED BY <1>2, <1>3, <1>4, <1>5, <1>6, <1>7 DEF Next

(* One step of OnlyKnownLosses: the ways in which t is lost.               *)
KnownLoss(t) ==
  LET a == bd[t].uid
  IN  \/ t \in expired' \/ Disconnect
      \/ user[a] \notin {None, Free, t}
      \/ ~writable
      \/ t \in Rows(t) /\ t # Head(restore[a][bd[t].at])

(* What keeps the promise to t: its row stays, its answer is still awaited.*)
LEMMA StillOwed ==
  ASSUME NEW t, Owed(t), granted'[t] = 0, charged \subseteq charged',
         t \in Rows(t) => t \in Rows(t)',
         t \in cache /\ <<t, TRUE>> \in answers => \/ t \in Rows(t)'
                                                   \/ t \in cache' /\ <<t, TRUE>> \in answers'
  PROVE  Owed(t)'
BY DEF Owed

(* A request loses the rows it deletes beside the one it pays.             *)
LEMMA RequestLoses ==
  ASSUME IInv, NEW a \in Account, NEW at \in At, Request(a, at),
         NEW t \in Tid, bd[t].at \in Goods, Lost(t)
  PROVE  KnownLoss(t)
<1> DEFINE b == bd[t].uid
           g == bd[t].at
<1>1. /\ Owed(t) /\ ~Owed(t)' /\ granted'[t] = 0 /\ granted[t] = 0
      BY DEF Lost, Owed
<1>2. /\ bd'[t] = bd[t] /\ cache \subseteq cache' /\ answers' = answers /\ charged' = charged
      BY RequestSends DEF Request, Sent, SentOne
<1>3. t \in Rows(t) /\ t \notin Rows(t)'
      BY <1>1, <1>2, StillOwed
<1>4. Rows(t) = ToSet(restore[b][g]) /\ Rows(t)' = ToSet(restore'[b][g])
      BY <1>2 DEF Rows
<1>5. PICK k \in Goods : RestoreRows(a, k)
      <2>1. restore' # restore
            BY <1>3, <1>4
      <2> QED BY <2>1 DEF Request, Goods
<1>6. CASE ~writable
      BY <1>6 DEF KnownLoss
<1>7. CASE writable
      <2>1. restore' = [restore EXCEPT ![a][k] = <<>>]
            BY <1>5, <1>7 DEF RestoreRows
      <2>2. b \in Account /\ restore \in [Account -> [Goods -> Seq(Tid)]]
            BY TidFacts DEF IInv, Record, Shape
      <2>3. b = a /\ g = k
            BY <1>3, <1>4, <2>1, <2>2
      <2>4. restore[a][k] # <<>>
            BY <1>3, <1>4, <2>3 DEF ToSet
      <2>5. granted' = [granted EXCEPT ![Head(restore[a][k])] = @ + 1]
            BY <1>5, <1>7, <2>4 DEF RestoreRows, Restores
      <2>6. t # Head(restore[a][k])
            <3>1. t \in 1 .. MaxTid /\ granted \in [1 .. MaxTid -> Nat]
                  BY TidFacts DEF IInv
            <3> QED BY <1>1, <2>5, <3>1
      <2> QED BY <1>3, <2>3, <2>6 DEF KnownLoss
<1> QED BY <1>6, <1>7

(* An answer is lost with another tid in place, or for want of a row.      *)
LEMMA ReturnLoses ==
  ASSUME IInv, OneAnswer, NEW u \in Tid, NEW ok \in BOOLEAN, Return(u, ok),
         NEW t \in Tid, bd[t].at \in Goods, Lost(t)
  PROVE  KnownLoss(t)
<1> DEFINE a == bd[t].uid
           k == bd[t].at
<1>1. /\ Owed(t) /\ ~Owed(t)' /\ granted'[t] = 0 /\ granted[t] = 0
      BY DEF Lost, Owed
<1>2. /\ UNCHANGED <<bd, expired, writable, wire, charged>>
      /\ <<u, ok>> \in answers /\ answers' = answers \ {<<u, ok>>} /\ cache' = cache \ {u}
      BY DEF Return
<1>3. /\ a \in Account /\ k \in Goods /\ restore \in [Account -> [Goods -> Seq(Tid)]]
      /\ t \in 1 .. MaxTid /\ granted \in [1 .. MaxTid -> Nat]
      BY TidFacts DEF IInv, Record, Shape
<1>4. Rows(t) = ToSet(restore[a][k]) /\ Rows(t)' = ToSet(restore'[a][k])
      BY <1>2 DEF Rows
<1>5. restore'[a][k] = restore[a][k] \/ restore'[a][k] = Append(restore[a][k], u)
      <2>1. \/ restore' = restore
            \/ restore' = [restore EXCEPT ![bd[u].uid][bd[u].at] = Append(@, u)]
            BY DEF Return, Redeem, RedeemErr, Table
      <2>2. CASE restore' = restore
            BY <2>2
      <2>3. CASE restore' = [restore EXCEPT ![bd[u].uid][bd[u].at] = Append(@, u)]
            <3>1. CASE bd[u].uid = a /\ bd[u].at = k
                  BY <1>3, <2>3, <3>1
            <3>2. CASE bd[u].uid # a \/ bd[u].at # k
                  BY <1>3, <2>3, <3>2
            <3> QED BY <3>1, <3>2
      <2> QED BY <2>1, <2>2, <2>3
<1>6. Rows(t) \subseteq Rows(t)'
      <2>1. restore[a][k] \in Seq(Tid)
            BY <1>3
      <2>2. ToSet(Append(restore[a][k], u)) = ToSet(restore[a][k]) \cup {u}
            BY <2>1, AppendedRow
      <2>3. ToSet(restore[a][k]) \subseteq ToSet(restore'[a][k])
            BY <1>5, <2>2
      <2> QED BY <1>4, <2>3
<1>7. u = t /\ t \in cache /\ <<t, TRUE>> \in answers /\ t \notin Rows(t)'
      <2>1. t \in cache /\ <<t, TRUE>> \in answers /\ t \notin Rows(t)'
            BY <1>1, <1>2, <1>6, StillOwed
      <2>2. ~(t \in cache' /\ <<t, TRUE>> \in answers')
            BY <1>1, <1>2, <1>6, StillOwed
      <2> QED BY <1>2, <2>1, <2>2
<1>8. ok = TRUE
      BY <1>2, <1>7 DEF OneAnswer
<1>9. IF user[a] # None THEN Redeem(a, t, ok) ELSE RedeemErr(a, t, ok)
      BY <1>7 DEF Return, Goods
<1>10. CASE user[a] # None
      <2>1. ~check_tid(a, t)
            <3>1. SUFFICES ASSUME check_tid(a, t) PROVE FALSE
                  OBVIOUS
            <3>2. granted' = [granted EXCEPT ![t] = @ + 1]
                  BY <1>3, <1>8, <1>9, <1>10, <3>1 DEF Redeem
            <3> QED BY <1>1, <1>3, <3>2
      <2> QED BY <1>10, <2>1 DEF check_tid, KnownLoss
<1>11. CASE user[a] = None
      <2>1. CASE ~writable
            BY <2>1 DEF KnownLoss
      <2>2. CASE writable
            <3>1. restore' = [restore EXCEPT ![a][k] = Append(@, t)]
                  BY <1>3, <1>8, <1>9, <1>11, <2>2 DEF RedeemErr, Table
            <3>2. restore'[a][k] = Append(restore[a][k], t) /\ restore[a][k] \in Seq(Tid)
                  BY <1>3, <3>1
            <3>3. t \in Rows(t)'
                  <4>1. ToSet(Append(restore[a][k], t)) = ToSet(restore[a][k]) \cup {t}
                        BY <3>2, AppendedRow
                  <4>2. t \in ToSet(restore'[a][k])
                        BY <3>2, <4>1
                  <4> QED BY <1>4, <4>2
            <3> QED BY <1>7, <3>3
      <2> QED BY <2>1, <2>2
<1> QED BY <1>10, <1>11

(* Gold or a card that was paid for is lost only in the ways listed.       *)
THEOREM LossesAreKnown == Spec => OnlyKnownLosses
<1>1. Init => OneAnswer
      BY DEF Init, OneAnswer
<1>2. IInv /\ OneAnswer /\ [Next]_vars =>
        [\A t \in Tid : bd[t].at \in Goods /\ Lost(t) =>
           LET a == bd[t].uid
           IN  \/ t \in expired' \/ Disconnect
               \/ user[a] \notin {None, Free, t}
               \/ ~writable
               \/ t \in Rows(t) /\ t # Head(restore[a][bd[t].at])]_vars
      <2> SUFFICES ASSUME IInv, OneAnswer, Next, NEW t \in Tid, bd[t].at \in Goods, Lost(t)
                   PROVE  KnownLoss(t)
          BY DEF KnownLoss
      <2>1. Owed(t) /\ ~Owed(t)' /\ granted'[t] = 0
            BY DEF Lost
      <2>2. ASSUME UNCHANGED <<bd, restore>>, charged \subseteq charged',
                   t \in cache => t \in cache', answers \subseteq answers'
            PROVE  FALSE
            <3>1. Rows(t)' = Rows(t)
                  BY <2>2 DEF Rows
            <3> QED BY <2>1, <2>2, <3>1, StillOwed
      <2>3. ASSUME NEW a \in Account, addUser(a) \/ removeUser(a) PROVE FALSE
            BY <2>2, <2>3 DEF addUser, removeUser, bookVars
      <2>4. ASSUME NEW u \in Tid, Timeout(u) PROVE KnownLoss(t)
            BY <2>2, <2>4 DEF Timeout, bookVars, KnownLoss
      <2>5. ASSUME NEW u \in Tid, NEW ok \in BOOLEAN, Serve(u, ok) PROVE FALSE
            BY <2>2, <2>5 DEF Serve
      <2>6. ASSUME Database PROVE FALSE
            BY <2>2, <2>6 DEF Database, bookVars
      <2>7. ASSUME Disconnect PROVE KnownLoss(t)
            BY <2>7 DEF KnownLoss
      <2> QED BY <2>3, <2>4, <2>5, <2>6, <2>7, RequestLoses, ReturnLoses DEF Next
<1> QED BY <1>1, <1>2, InitIInv, InductiveStep, OneAnswerStep, PTL DEF Spec, OnlyKnownLosses
=============================================================================
