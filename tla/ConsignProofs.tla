---------------------------- MODULE ConsignProofs ----------------------------
(***************************************************************************)
(* What holds of the exchange for any accounts, sums and prices, and any    *)
(* number of orders: types, that no balance becomes negative, that no two   *)
(* orders that could be traded are left, and that no step makes or loses    *)
(* gold or money but where Conserved says so.                               *)
(***************************************************************************)
EXTENDS Consign, FiniteSetTheorems, WellFoundedInduction, TLAPS

(***************************************************************************)
(* Numbers                                                                 *)
(***************************************************************************)
\* Division with rest.
LEMMA Division ==
  ASSUME NEW a \in Nat, NEW b \in Nat \ {0}
  PROVE  /\ a \div b \in Nat /\ a % b \in Nat /\ a % b < b
         /\ a = (a \div b) * b + (a % b) /\ (a \div b) * b <= a
OBVIOUS

\* Less than what is there is taken.
LEMMA Times ==
  ASSUME NEW a \in Nat, NEW b \in Nat, NEW n \in Nat, n <= a
  PROVE  n * b \in Nat /\ a * b \in Nat /\ n * b <= a * b /\ a * b - n * b = (a - n) * b
OBVIOUS

Multiple(a, b) == \E q \in Nat : a = q * b

\* A multiple of b from which n times b is taken is one still, and less than b
\* only when nothing is left.
LEMMA Multiples ==
  ASSUME NEW a \in Nat, NEW b \in Nat \ {0}
  PROVE  /\ a % b = 0 => Multiple(a, b)
         /\ Multiple(a, b) /\ a < b => a = 0
         /\ Multiple(a, b) /\ a \div b = 0 => a = 0
         /\ \A n \in Nat : n <= a \div b => n * b \in Nat /\ n * b <= a
                                         /\ (Multiple(a, b) => Multiple(a - n * b, b))
<1>1. /\ a \div b \in Nat /\ a % b \in Nat /\ a % b < b
      /\ a = (a \div b) * b + (a % b) /\ (a \div b) * b <= a
  BY Division
<1>2. a % b = 0 => Multiple(a, b)
  BY <1>1 DEF Multiple
<1>3. ASSUME Multiple(a, b), a < b PROVE a = 0
  <2>1. PICK q \in Nat : a = q * b
    BY <1>3 DEF Multiple
  <2>2. q # 0 => b <= q * b
    OBVIOUS
  <2> QED  BY <1>3, <2>1, <2>2
<1>4. a \div b = 0 => a < b
  BY <1>1
<1>5. ASSUME NEW n \in Nat, n <= a \div b
      PROVE  n * b \in Nat /\ n * b <= a /\ (Multiple(a, b) => Multiple(a - n * b, b))
  <2> DEFINE d == a \div b
  <2>1. d \in Nat /\ d * b <= a /\ n <= d
    BY <1>1, <1>5
  <2> HIDE DEF d
  <2>2. n * b \in Nat /\ n * b <= a
    <3>1. n * b \in Nat /\ d * b \in Nat /\ n * b <= d * b
      BY <2>1, Times
    <3> QED  BY <2>1, <3>1
  <2>3. ASSUME Multiple(a, b) PROVE Multiple(a - n * b, b)
    <3>1. PICK q \in Nat : a = q * b
      BY <2>3 DEF Multiple
    <3>2. n <= q
      <4>1. n > q => n * b >= q * b + b
        OBVIOUS
      <4> QED  BY <2>2, <3>1, <4>1
    <3>3. a - n * b = (q - n) * b /\ q - n \in Nat
      BY <3>1, <3>2, Times
    <3> QED  BY <3>3 DEF Multiple
  <2> QED  BY <2>2, <2>3
<1> QED  BY <1>2, <1>3, <1>4, <1>5

\* The smaller of two numbers.
LEMMA MinIs ==
  ASSUME NEW a \in Nat, NEW b \in Nat
  PROVE  Min({a, b}) \in Nat /\ Min({a, b}) <= a /\ Min({a, b}) <= b
<1>1. \E x \in {a, b} : \A y \in {a, b} : x <= y
  <2>1. CASE a <= b
    BY <2>1
  <2>2. CASE b <= a
    BY <2>2
  <2> QED  BY <2>1, <2>2
<1>2. Min({a, b}) \in {a, b} /\ \A y \in {a, b} : Min({a, b}) <= y
  BY <1>1 DEF Min
<1> QED  BY <1>2

\* The writes that fail are counted, and none is when the count is not raised.
Faults == {"read", "add", "remove", "tax", "take", "back", "insert", "row", "rest", "history", "seller", "buyer"}

\* A set of writes that fail is finite, and empty when it has no element.
LEMMA FaultsCount ==
  ASSUME NEW f \in SUBSET Faults
  PROVE  Cardinality(f) \in Nat /\ (Cardinality(f) = 0 => f = {})
<1>1. IsFiniteSet({})
  BY FS_EmptySet
<1>2. \A S, x : IsFiniteSet(S) => IsFiniteSet(S \cup {x})
  BY FS_AddElement
<1>3. IsFiniteSet({"read", "add", "remove", "tax"})
  <2>1. IsFiniteSet({"read"})
    BY <1>1, <1>2, {"read"} = {} \cup {"read"}
  <2>2. IsFiniteSet({"read", "add"})
    BY <1>2, <2>1, {"read", "add"} = {"read"} \cup {"add"}
  <2>3. IsFiniteSet({"read", "add", "remove"})
    BY <1>2, <2>2, {"read", "add", "remove"} = {"read", "add"} \cup {"remove"}
  <2> QED  BY <1>2, <2>3, {"read", "add", "remove", "tax"} = {"read", "add", "remove"} \cup {"tax"}
<1>4. IsFiniteSet({"take", "back", "insert", "row"})
  <2>1. IsFiniteSet({"take"})
    BY <1>1, <1>2, {"take"} = {} \cup {"take"}
  <2>2. IsFiniteSet({"take", "back"})
    BY <1>2, <2>1, {"take", "back"} = {"take"} \cup {"back"}
  <2>3. IsFiniteSet({"take", "back", "insert"})
    BY <1>2, <2>2, {"take", "back", "insert"} = {"take", "back"} \cup {"insert"}
  <2> QED  BY <1>2, <2>3, {"take", "back", "insert", "row"} = {"take", "back", "insert"} \cup {"row"}
<1>5. IsFiniteSet({"rest", "history", "seller", "buyer"})
  <2>1. IsFiniteSet({"rest"})
    BY <1>1, <1>2, {"rest"} = {} \cup {"rest"}
  <2>2. IsFiniteSet({"rest", "history"})
    BY <1>2, <2>1, {"rest", "history"} = {"rest"} \cup {"history"}
  <2>3. IsFiniteSet({"rest", "history", "seller"})
    BY <1>2, <2>2, {"rest", "history", "seller"} = {"rest", "history"} \cup {"seller"}
  <2> QED  BY <1>2, <2>3, {"rest", "history", "seller", "buyer"} = {"rest", "history", "seller"} \cup {"buyer"}
<1>6. IsFiniteSet(Faults)
  <2> DEFINE A == {"read", "add", "remove", "tax"}  B == {"take", "back", "insert", "row"}
             C == {"rest", "history", "seller", "buyer"}
  <2>1. Faults = (A \cup B) \cup C
    BY DEF Faults
  <2> HIDE DEF A, B, C
  <2>2. IsFiniteSet(A) /\ IsFiniteSet(B) /\ IsFiniteSet(C)
    BY <1>3, <1>4, <1>5 DEF A, B, C
  <2>3. IsFiniteSet(A \cup B)
    BY <2>2, FS_Union
  <2> QED  BY <2>1, <2>2, <2>3, FS_Union
<1>7. IsFiniteSet(f)
  BY <1>6, FS_Subset
<1> QED  BY <1>7, FS_CardinalityType, FS_EmptySet

(***************************************************************************)
(* Accounts                                                                *)
(***************************************************************************)
Good(x) == /\ x \in [row : Balance, user : {None} \cup BillUser]
           /\ \A k \in Coin : x.row.have[k] >= 0
           /\ x.user # None => \A k \in Coin : x.user.bal.have[k] >= 0

\* A copy with n more of the coin.
Raised(h, coin, n) == [h EXCEPT ![coin] = @ + n]

\* Changing the balance by way of the copy, if this does not become negative.
LEMMA AddGood ==
  ASSUME NEW x, Good(x), x.user # None, NEW coin \in Coin, NEW n \in Int, NEW tax \in Int, x.user.bal.have[coin] + n >= 0
  PROVE  LET y == Add(x, coin, n, tax)
         IN  Good(y) /\ y.user # None /\ y.user.bal.have = Raised(x.user.bal.have, coin, n)
<1> DEFINE h == Raised(x.user.bal.have, coin, n)  g == Raised(x.user.bal.tax, coin, tax)
           row == [have |-> [x.row.have EXCEPT ![coin] = h[coin]], tax |-> [x.row.tax EXCEPT ![coin] = g[coin]]]
           user == [login |-> x.user.login, bal |-> [have |-> h, tax |-> g]]
<1>1. x.row \in Balance /\ x.user \in BillUser
  BY DEF Good
<1>2. /\ x.row.have \in [Coin -> Int] /\ x.row.tax \in [Coin -> Int] /\ x.user.login \in BOOLEAN
      /\ x.user.bal.have \in [Coin -> Int] /\ x.user.bal.tax \in [Coin -> Int]
  BY <1>1 DEF Balance, BillUser
<1>3. h \in [Coin -> Int] /\ g \in [Coin -> Int] /\ h[coin] = x.user.bal.have[coin] + n
      /\ \A k \in Coin \ {coin} : h[k] = x.user.bal.have[k]
  BY <1>2 DEF Raised
<1>4. Add(x, coin, n, tax) = [row |-> row, user |-> user]
  BY DEF Add, Raised
<1> HIDE DEF h, g
<1>5. row \in Balance /\ row.have[coin] = h[coin] /\ \A k \in Coin \ {coin} : row.have[k] = x.row.have[k]
  BY <1>2, <1>3 DEF Balance
<1>6. user \in BillUser /\ user.bal.have = h
  BY <1>2, <1>3 DEF BillUser, Balance
<1> HIDE DEF row, user
<1>7. user # None
  BY <1>6, NoneIsNoUser
<1>8. (\A k \in Coin : row.have[k] >= 0) /\ \A k \in Coin : user.bal.have[k] >= 0
  BY <1>3, <1>5, <1>6 DEF Good
<1>9. Good([row |-> row, user |-> user])
  BY <1>5, <1>6, <1>8 DEF Good
<1> QED  BY <1>4, <1>6, <1>7, <1>9 DEF h

\* Raising the row.
LEMMA AddRowGood ==
  ASSUME NEW x, Good(x), NEW coin \in Coin, NEW n \in Nat
  PROVE  Good(AddRow(x, coin, n))
<1> DEFINE row == [x.row EXCEPT !.have[coin] = @ + n]
<1>1. /\ x = [row |-> x.row, user |-> x.user] /\ x.user \in {None} \cup BillUser
      /\ x.row = [have |-> x.row.have, tax |-> x.row.tax] /\ x.row.have \in [Coin -> Int] /\ x.row.tax \in [Coin -> Int]
  BY DEF Good, Balance
<1>2. row = [have |-> [x.row.have EXCEPT ![coin] = @ + n], tax |-> x.row.tax]
  BY <1>1
<1>3. AddRow(x, coin, n) = [row |-> row, user |-> x.user]
  BY <1>1 DEF AddRow
<1>4. row \in Balance /\ \A k \in Coin : row.have[k] >= 0
  BY <1>1, <1>2 DEF Good, Balance
<1> HIDE DEF row
<1> QED  BY <1>1, <1>3, <1>4 DEF Good

\* Whoever is paid, by the copy or in the row, has not less than before.
LEMMA PayGood ==
  ASSUME NEW x, Good(x), NEW coin \in Coin, NEW n \in Nat
  PROVE  Good(Pay(x, coin, n))
<1>1. CASE x.user # None
  <2>1. x.user.bal.have[coin] \in Int /\ x.user.bal.have[coin] >= 0
    BY <1>1 DEF Good, BillUser, Balance
  <2>2. x.user.bal.have[coin] + n >= 0
    BY <2>1
  <2> QED  BY <1>1, <2>2, AddGood DEF Pay
<1>2. CASE x.user = None
  BY <1>2, AddRowGood DEF Pay
<1> QED  BY <1>1, <1>2

(***************************************************************************)
(* The inductive invariant for the types: what TypeOK says, and besides that  *)
(* no copy of a balance is negative (it may be written over the row) and that  *)
(* an order's number is used once in both tables (Set finds the table by the    *)
(* order).                                                                  *)
(***************************************************************************)
GoodAcct == {x \in [row : Balance, user : {None} \cup BillUser] : Good(x)}
Trading == [op : {"trade"}, coin : Coin, list : Order, num : Nat, sys : Nat]

AcctInv == acct \in [Account -> GoodAcct]
ListInv == /\ list \in [Coin -> SUBSET Order]
           /\ \A k, l \in Coin : \A o \in list[k], p \in list[l] : o.id = p.id => k = l /\ o = p
           /\ \A k \in Coin : \A o \in list[k] : o.id <= orders
ActInv  == \/ act \in {Idle} \cup [op : {"start"}, coin : Coin] \cup {[op |-> "cancelAll"]}
           \/ act \in Trading /\ act.list \in list[act.coin]
Counts  == /\ orders \in Nat /\ fails \in Nat /\ orders + fails <= MaxOrder
RestInv == /\ spread \in Nat /\ pack \in [Account -> [Coin -> 0 .. MaxPack]]
           /\ swept \subseteq Account /\ odd \in BOOLEAN

ConsignInv == AcctInv /\ ListInv /\ ActInv /\ Counts /\ RestInv

\* Good accounts as a set.
LEMMA GoodIs == \A x : Good(x) <=> x \in GoodAcct
BY DEF Good, GoodAcct

\* The fields of an order, and the same order with another number.
LEMMA OrderIs ==
  ASSUME NEW o \in Order
  PROVE  /\ o.id \in Nat /\ o.accid \in Account /\ o.num \in Nat \ {0} /\ o.price \in Nat \ {0} /\ o.price \in Price
         /\ \A n \in Nat \ {0} : /\ [o EXCEPT !.num = n] \in Order
                                 /\ [o EXCEPT !.num = n].id = o.id /\ [o EXCEPT !.num = n].num = n
                                 /\ [o EXCEPT !.num = n].price = o.price /\ [o EXCEPT !.num = n].accid = o.accid
BY ConsignAssumption DEF Order

\* The invariant says all that TypeOK says.
LEMMA InvTypes == ConsignInv => TypeOK
<1> SUFFICES ASSUME ConsignInv PROVE TypeOK
  OBVIOUS
<1>1. \A a \in Account : acct[a].row \in Balance /\ acct[a].user \in {None} \cup BillUser
                         /\ \A k \in Coin : acct[a].row.have[k] >= 0
  BY DEF ConsignInv, AcctInv, GoodAcct, Good
<1>2. \A k \in Coin : list[k] \subseteq Order /\ \A o, p \in list[k] : o.id = p.id => o = p
  BY DEF ConsignInv, ListInv
<1>3. \/ act \in {Idle} \cup [op : {"start"}, coin : Coin] \cup {[op |-> "cancelAll"]}
      \/ /\ act.op = "trade" /\ act.coin \in Coin /\ act.num \in Nat /\ act.sys \in Nat
         /\ act.list \in list[act.coin]
  BY DEF ConsignInv, ActInv, Trading
<1> QED  BY <1>1, <1>2, <1>3 DEF TypeOK, ConsignInv, Counts, RestInv

\* What Failing says of the counters.
LEMMA FailingIs ==
  ASSUME Counts, NEW f \in SUBSET Faults, NEW put \in Nat, Failing(f, put)
  PROVE  Counts' /\ orders' = orders + put /\ (fails' = 0 => fails = 0 /\ f = {})
<1>1. Cardinality(f) \in Nat /\ (Cardinality(f) = 0 => f = {})
  BY FaultsCount
<1> QED  BY <1>1, ConsignAssumption DEF Counts, Failing

\* Set changes the row of o in its own table.
LEMMA SetIs ==
  ASSUME ListInv, NEW coin \in Coin, NEW o \in list[coin], NEW num \in Nat
  PROVE  /\ Set(o, num) \in [Coin -> SUBSET Order]
         /\ Set(o, num)[coin] = (list[coin] \ {o}) \cup (IF num = 0 THEN {} ELSE {[o EXCEPT !.num = num]})
         /\ \A k \in Coin \ {coin} : Set(o, num)[k] = list[k]
<1>1. o \in Order /\ (num # 0 => [o EXCEPT !.num = num] \in Order)
  BY OrderIs DEF ListInv
<1>2. (IF o \in list["gold"] THEN "gold" ELSE "money") = coin
  <2>1. CASE coin = "gold"
    BY <2>1
  <2>2. CASE coin = "money"
    <3>1. o \in list["gold"] => "gold" = "money"
      BY <2>2 DEF ListInv, Coin
    <3> QED  BY <2>2, <3>1
  <2> QED  BY <2>1, <2>2 DEF Coin
<1>3. Set(o, num) = [list EXCEPT ![coin] = (@ \ {o}) \cup (IF num = 0 THEN {} ELSE {[o EXCEPT !.num = num]})]
  BY <1>2 DEF Set
<1> QED  BY <1>1, <1>3 DEF ListInv

\* Changing the row of one order keeps the numbers of all orders apart.
LEMMA SetKeeps ==
  ASSUME ListInv, Counts, NEW coin \in Coin, NEW o \in list[coin], NEW num \in Nat, list' = Set(o, num), orders' = orders
  PROVE  ListInv'
<1>1. /\ list' \in [Coin -> SUBSET Order]
      /\ list'[coin] = (list[coin] \ {o}) \cup (IF num = 0 THEN {} ELSE {[o EXCEPT !.num = num]})
      /\ \A k \in Coin \ {coin} : list'[k] = list[k]
  BY SetIs
<1>2. o \in Order /\ (num # 0 => [o EXCEPT !.num = num].id = o.id)
  BY OrderIs DEF ListInv
<1>3. ASSUME NEW k \in Coin, NEW p \in list'[k]
      PROVE  \/ p \in list[k] /\ p # o
             \/ k = coin /\ num # 0 /\ p = [o EXCEPT !.num = num] /\ p.id = o.id
  <2>1. CASE k = coin
    BY <1>1, <1>2, <1>3, <2>1
  <2>2. CASE k # coin
    <3>1. p \in list[k]
      BY <1>1, <1>3, <2>2
    <3>2. p # o
      BY <3>1, <2>2 DEF ListInv
    <3> QED  BY <3>1, <3>2
  <2> QED  BY <2>1, <2>2
<1>4. ASSUME NEW k \in Coin, NEW l \in Coin, NEW p \in list'[k], NEW q \in list'[l], p.id = q.id PROVE k = l /\ p = q
  <2>1. CASE p \in list[k] /\ q \in list[l]
    BY <1>4, <2>1 DEF ListInv
  <2>2. CASE p \in list[k] /\ p # o /\ l = coin /\ q.id = o.id
    BY <1>4, <2>2 DEF ListInv
  <2>3. CASE q \in list[l] /\ q # o /\ k = coin /\ p.id = o.id
    BY <1>4, <2>3 DEF ListInv
  <2>4. CASE k = coin /\ p = [o EXCEPT !.num = num] /\ l = coin /\ q = [o EXCEPT !.num = num]
    BY <2>4
  <2> QED  BY <1>3, <2>1, <2>2, <2>3, <2>4
<1>5. ASSUME NEW k \in Coin, NEW p \in list'[k] PROVE p.id <= orders'
  BY <1>3 DEF ListInv
<1> QED  BY <1>1, <1>4, <1>5 DEF ListInv

\* One account changes.
LEMMA AcctKeeps ==
  ASSUME AcctInv, NEW a, NEW x, Good(x), acct' = [acct EXCEPT ![a] = x]
  PROVE  AcctInv'
BY GoodIs DEF AcctInv

\* An account is good, and what a copy has is a number.
LEMMA AcctIs ==
  ASSUME AcctInv, NEW a \in Account
  PROVE  /\ Good(acct[a])
         /\ acct[a].user # None => \A k \in Coin : acct[a].user.bal.have[k] \in Nat
<1>1. Good(acct[a])
  BY DEF AcctInv, GoodAcct
<1> QED  BY <1>1 DEF Good, BillUser, Balance

\* Only the BillUser of an account changes.
LEMMA UserIs ==
  ASSUME NEW x, NEW r, NEW u, NEW v, x = [row |-> r, user |-> u]
  PROVE  [x EXCEPT !.user = v] = [row |-> r, user |-> v]
OBVIOUS

\* The players' requests, each in an idle main loop.
LEMMA UserKeeps ==
  ASSUME ConsignInv, NEW a \in Account, addUser(a) \/ login(a) \/ removeUser(a)
  PROVE  ConsignInv'
<1>0. AcctInv /\ ListInv /\ ActInv /\ Counts /\ RestInv
  BY DEF ConsignInv
<1>1. CASE addUser(a)
  <2> DEFINE u == [login |-> FALSE, bal |-> Zero]
             x == [acct[a] EXCEPT !.user = u]
  <2>1. Zero \in Balance /\ \A k \in Coin : Zero.have[k] = 0
    BY DEF Zero, Balance
  <2>2. acct[a].row \in Balance /\ (\A k \in Coin : acct[a].row.have[k] >= 0)
        /\ acct[a] = [row |-> acct[a].row, user |-> acct[a].user]
    BY <1>0, AcctIs DEF Good
  <2>3. x = [row |-> acct[a].row, user |-> u]
    <3> HIDE DEF u
    <3> QED  BY <2>2, UserIs
  <2>4. [login |-> FALSE, bal |-> Zero] \in BillUser
    BY <2>1 DEF BillUser
  <2>6. acct' = [acct EXCEPT ![a] = x]
    BY <1>1 DEF addUser
  <2> HIDE DEF x
  <2>5. Good(x)
    BY <2>1, <2>2, <2>3, <2>4 DEF Good
  <2>7. AcctInv'
    BY <1>0, <2>5, <2>6, AcctKeeps
  <2>8. UNCHANGED <<list, spread, pack, act, orders, fails, swept, odd>>
    BY <1>1 DEF addUser
  <2> QED  BY <1>0, <2>7, <2>8 DEF ConsignInv, ListInv, ActInv, Counts, RestInv
<1>2. CASE login(a)
  <2>1. PICK f \in SUBSET {"read"} :
          /\ Failing(f, 0)
          /\ acct' = [acct EXCEPT ![a].user =
                        [login |-> TRUE, bal |-> IF f = {} THEN acct[a].row ELSE @.bal]]
          /\ swept' = IF f = {} THEN swept ELSE swept \cup {a}
    BY <1>2 DEF login
  <2> DEFINE bal == IF f = {} THEN acct[a].row ELSE acct[a].user.bal
             u == [login |-> TRUE, bal |-> bal]
             x == [acct[a] EXCEPT !.user = u]
  <2>2. acct[a].row \in Balance /\ (\A k \in Coin : acct[a].row.have[k] >= 0)
        /\ acct[a] = [row |-> acct[a].row, user |-> acct[a].user]
        /\ acct[a].user \in BillUser /\ \A k \in Coin : acct[a].user.bal.have[k] >= 0
    BY <1>0, <1>2, AcctIs DEF Good, login
  <2>3. bal \in Balance /\ \A k \in Coin : bal.have[k] >= 0
    BY <2>2 DEF BillUser
  <2>4. x = [row |-> acct[a].row, user |-> u]
    <3> HIDE DEF u
    <3> QED  BY <2>2, UserIs
  <2>5. acct' = [acct EXCEPT ![a] = x]
    BY <2>1
  <2> HIDE DEF bal
  <2>6. Good(x)
    BY <2>2, <2>3, <2>4 DEF Good, BillUser
  <2> HIDE DEF x
  <2>7. AcctInv'
    BY <1>0, <2>5, <2>6, AcctKeeps
  <2>8. UNCHANGED <<list, spread, pack, act, odd>>
    BY <1>2 DEF login
  <2>9. Counts' /\ orders' = orders
    <3>1. f \in SUBSET Faults /\ orders + 0 = orders
      BY <1>0 DEF Faults, Counts
    <3> QED  BY <1>0, <2>1, <3>1, FailingIs
  <2>10. swept' \subseteq Account
    BY <1>0, <2>1 DEF RestInv
  <2> QED  BY <1>0, <2>7, <2>8, <2>9, <2>10 DEF ConsignInv, ListInv, ActInv, RestInv
<1>3. CASE removeUser(a)
  <2> DEFINE x == [acct[a] EXCEPT !.user = None]
  <2>1. acct[a].row \in Balance /\ (\A k \in Coin : acct[a].row.have[k] >= 0)
        /\ acct[a] = [row |-> acct[a].row, user |-> acct[a].user]
    BY <1>0, AcctIs DEF Good
  <2>2. x = [row |-> acct[a].row, user |-> None]
    BY <2>1
  <2>3. Good(x)
    BY <2>1, <2>2 DEF Good
  <2>4. acct' = [acct EXCEPT ![a] = x]
    BY <1>3 DEF removeUser
  <2> HIDE DEF x
  <2>5. AcctInv'
    BY <1>0, <2>3, <2>4, AcctKeeps
  <2>6. UNCHANGED <<list, spread, pack, act, orders, fails, odd>> /\ swept' = swept \ {a}
    BY <1>3 DEF removeUser
  <2> QED  BY <1>0, <2>5, <2>6 DEF ConsignInv, ListInv, ActInv, Counts, RestInv
<1> QED  BY <1>1, <1>2, <1>3

\* What a player deposits or withdraws.
LEMMA MoveKeeps ==
  ASSUME ConsignInv, NEW a \in Account, NEW coin \in Coin, NEW n \in Amount, Save(a, coin, n) \/ Fetch(a, coin, n)
  PROVE  ConsignInv'
<1>0. AcctInv /\ ListInv /\ ActInv /\ Counts /\ RestInv /\ n \in Nat
  BY ConsignAssumption DEF ConsignInv
<1>1. acct[a].user # None /\ UNCHANGED <<list, spread, act, swept, odd>>
  BY DEF Save, Fetch, Has
<1>2. Good(acct[a]) /\ acct[a].user.bal.have[coin] \in Nat
  BY <1>0, <1>1, AcctIs
<1>3. \E f \in SUBSET Faults : Failing(f, 0)
  <2>1. SUBSET {"add"} \subseteq SUBSET Faults /\ SUBSET {"remove"} \subseteq SUBSET Faults
    BY DEF Faults
  <2> QED  BY <2>1 DEF Save, Fetch
<1>4. Counts' /\ orders' = orders
  BY <1>0, <1>3, FailingIs DEF Counts
<1>5. pack' \in [Account -> [Coin -> 0 .. MaxPack]]
  <2>1. pack[a] \in [Coin -> 0 .. MaxPack] /\ pack[a][coin] \in 0 .. MaxPack /\ MaxPack \in Nat
    BY <1>0, ConsignAssumption DEF RestInv
  <2>2. CASE Save(a, coin, n)
    <3>1. pack' = [pack EXCEPT ![a][coin] = @ - n] /\ n <= pack[a][coin]
      BY <2>2 DEF Save
    <3> QED  BY <1>0, <2>1, <3>1 DEF RestInv
  <2>3. CASE Fetch(a, coin, n)
    <3>1. pack' = [pack EXCEPT ![a][coin] = @ + n] /\ pack[a][coin] + n <= MaxPack
      BY <2>3 DEF Fetch
    <3> QED  BY <1>0, <2>1, <3>1 DEF RestInv
  <2> QED  BY <2>2, <2>3
<1>6. AcctInv'
  <2>1. CASE acct' = acct
    BY <1>0, <2>1 DEF AcctInv
  <2>2. CASE Save(a, coin, n) /\ acct' # acct
    <3>1. acct' = [acct EXCEPT ![a] = Add(acct[a], coin, n, 0)]
      BY <2>2 DEF Save
    <3>2. Good(Add(acct[a], coin, n, 0))
      BY <1>0, <1>1, <1>2, AddGood
    <3> QED  BY <1>0, <3>1, <3>2, AcctKeeps
  <2>3. CASE Fetch(a, coin, n) /\ acct' # acct
    <3>1. acct' = [acct EXCEPT ![a] = Add(acct[a], coin, -n, 0)] /\ n <= acct[a].user.bal.have[coin]
      BY <2>3 DEF Fetch
    <3>2. -n \in Int /\ acct[a].user.bal.have[coin] + (-n) >= 0
      BY <1>0, <1>2, <3>1
    <3>3. Good(Add(acct[a], coin, -n, 0))
      BY <1>1, <1>2, <3>2, AddGood
    <3> QED  BY <1>0, <3>1, <3>3, AcctKeeps
  <2> QED  BY <2>1, <2>2, <2>3
<1> QED  BY <1>0, <1>1, <1>4, <1>5, <1>6 DEF ConsignInv, ListInv, ActInv, RestInv

\* A new order: it has the next number.
LEMMA PutIs ==
  ASSUME ConsignInv, NEW a \in Account, NEW coin \in Coin, NEW num \in Num, NEW price \in Price,
         putList(a, coin, num, price)
  PROVE  /\ AcctInv' /\ Counts' /\ UNCHANGED <<spread, pack, swept>> /\ act = Idle /\ orders' = orders + 1
         /\ (fails' = 0 => fails = 0)
         /\ \/ /\ list' = list /\ act' = act /\ odd' = odd
            \/ LET row == [id |-> orders + 1, accid |-> a, num |-> num, price |-> price]
               IN  /\ row \in Order /\ list' = [list EXCEPT ![coin] = @ \cup {row}]
                   /\ act' = [op |-> "start", coin |-> coin]
                   /\ odd' = (odd \/ (coin = "money" /\ num % price # 0))
<1>0. AcctInv /\ ListInv /\ ActInv /\ Counts /\ RestInv /\ num \in Nat \ {0} /\ MaxOrder \in Nat
      /\ orders \in Nat
  BY ConsignAssumption DEF ConsignInv, Counts
<1> DEFINE row == [id |-> orders + 1, accid |-> a, num |-> num, price |-> price]
           x == acct[a]
           y == Add(x, coin, -Tax(num), Tax(num))
<1>1. PICK f \in SUBSET {"tax", "take", "back", "insert"} :
        LET taxed == "tax" \notin f /\ Tax(num) <= x.user.bal.have[coin]
            taken == taxed /\ "take" \notin f /\ num <= y.user.bal.have[coin]
            put   == taken /\ "insert" \notin f
        IN  /\ Failing(f, 1)
            /\ acct' = [acct EXCEPT ![a] = IF taken THEN Add(y, coin, -num, 0)
                                           ELSE IF taxed /\ "back" \in f THEN y
                                           ELSE IF taxed THEN Add(y, coin, Tax(num), -Tax(num))
                                           ELSE x]
            /\ list' = IF put THEN [list EXCEPT ![coin] = @ \cup {row}] ELSE list
            /\ act'  = IF put THEN [op |-> "start", coin |-> coin] ELSE act
            /\ odd'  = (odd \/ (put /\ coin = "money" /\ num % price # 0))
  BY DEF putList
<1>2. act = Idle /\ Has(a) /\ orders < MaxOrder /\ UNCHANGED <<spread, pack, swept>>
  BY DEF putList
<1>3. f \in SUBSET Faults
  BY DEF Faults
<1>4. Counts' /\ orders' = orders + 1 /\ (fails' = 0 => fails = 0)
  BY <1>0, <1>1, <1>3, FailingIs
<1>5. Good(x) /\ x.user # None /\ x.user.bal.have[coin] \in Nat /\ Tax(num) \in Nat
  <2>1. num \div TaxUnit \in Nat
    BY <1>0, ConsignAssumption, Division
  <2> QED  BY <1>0, <1>2, <2>1, AcctIs DEF Has, Tax
<1>6. PICK z : /\ acct' = [acct EXCEPT ![a] = z]
               /\ \/ z = x
                  \/ Tax(num) <= x.user.bal.have[coin] /\ z \in {y, Add(y, coin, Tax(num), -Tax(num))}
                  \/ Tax(num) <= x.user.bal.have[coin] /\ num <= y.user.bal.have[coin] /\ z = Add(y, coin, -num, 0)
  BY <1>1
<1>7. Good(z)
  <2>1. CASE z = x
    BY <1>5, <2>1
  <2>2. ASSUME Tax(num) <= x.user.bal.have[coin]
        PROVE  /\ Good(y) /\ y.user # None /\ y.user.bal.have[coin] \in Nat
               /\ y.user.bal.have[coin] + Tax(num) >= 0
    <3>1. -Tax(num) \in Int /\ x.user.bal.have[coin] + (-Tax(num)) >= 0
      BY <1>5, <2>2
    <3>2. Good(y) /\ y.user # None
      BY <1>5, <3>1, AddGood
    <3>3. y.user.bal.have[coin] \in Int /\ y.user.bal.have[coin] >= 0
      BY <3>2 DEF Good, BillUser, Balance
    <3> HIDE DEF y
    <3> QED  BY <1>5, <3>2, <3>3
  <2>3. CASE Tax(num) <= x.user.bal.have[coin] /\ z \in {y, Add(y, coin, Tax(num), -Tax(num))}
    <3> HIDE DEF y
    <3>1. Good(y) /\ Good(Add(y, coin, Tax(num), -Tax(num)))
      BY <1>5, <2>2, <2>3, AddGood
    <3> QED  BY <2>3, <3>1
  <2>4. CASE Tax(num) <= x.user.bal.have[coin] /\ num <= y.user.bal.have[coin] /\ z = Add(y, coin, -num, 0)
    <3> HIDE DEF y
    <3>1. -num \in Int /\ y.user.bal.have[coin] + (-num) >= 0
      BY <1>0, <2>2, <2>4
    <3> QED  BY <2>2, <2>4, <3>1, AddGood
  <2> QED  BY <1>6, <2>1, <2>3, <2>4
<1>8. AcctInv'
  BY <1>0, <1>6, <1>7, AcctKeeps
<1>9. row \in Order
  BY <1>0, <1>2 DEF Order
<1>10. \/ list' = list /\ act' = act /\ odd' = odd
       \/ /\ list' = [list EXCEPT ![coin] = @ \cup {row}]
          /\ act' = [op |-> "start", coin |-> coin]
          /\ odd' = (odd \/ (coin = "money" /\ num % price # 0))
  <2>1. odd \in BOOLEAN
    BY <1>0 DEF RestInv
  <2> HIDE DEF row, x, y
  <2> QED  BY <1>1, <2>1
<1> QED  BY <1>2, <1>4, <1>8, <1>9, <1>10

\* A new order keeps the types: its number is above all others.
LEMMA PutKeeps ==
  ASSUME ConsignInv, NEW a \in Account, NEW coin \in Coin, NEW num \in Num, NEW price \in Price,
         putList(a, coin, num, price)
  PROVE  ConsignInv'
<1>0. AcctInv /\ ListInv /\ ActInv /\ Counts /\ RestInv
  BY DEF ConsignInv
<1> DEFINE row == [id |-> orders + 1, accid |-> a, num |-> num, price |-> price]
<1>1. /\ AcctInv' /\ Counts' /\ UNCHANGED <<spread, pack, swept>> /\ act = Idle /\ orders' = orders + 1
      /\ \/ /\ list' = list /\ act' = act /\ odd' = odd
         \/ /\ row \in Order /\ list' = [list EXCEPT ![coin] = @ \cup {row}]
            /\ act' = [op |-> "start", coin |-> coin]
            /\ odd' = (odd \/ (coin = "money" /\ num % price # 0))
  BY PutIs
<1>2. RestInv'
  BY <1>0, <1>1 DEF RestInv
<1>3. orders \in Nat
  BY <1>0 DEF Counts
<1>4. CASE list' = list /\ act' = act
  <2>1. \A k \in Coin : \A o \in list[k] : o.id <= orders + 1
    BY <1>0, <1>3, OrderIs DEF ListInv
  <2>2. ListInv'
    BY <1>0, <1>1, <1>4, <2>1 DEF ListInv
  <2> QED  BY <1>0, <1>1, <1>2, <1>4, <2>2 DEF ConsignInv, ActInv
<1>5. CASE row \in Order /\ list' = [list EXCEPT ![coin] = @ \cup {row}] /\ act' = [op |-> "start", coin |-> coin]
  <2>1. /\ list' \in [Coin -> SUBSET Order] /\ list'[coin] = list[coin] \cup {row}
        /\ \A k \in Coin \ {coin} : list'[k] = list[k]
    BY <1>0, <1>5 DEF ListInv
  <2>2. row.id = orders + 1
    OBVIOUS
  <2> HIDE DEF row
  <2>3. \A k \in Coin : \A o \in list'[k] : o \in list[k] \/ (k = coin /\ o = row)
    BY <2>1
  <2>4. \A k \in Coin : \A o \in list[k] : o.id <= orders /\ o.id \in Nat
    BY <1>0, OrderIs DEF ListInv
  <2>5. \A k, l \in Coin : \A o \in list'[k], p \in list'[l] : o.id = p.id => k = l /\ o = p
    <3> SUFFICES ASSUME NEW k \in Coin, NEW l \in Coin, NEW o \in list'[k], NEW p \in list'[l], o.id = p.id
                 PROVE  k = l /\ o = p
      OBVIOUS
    <3>1. CASE o \in list[k] /\ p \in list[l]
      BY <1>0, <3>1 DEF ListInv
    <3>2. CASE o \in list[k] /\ p = row
      BY <1>3, <2>2, <2>4, <3>2
    <3>3. CASE p \in list[l] /\ o = row
      BY <1>3, <2>2, <2>4, <3>3
    <3> QED  BY <2>3, <3>1, <3>2, <3>3
  <2>6. \A k \in Coin : \A o \in list'[k] : o.id <= orders'
    BY <1>1, <1>3, <2>2, <2>3, <2>4
  <2>7. ListInv'
    BY <2>1, <2>5, <2>6 DEF ListInv
  <2>8. ActInv'
    BY <1>5 DEF ActInv
  <2> QED  BY <1>1, <1>2, <2>7, <2>8 DEF ConsignInv
<1> QED  BY <1>1, <1>4, <1>5

\* What the loop of trade finds are orders of the other side, that cross.
LEMMA MatchingIs ==
  ASSUME ConsignInv, act.op = "trade", NEW p \in Matching
  PROVE  \/ /\ act.coin = "gold" /\ p \in list["money"] /\ p.price >= act.list.price
         \/ /\ act.coin = "money" /\ p \in list["gold"] /\ p.price <= act.list.price
<1>1. act.coin \in Coin
  BY DEF ConsignInv, ActInv, Trading, Idle
<1>2. CASE act.coin = "gold"
  <2>1. p \in Best("money", {q \in list["money"] : q.price >= act.list.price /\ q.num >= q.price})
    BY <1>2 DEF Matching
  <2> QED  BY <1>2, <2>1 DEF Best
<1>3. CASE act.coin = "money"
  <2>1. act.coin # "gold"
    BY <1>3
  <2>2. Matching = IF act.num \div act.list.price = 0 THEN {} ELSE {q \in list["gold"] : q.price <= act.list.price}
    BY <2>1 DEF Matching
  <2> QED  BY <1>3, <2>2
<1> QED  BY <1>1, <1>2, <1>3 DEF Coin

\* What a trading main loop holds.
LEMMA TradeIs ==
  ASSUME ConsignInv, act.op = "trade"
  PROVE  /\ act \in Trading /\ act.coin \in Coin /\ act.list \in list[act.coin] /\ act.list \in Order
         /\ act.num \in Nat /\ act.sys \in Nat
BY DEF ConsignInv, ActInv, Trading, Idle

\* trade starts with the best order of the side.
LEMMA Begins ==
  ASSUME ConsignInv, Begin
  PROVE  /\ ConsignInv' /\ UNCHANGED <<acct, list, spread, pack, orders, fails, swept, odd>>
         /\ act.op = "start" /\ act.coin \in Coin
         /\ act' \in Trading /\ act'.coin = act.coin /\ act'.num = act'.list.num
         /\ act'.list \in Best(act.coin, list[act.coin])
<1>1. act.op = "start" /\ act.coin \in Coin
  BY DEF Begin, ConsignInv, ActInv, Idle, Trading
<1>2. PICK o \in Best(act.coin, list[act.coin]) :
        act' = [op |-> "trade", coin |-> act.coin, list |-> o, num |-> o.num, sys |-> 0]
  BY DEF Begin
<1>3. UNCHANGED <<acct, list, spread, pack, orders, fails, swept, odd>>
  BY DEF Begin
<1>4. o \in list[act.coin]
  BY DEF Best
<1>5. o \in Order /\ o.num \in Nat
  BY <1>1, <1>4, OrderIs DEF ConsignInv, ListInv
<1>6. act' \in Trading /\ act'.list = o /\ act'.coin = act.coin /\ act'.num = o.num
  BY <1>1, <1>2, <1>5 DEF Trading
<1>7. ActInv'
  BY <1>3, <1>4, <1>6 DEF ActInv
<1>8. ConsignInv'
  BY <1>3, <1>7 DEF ConsignInv, AcctInv, ListInv, Counts, RestInv
<1> QED  BY <1>1, <1>2, <1>3, <1>6, <1>8

\* The account of an order that is paid its rest.
LEMMA RestGood ==
  ASSUME AcctInv, NEW o \in Order, NEW f
  PROVE  Good(CancelRest(o, f))
<1>1. o.accid \in Account /\ o.num \in Nat
  BY OrderIs
<1>2. Good(acct[o.accid])
  BY <1>1, AcctIs
<1>3. CASE acct[o.accid].user # None
  <2>1. acct[o.accid].user.bal.have["money"] \in Nat /\ "money" \in Coin
    BY <1>1, <1>3, AcctIs DEF Coin
  <2>2. acct[o.accid].user.bal.have["money"] + o.num >= 0
    BY <1>1, <2>1
  <2>3. Good(Add(acct[o.accid], "money", o.num, 0))
    BY <1>1, <1>2, <1>3, <2>1, <2>2, AddGood
  <2> QED  BY <1>2, <2>3 DEF CancelRest
<1> QED  BY <1>2, <1>3 DEF CancelRest

\* One account of a table of good accounts changes.
LEMMA TableKeeps ==
  ASSUME NEW A \in [Account -> GoodAcct], NEW a, NEW x, Good(x)
  PROVE  [A EXCEPT ![a] = x] \in [Account -> GoodAcct]
BY GoodIs

\* One turn of the loop, whichever of its writes fail: what it leaves of the
\* order it found, and that money orders stay multiples of their price.
LEMMA MatchIs ==
  ASSUME ConsignInv, act.op = "trade", NEW p \in Matching, NEW f, Match(p, f)
  PROVE  /\ AcctInv' /\ spread' \in Nat /\ UNCHANGED <<pack, swept, odd>>
         /\ act' \in Trading /\ act'.list = act.list /\ act'.coin = act.coin
         /\ act.coin = "money" /\ Multiple(act.num, act.list.price) => Multiple(act'.num, act.list.price)
         /\ \E l \in Nat : /\ list' = list \/ list' = Set(p, l)
                           /\ act.coin = "gold" /\ Multiple(p.num, p.price) => Multiple(l, p.price)
<1> DEFINE coin == act.coin
           g == IF act.coin = "gold" THEN [act.list EXCEPT !.num = act.num] ELSE p
           m == IF act.coin = "gold" THEN p ELSE [act.list EXCEPT !.num = act.num]
           n == Min({g.num, m.num \div m.price})
           left == IF act.coin = "gold" THEN p.num - n * p.price ELSE p.num - n
           rest == act.coin = "gold" /\ left # 0 /\ left < p.price
           sys  == act.sys + n * (m.price - g.price)
           b == IF rest THEN [acct EXCEPT ![p.accid] = CancelRest(p, f)] ELSE acct
           c == IF "seller" \in f THEN b ELSE [b EXCEPT ![g.accid] = Pay(@, "money", n * g.price)]
<1>1. /\ acct' = IF "buyer" \in f THEN c ELSE [c EXCEPT ![m.accid] = Pay(@, "gold", n)]
      /\ list' = IF rest THEN RestGone(p, f) ELSE IF "row" \in f THEN list ELSE Set(p, left)
      /\ act' = [op |-> "trade", coin |-> act.coin, list |-> act.list,
                 num |-> act.num - IF act.coin = "gold" THEN n ELSE n * m.price,
                 sys |-> IF rest \/ "row" \in f THEN sys ELSE 0]
      /\ spread' = IF rest \/ f \cap {"row", "history"} # {} THEN spread ELSE spread + sys
      /\ UNCHANGED <<pack, swept, odd>>
  BY DEF Match
<1>2. /\ act \in Trading /\ act.coin \in Coin /\ act.list \in list[act.coin] /\ act.list \in Order
      /\ act.num \in Nat /\ act.sys \in Nat /\ spread \in Nat
  BY TradeIs DEF ConsignInv, RestInv
<1>3. /\ p \in Order
      /\ \/ act.coin = "gold" /\ p.price >= act.list.price
         \/ act.coin = "money" /\ p.price <= act.list.price
  BY MatchingIs DEF ConsignInv, ListInv, Coin
<1> DEFINE o == act.list  w == [act.list EXCEPT !.num = act.num]
<1>4. /\ p.accid \in Account /\ p.num \in Nat /\ p.price \in Nat \ {0}
      /\ o.accid \in Account /\ o.price \in Nat \ {0}
      /\ w.accid = o.accid /\ w.num = act.num /\ w.price = o.price
  <2>1. w.accid = o.accid /\ w.num = act.num /\ w.price = o.price
    BY <1>2 DEF Order
  <2> QED  BY <1>2, <1>3, <2>1, OrderIs
<1> HIDE DEF o, w
<1>5. /\ coin = "gold" => g = w /\ m = p
      /\ coin = "money" => g = p /\ m = w
      /\ coin = "gold" \/ coin = "money"
  BY <1>3 DEF w
<1> HIDE DEF g, m
<1>6. /\ g.accid \in Account /\ m.accid \in Account /\ g.num \in Nat /\ m.num \in Nat
      /\ g.price \in Nat \ {0} /\ m.price \in Nat \ {0} /\ m.price - g.price \in Nat
      /\ coin = "gold" => g.num = act.num /\ m = p
      /\ coin = "money" => m.num = act.num /\ m.price = o.price /\ g = p
  BY <1>2, <1>3, <1>4, <1>5 DEF o
<1>7. n \in Nat /\ n <= g.num /\ n <= m.num \div m.price
  <2>1. m.num \div m.price \in Nat
    BY <1>6, Division
  <2> QED  BY <1>6, <2>1, MinIs
<1> HIDE DEF n
<1>8. /\ n * m.price \in Nat /\ n * m.price <= m.num
      /\ Multiple(m.num, m.price) => Multiple(m.num - n * m.price, m.price)
  BY <1>6, <1>7, Multiples
<1>9. left \in Nat /\ (coin = "gold" /\ Multiple(p.num, p.price) => Multiple(left, p.price))
  <2>1. CASE coin = "gold"
    BY <1>4, <1>6, <1>8, <2>1
  <2>2. CASE coin = "money"
    BY <1>4, <1>6, <1>7, <2>2
  <2> QED  BY <1>5, <2>1, <2>2
<1>10. sys \in Nat
  <2>1. n * (m.price - g.price) \in Nat
    BY <1>6, <1>7
  <2> HIDE DEF g, m
  <2> QED  BY <1>2, <2>1
<1> HIDE DEF left
<1>11. /\ act.num - (IF act.coin = "gold" THEN n ELSE n * m.price) \in Nat
       /\ act.coin = "money" /\ Multiple(act.num, o.price)
            => Multiple(act.num - (IF act.coin = "gold" THEN n ELSE n * m.price), o.price)
  <2>1. CASE coin = "gold"
    BY <1>2, <1>6, <1>7, <2>1
  <2>2. CASE coin = "money"
    BY <1>2, <1>6, <1>8, <2>2
  <2> QED  BY <1>5, <2>1, <2>2
<1> HIDE DEF sys
<1>12. /\ act' \in Trading /\ act'.list = act.list /\ act'.coin = act.coin
       /\ act.coin = "money" /\ Multiple(act.num, act.list.price) => Multiple(act'.num, act.list.price)
  <2> DEFINE num == act.num - (IF act.coin = "gold" THEN n ELSE n * m.price)
             s == IF rest \/ "row" \in f THEN sys ELSE 0
  <2>1. num \in Nat /\ s \in Nat
    BY <1>10, <1>11
  <2>2. act' = [op |-> "trade", coin |-> act.coin, list |-> act.list, num |-> num, sys |-> s]
    BY <1>1
  <2>3. act.coin = "money" /\ Multiple(act.num, act.list.price) => Multiple(num, act.list.price)
    BY <1>11 DEF o
  <2> HIDE DEF num, s
  <2> QED  BY <1>2, <2>1, <2>2, <2>3 DEF Trading
<1>13. spread' \in Nat
  BY <1>1, <1>2, <1>10
<1>14. AcctInv'
  <2> HIDE DEF rest
  <2>1. acct \in [Account -> GoodAcct]
    BY DEF ConsignInv, AcctInv
  <2>2. b \in [Account -> GoodAcct]
    <3>1. Good(CancelRest(p, f))
      BY <1>3, RestGood DEF ConsignInv
    <3> QED  BY <2>1, <3>1, TableKeeps
  <2> HIDE DEF b
  <2>3. c \in [Account -> GoodAcct]
    <3>1. n * g.price \in Nat /\ "money" \in Coin
      BY <1>6, <1>7 DEF Coin
    <3>2. Good(b[g.accid])
      BY <1>6, <2>2, GoodIs
    <3>3. Good(Pay(b[g.accid], "money", n * g.price))
      BY <3>1, <3>2, PayGood
    <3>4. [b EXCEPT ![g.accid] = Pay(b[g.accid], "money", n * g.price)] \in [Account -> GoodAcct]
      BY <2>2, <3>3, TableKeeps
    <3> QED  BY <2>2, <3>4
  <2>4. acct' = IF "buyer" \in f THEN c ELSE [c EXCEPT ![m.accid] = Pay(@, "gold", n)]
    BY <1>1
  <2> HIDE DEF c
  <2>5. [c EXCEPT ![m.accid] = Pay(c[m.accid], "gold", n)] \in [Account -> GoodAcct]
    <3>1. Good(c[m.accid])
      BY <1>6, <2>3, GoodIs
    <3>2. Good(Pay(c[m.accid], "gold", n))
      BY <1>7, <3>1, PayGood DEF Coin
    <3> QED  BY <2>3, <3>2, TableKeeps
  <2> QED  BY <2>3, <2>4, <2>5 DEF AcctInv
<1>15. \E l \in Nat : /\ list' = list \/ list' = Set(p, l)
                      /\ act.coin = "gold" /\ Multiple(p.num, p.price) => Multiple(l, p.price)
  <2>1. Multiple(0, p.price)
    BY <1>4 DEF Multiple
  <2>2. list' = list \/ list' = Set(p, left) \/ list' = Set(p, 0)
    BY <1>1 DEF RestGone
  <2>3. CASE list' = Set(p, left)
    BY <1>9, <2>3
  <2> QED  BY <2>1, <2>2, <2>3
<1> QED  BY <1>1, <1>12, <1>13, <1>14, <1>15

\* The end of the loop; when no write fails and the rest of a money order is a
\* multiple of its price, the row has the number the loop has left.
LEMMA FinishIs ==
  ASSUME ConsignInv, act.op = "trade", NEW f, Finish(f)
  PROVE  /\ AcctInv' /\ spread' \in Nat /\ UNCHANGED <<pack, swept, odd>> /\ act' = Idle /\ Matching = {}
         /\ \E l \in Nat : list' = list \/ list' = Set(act.list, l)
         /\ f = {} /\ (act.coin = "money" => Multiple(act.num, act.list.price))
              => list' = IF act.num # act.list.num THEN Set(act.list, act.num) ELSE list
<1> DEFINE o == act.list
           rest == act.coin = "money" /\ act.num # 0 /\ act.num < o.price
           done == ~rest /\ act.num # o.num
<1>1. /\ Matching = {} /\ act' = Idle
      /\ acct' = IF rest THEN [acct EXCEPT ![o.accid] = CancelRest(o, f)] ELSE acct
      /\ list' = IF rest THEN RestGone(o, f)
                 ELSE IF done /\ "row" \notin f THEN Set(o, act.num) ELSE list
      /\ spread' = IF done /\ f \cap {"row", "history"} = {} THEN spread + act.sys ELSE spread
      /\ UNCHANGED <<pack, swept, odd>>
  BY DEF Finish
<1>2. /\ o \in Order /\ o.price \in Nat \ {0} /\ act.num \in Nat /\ act.sys \in Nat /\ spread \in Nat
      /\ acct \in [Account -> GoodAcct]
  BY TradeIs, OrderIs DEF ConsignInv, RestInv, AcctInv
<1>3. AcctInv'
  <2>1. Good(CancelRest(o, f))
    BY <1>2, RestGood DEF ConsignInv
  <2> HIDE DEF rest, o
  <2>2. [acct EXCEPT ![o.accid] = CancelRest(o, f)] \in [Account -> GoodAcct]
    BY <1>2, <2>1, TableKeeps
  <2> QED  BY <1>1, <1>2, <2>2 DEF AcctInv
<1>4. \E l \in Nat : list' = list \/ list' = Set(o, l)
  BY <1>1, <1>2 DEF RestGone
<1>5. spread' \in Nat
  BY <1>1, <1>2
<1>6. ASSUME f = {}, act.coin = "money" => Multiple(act.num, o.price)
      PROVE  list' = IF act.num # o.num THEN Set(o, act.num) ELSE list
  <2>1. ~rest
    BY <1>2, <1>6, Multiples
  <2> QED  BY <1>1, <1>6, <2>1
<1> QED  BY <1>1, <1>3, <1>4, <1>5, <1>6

\* The rows of one order change, or none does.
LEMMA RowKeeps ==
  ASSUME ListInv, Counts, NEW coin \in Coin, NEW o \in list[coin], orders' = orders,
         \E l \in Nat : list' = list \/ list' = Set(o, l)
  PROVE  ListInv'
<1>1. CASE list' = list
  BY <1>1 DEF ListInv
<1>2. ASSUME NEW l \in Nat, list' = Set(o, l) PROVE ListInv'
  BY <1>2, SetKeeps
<1> QED  BY <1>1, <1>2

\* A write that fails is one of those with a name.
LEMMA FaultsAre ==
  /\ SUBSET {"row", "rest", "history", "seller", "buyer"} \subseteq SUBSET Faults
  /\ SUBSET {"row", "rest", "history"} \subseteq SUBSET Faults
  /\ SUBSET {"add", "row"} \subseteq SUBSET Faults
BY DEF Faults

\* A turn of the loop and its end keep the types.
LEMMA TradeKeeps ==
  ASSUME ConsignInv, Trade
  PROVE  ConsignInv'
<1>0. AcctInv /\ ListInv /\ ActInv /\ Counts /\ RestInv /\ act.op = "trade" /\ orders \in Nat /\ orders + 0 = orders
  BY DEF ConsignInv, Trade, Counts
<1>1. /\ act \in Trading /\ act.coin \in Coin /\ act.list \in list[act.coin] /\ act.list \in Order
  BY <1>0, TradeIs
<1>2. ASSUME NEW p \in Matching, NEW f \in SUBSET {"row", "rest", "history", "seller", "buyer"},
             Failing(f, 0), Match(p, f)
      PROVE  ConsignInv'
  <2>1. Counts' /\ orders' = orders
    <3>1. f \in SUBSET Faults
      BY FaultsAre
    <3> QED  BY <1>0, <1>2, <3>1, FailingIs
  <2>2. /\ AcctInv' /\ spread' \in Nat /\ UNCHANGED <<pack, swept, odd>>
        /\ act' \in Trading /\ act'.list = act.list /\ act'.coin = act.coin
        /\ \E l \in Nat : list' = list \/ list' = Set(p, l)
    BY <1>0, <1>2, MatchIs
  <2>3. PICK k \in Coin : k # act.coin /\ p \in list[k]
    BY <1>0, MatchingIs DEF Coin
  <2>4. ListInv'
    BY <1>0, <2>1, <2>2, <2>3, RowKeeps
  <2>5. list'[act.coin] = list[act.coin]
    <3>1. CASE list' = list
      BY <3>1
    <3>2. ASSUME NEW l \in Nat, list' = Set(p, l) PROVE list'[act.coin] = list[act.coin]
      BY <1>0, <1>1, <2>3, <3>2, SetIs
    <3> QED  BY <2>2, <3>1, <3>2
  <2>6. ActInv'
    BY <1>1, <2>2, <2>5 DEF ActInv
  <2>7. RestInv'
    BY <1>0, <2>2 DEF RestInv
  <2> QED  BY <2>1, <2>2, <2>4, <2>6, <2>7 DEF ConsignInv
<1>3. ASSUME NEW f \in SUBSET {"row", "rest", "history"}, Failing(f, 0), Finish(f)
      PROVE  ConsignInv'
  <2>1. Counts' /\ orders' = orders
    <3>1. f \in SUBSET Faults
      BY FaultsAre
    <3> QED  BY <1>0, <1>3, <3>1, FailingIs
  <2>2. /\ AcctInv' /\ spread' \in Nat /\ UNCHANGED <<pack, swept, odd>> /\ act' = Idle
        /\ \E l \in Nat : list' = list \/ list' = Set(act.list, l)
    BY <1>0, <1>3, FinishIs
  <2>3. ListInv'
    BY <1>0, <1>1, <2>1, <2>2, RowKeeps
  <2>4. ActInv' /\ RestInv'
    BY <1>0, <2>2 DEF ActInv, RestInv
  <2> QED  BY <2>1, <2>2, <2>3, <2>4 DEF ConsignInv
<1> QED  BY <1>2, <1>3 DEF Trade

\* Cancelling one's own order.
LEMMA CancelKeeps ==
  ASSUME ConsignInv, NEW coin \in Coin, NEW o \in list[coin], cancelList(coin, o)
  PROVE  ConsignInv'
<1>0. AcctInv /\ ListInv /\ ActInv /\ Counts /\ RestInv /\ orders \in Nat /\ orders + 0 = orders /\ o \in Order
  BY DEF ConsignInv, Counts, ListInv
<1>1. PICK f \in SUBSET {"add", "row"} :
        /\ Failing(f, 0)
        /\ acct' = IF "add" \in f THEN acct ELSE [acct EXCEPT ![o.accid] = Add(@, coin, o.num, 0)]
        /\ list' = IF "row" \in f THEN list ELSE Set(o, 0)
  BY DEF cancelList
<1>2. act = Idle /\ acct[o.accid].user # None /\ UNCHANGED <<spread, pack, act, swept, odd>>
  BY DEF cancelList, Has
<1>3. Counts' /\ orders' = orders
  <2>1. f \in SUBSET Faults
    BY FaultsAre
  <2> QED  BY <1>0, <1>1, <2>1, FailingIs
<1>4. AcctInv'
  <2>1. o.accid \in Account /\ o.num \in Nat
    BY <1>0, OrderIs
  <2>2. Good(acct[o.accid]) /\ acct[o.accid].user.bal.have[coin] \in Nat
    BY <1>0, <1>2, <2>1, AcctIs
  <2>3. acct[o.accid].user.bal.have[coin] + o.num >= 0
    BY <2>1, <2>2
  <2>4. Good(Add(acct[o.accid], coin, o.num, 0))
    BY <1>2, <2>1, <2>2, <2>3, AddGood
  <2>5. [acct EXCEPT ![o.accid] = Add(acct[o.accid], coin, o.num, 0)] \in [Account -> GoodAcct]
    BY <1>0, <2>4, TableKeeps DEF AcctInv
  <2> QED  BY <1>0, <1>1, <2>5 DEF AcctInv
<1>5. ListInv'
  <2>1. \E l \in Nat : list' = list \/ list' = Set(o, l)
    BY <1>1
  <2> QED  BY <1>0, <1>3, <2>1, RowKeeps
<1>6. ActInv' /\ RestInv'
  BY <1>0, <1>2 DEF ActInv, RestInv
<1> QED  BY <1>3, <1>4, <1>5, <1>6 DEF ConsignInv

\* One turn of cancelListAll.
LEMMA CancelNextKeeps ==
  ASSUME ConsignInv, CancelNext
  PROVE  ConsignInv' /\ act.op = "cancelAll" /\ act' \in {Idle, act} /\ odd' = odd /\ (fails' = 0 => fails = 0)
         /\ \E k \in Coin : \E o \in list[k] : list' \in {list, Set(o, 0)}
<1> DEFINE coin == IF list["gold"] # {} THEN "gold" ELSE "money"
<1>0. /\ AcctInv /\ ListInv /\ ActInv /\ Counts /\ RestInv /\ orders \in Nat /\ orders + 0 = orders
      /\ coin \in Coin /\ act.op = "cancelAll" /\ act \in {[op |-> "cancelAll"]}
  BY DEF ConsignInv, Counts, Coin, CancelNext, ActInv, Trading, Idle
<1>1. PICK o \in list[coin], f \in SUBSET {"add", "row"} :
        /\ Failing(f, 0)
        /\ acct' = IF "add" \in f THEN acct
                   ELSE [acct EXCEPT ![o.accid] = AddRow(@, coin, o.num + Tax(o.num))]
        /\ swept' = IF "add" \in f \/ acct[o.accid].user = None THEN swept ELSE swept \cup {o.accid}
        /\ list' = IF "row" \in f THEN list ELSE Set(o, 0)
        /\ act' = IF "row" \in f \/ (list'["gold"] \cup list'["money"] = {}) THEN Idle ELSE act
  BY DEF CancelNext
<1>2. UNCHANGED <<spread, pack, odd>>
  BY DEF CancelNext
<1> HIDE DEF coin
<1>3. Counts' /\ orders' = orders /\ (fails' = 0 => fails = 0)
  <2>1. f \in SUBSET Faults
    BY FaultsAre
  <2> QED  BY <1>0, <1>1, <2>1, FailingIs
<1>4. o \in Order /\ o.accid \in Account /\ o.num \in Nat
  BY <1>0, OrderIs DEF ListInv
<1>5. AcctInv'
  <2>1. Tax(o.num) \in Nat
    BY <1>4, ConsignAssumption, Division DEF Tax
  <2>2. o.num + Tax(o.num) \in Nat
    BY <1>4, <2>1
  <2>3. Good(acct[o.accid])
    BY <1>0, <1>4, AcctIs
  <2>4. Good(AddRow(acct[o.accid], coin, o.num + Tax(o.num)))
    BY <1>0, <2>2, <2>3, AddRowGood
  <2>5. [acct EXCEPT ![o.accid] = AddRow(acct[o.accid], coin, o.num + Tax(o.num))] \in [Account -> GoodAcct]
    BY <1>0, <2>4, TableKeeps DEF AcctInv
  <2> QED  BY <1>0, <1>1, <2>5 DEF AcctInv
<1>6. ListInv'
  <2>1. \E l \in Nat : list' = list \/ list' = Set(o, l)
    BY <1>1
  <2> QED  BY <1>0, <1>3, <2>1, RowKeeps
<1>7. act' \in {Idle, act} /\ ActInv'
  BY <1>0, <1>1 DEF ActInv
<1>8. RestInv'
  BY <1>0, <1>1, <1>2, <1>4 DEF RestInv
<1>9. list' \in {list, Set(o, 0)}
  BY <1>1
<1> QED  BY <1>0, <1>2, <1>3, <1>5, <1>6, <1>7, <1>8, <1>9 DEF ConsignInv

\* The exchange starts empty and everyone with what he has.
LEMMA InitTypes == Init => ConsignInv
<1> SUFFICES ASSUME Init PROVE ConsignInv
  OBVIOUS
<1> DEFINE have == [gold |-> Gold, money |-> Money]
           row == [Zero EXCEPT !.have = have]
<1>1. have \in [Coin -> Int] /\ \A k \in Coin : have[k] >= 0
  BY ConsignAssumption DEF Coin
<1>2. row = [have |-> have, tax |-> [k \in Coin |-> 0]]
  BY DEF Zero
<1> HIDE DEF have
<1>3. row \in Balance /\ row.have = have
  BY <1>1, <1>2 DEF Balance
<1>4. acct = [a \in Account |-> [row |-> row, user |-> None]]
  BY DEF Init, have
<1> HIDE DEF row
<1>5. Good([row |-> row, user |-> None])
  BY <1>1, <1>3 DEF Good
<1>6. AcctInv
  BY <1>4, <1>5, GoodIs DEF AcctInv
<1>7. ListInv
  BY DEF Init, ListInv
<1>8. ActInv /\ Counts
  BY ConsignAssumption DEF Init, ActInv, Counts
<1>9. RestInv
  <2>1. 0 \in 0 .. MaxPack /\ spread = 0 /\ swept = {} /\ odd = FALSE
        /\ pack = [a \in Account |-> [k \in Coin |-> 0]]
    BY ConsignAssumption DEF Init
  <2> QED  BY <2>1 DEF RestInv
<1> QED  BY <1>6, <1>7, <1>8, <1>9 DEF ConsignInv

\* The invariant for the types is inductive.
LEMMA NextTypes == ConsignInv /\ [Next]_vars => ConsignInv'
<1> SUFFICES ASSUME ConsignInv, [Next]_vars PROVE ConsignInv'
  OBVIOUS
<1>1. ASSUME NEW a \in Account, addUser(a) \/ login(a) \/ removeUser(a) PROVE ConsignInv'
  BY <1>1, UserKeeps
<1>2. ASSUME NEW a \in Account, NEW k \in Moved, NEW n \in Amount, Save(a, k, n) \/ Fetch(a, k, n)
      PROVE  ConsignInv'
  <2>1. k \in Coin
    BY ConsignAssumption DEF Coin
  <2> QED  BY <1>2, <2>1, MoveKeeps
<1>3. ASSUME NEW a \in Account, NEW k \in Coin, NEW n \in Num, NEW p \in Price, putList(a, k, n, p)
      PROVE  ConsignInv'
  BY <1>3, PutKeeps
<1>4. CASE Begin
  BY <1>4, Begins
<1>5. CASE Trade
  BY <1>5, TradeKeeps
<1>6. ASSUME NEW k \in Coin, NEW o \in list[k], cancelList(k, o) PROVE ConsignInv'
  BY <1>6, CancelKeeps
<1>7. CASE cancelListAll
  BY <1>7 DEF cancelListAll, ConsignInv, AcctInv, ListInv, ActInv, Counts, RestInv
<1>8. CASE CancelNext
  BY <1>8, CancelNextKeeps
<1>9. CASE UNCHANGED vars
  BY <1>9 DEF vars, ConsignInv, AcctInv, ListInv, ActInv, Counts, RestInv
<1> QED  BY <1>1, <1>2, <1>3, <1>4, <1>5, <1>6, <1>7, <1>8, <1>9 DEF Next

\* The exchange keeps its types whatever is put, matched, cancelled and fails:
\* no balance of a row becomes negative, every number of an order stays above
\* zero, and the order being traded is one of its table.
THEOREM ConsignInvariant == Spec => []ConsignInv
BY InitTypes, NextTypes, PTL DEF Spec

\* The same as the run checks it: putList, trade, cancelList and cancelListAll keep the
\* types, and no BALANCE row becomes negative.
THEOREM ConsignTypes == Spec => []TypeOK
BY ConsignInvariant, InvTypes, PTL

(***************************************************************************)
(* No two orders that could be traded are left.  While none is traded no two  *)
(* cross; when an order was put, all that cross cross with that one; and the   *)
(* best order of its side is that one or none cross at all, so that it is       *)
(* enough to trade this one until its loop finds nothing more.  That nothing    *)
(* more is found means that nothing crosses only if every order of money can    *)
(* still buy one piece, which is why all have to be multiples of their price.   *)
(***************************************************************************)
NoneCross == \A g \in list["gold"] : \A m \in list["money"] : g.price > m.price
Side(coin, g, m) == IF coin = "gold" THEN g ELSE m
OnlyBy(coin, x) == \A g \in list["gold"] : \A m \in list["money"] : g.price <= m.price => Side(coin, g, m) = x
OnlyThen(coin, x) == \A g \in list'["gold"] : \A m \in list'["money"] : g.price <= m.price => Side(coin, g, m) = x
Whole == \A m \in list["money"] : Multiple(m.num, m.price)

Sound ==
  fails = 0 /\ ~odd =>
    /\ Whole
    /\ act.op \in {"idle", "cancelAll"} => NoneCross
    /\ act.op = "start" => \E x \in list[act.coin] : OnlyBy(act.coin, x)
    /\ act.op = "trade" => OnlyBy(act.coin, act.list) /\ (act.coin = "money" => Multiple(act.num, act.list.price))

\* What the rows of a table were before one of them was changed.
LEMMA SetRows ==
  ASSUME ListInv, NEW coin \in Coin, NEW o \in list[coin], NEW l \in Nat, list' = Set(o, l)
  PROVE  \A k \in Coin : \A q \in list'[k] :
           \E p \in list[k] : /\ q.price = p.price
                              /\ q = p \/ (k = coin /\ p = o /\ q.num = l)
<1>1. /\ list'[coin] = (list[coin] \ {o}) \cup (IF l = 0 THEN {} ELSE {[o EXCEPT !.num = l]})
      /\ \A k \in Coin \ {coin} : list'[k] = list[k]
  BY SetIs
<1>2. l # 0 => [o EXCEPT !.num = l].price = o.price /\ [o EXCEPT !.num = l].num = l
  BY OrderIs DEF ListInv
<1> SUFFICES ASSUME NEW k \in Coin, NEW q \in list'[k]
             PROVE  \E p \in list[k] : q.price = p.price /\ (q = p \/ (k = coin /\ p = o /\ q.num = l))
  OBVIOUS
<1>3. CASE k = coin
  BY <1>1, <1>2, <1>3
<1>4. CASE k # coin
  BY <1>1, <1>4
<1> QED  BY <1>3, <1>4

\* The rows of one order change, to a multiple of the price if they are money:
\* no order crosses that did not, and all stay multiples.
LEMMA SetCross ==
  ASSUME ListInv, NEW coin \in Coin, NEW o \in list[coin], NEW l \in Nat, list' \in {list, Set(o, l)}
  PROVE  /\ NoneCross => NoneCross'
         /\ Whole /\ (coin = "money" /\ Multiple(o.num, o.price) => Multiple(l, o.price)) => Whole'
<1>1. CASE list' = list
  BY <1>1 DEF NoneCross, Whole
<1>2. CASE list' = Set(o, l)
  <2>1. \A k \in Coin : \A q \in list'[k] :
          \E p \in list[k] : q.price = p.price /\ (q = p \/ (k = coin /\ p = o /\ q.num = l))
    BY <1>2, SetRows
  <2>2. NoneCross => NoneCross'
    BY <2>1 DEF NoneCross, Coin
  <2>3. ASSUME Whole, coin = "money" /\ Multiple(o.num, o.price) => Multiple(l, o.price) PROVE Whole'
    <3> SUFFICES ASSUME NEW q \in list'["money"] PROVE Multiple(q.num, q.price)
      BY DEF Whole
    <3>1. PICK p \in list["money"] : q.price = p.price /\ (q = p \/ ("money" = coin /\ p = o /\ q.num = l))
      BY <2>1 DEF Coin
    <3>2. Multiple(p.num, p.price)
      BY <2>3 DEF Whole
    <3> QED  BY <2>3, <3>1, <3>2
  <2> QED  BY <2>2, <2>3
<1> QED  BY <1>1, <1>2

\* Steps that leave the tables and the main loop alone.
LEMMA SameSound ==
  ASSUME Sound, UNCHANGED <<list, act, odd>>, fails' = 0 => fails = 0
  PROVE  Sound'
BY DEF Sound, Whole, NoneCross, OnlyBy

\* Numbers that are not none have a least one.
Less == {p \in Nat \X Nat : p[1] < p[2]}
\* A set of numbers that is not empty has a least one.
LEMMA Smallest ==
  ASSUME NEW S \in SUBSET Nat, S # {}
  PROVE  \E x \in S : \A y \in S : x <= y
<1>1. IsWellFoundedOn(Less, Nat)
  BY NatLessThanWellFounded DEF OpToRel, Less
<1>2. PICK x \in S : \A y \in S : <<y, x>> \notin Less
  BY <1>1, WFMin
<1>3. ASSUME NEW y \in S PROVE x <= y
  <2>1. x \in Nat /\ y \in Nat /\ <<y, x>> \in Nat \X Nat
    OBVIOUS
  <2>2. y < x => <<y, x>> \in Less
    BY <2>1 DEF Less
  <2> QED  BY <1>2, <2>1, <2>2
<1> QED  BY <1>3

\* A table is finite, since an order's number is its own and at most MaxOrder.
LEMMA TableFinite ==
  ASSUME ListInv, NEW coin \in Coin
  PROVE  IsFiniteSet(list[coin])
<1> DEFINE f == [o \in list[coin] |-> o.id]
<1>1. f \in [list[coin] -> 1 .. MaxOrder]
  BY DEF ListInv, Order
<1>2. \A o, p \in list[coin] : f[o] = f[p] => o = p
  BY DEF ListInv
<1> HIDE DEF f
<1>3. f \in Injection(list[coin], 1 .. MaxOrder)
  BY <1>1, <1>2 DEF Injection, IsInjective
<1>4. IsFiniteSet(1 .. MaxOrder)
  BY FS_Interval, ConsignAssumption
<1> QED  BY <1>3, <1>4, FS_Injection

\* Of some orders of a table there is one with the highest price: one that the
\* fewest others are above.
LEMMA Highest ==
  ASSUME ListInv, NEW S \in SUBSET list["money"], S # {}
  PROVE  Best("money", S) # {}
<1> DEFINE above(o) == {p \in S : p.price > o.price}
           ranks == {Cardinality(above(o)) : o \in S}
<1>1. \A o \in S : o.price \in Nat
  BY OrderIs DEF ListInv, Coin
<1>2. \A o \in S : IsFiniteSet(above(o))
  <2>1. IsFiniteSet(list["money"])
    BY TableFinite DEF Coin
  <2> QED  BY <2>1, FS_Subset
<1>3. \A o \in S : Cardinality(above(o)) \in Nat
  BY <1>2, FS_CardinalityType
<1>4. \A o, p \in S : p.price > o.price => Cardinality(above(p)) < Cardinality(above(o))
  <2> SUFFICES ASSUME NEW o \in S, NEW p \in S, p.price > o.price
               PROVE  Cardinality(above(p)) < Cardinality(above(o))
    OBVIOUS
  <2>1. above(p) \subseteq above(o) /\ p \in above(o) /\ p \notin above(p)
    BY <1>1
  <2> HIDE DEF above
  <2>2. IsFiniteSet(above(o)) /\ Cardinality(above(p)) \in Nat /\ Cardinality(above(o)) \in Nat
    BY <1>2, <1>3
  <2>3. /\ Cardinality(above(p)) <= Cardinality(above(o))
        /\ Cardinality(above(o)) = Cardinality(above(p)) => above(o) = above(p)
    BY <2>1, <2>2, FS_Subset
  <2> QED  BY <2>1, <2>2, <2>3
<1> HIDE DEF above
<1>5. ranks \in SUBSET Nat /\ ranks # {}
  BY <1>3
<1>6. PICK r \in ranks : \A q \in ranks : r <= q
  <2> HIDE DEF ranks
  <2> QED  BY <1>5, Smallest
<1>7. PICK o \in S : r = Cardinality(above(o))
  BY DEF ranks
<1>8. \A p \in S : ~(p.price > o.price)
  <2> SUFFICES ASSUME NEW p \in S, p.price > o.price PROVE FALSE
    OBVIOUS
  <2>1. Cardinality(above(p)) \in ranks /\ Cardinality(above(p)) < Cardinality(above(o))
    BY <1>4
  <2> QED  BY <1>3, <1>6, <1>7, <2>1
<1>9. o \in Best("money", S)
  BY <1>1, <1>8 DEF Best
<1> QED  BY <1>9

\* After an order is put, all that cross cross with it.
LEMMA PutSound ==
  ASSUME ConsignInv, Sound, NEW a \in Account, NEW coin \in Coin, NEW num \in Num, NEW price \in Price,
         putList(a, coin, num, price)
  PROVE  Sound'
<1> DEFINE row == [id |-> orders + 1, accid |-> a, num |-> num, price |-> price]
<1>1. /\ act = Idle /\ (fails' = 0 => fails = 0)
      /\ \/ /\ list' = list /\ act' = act /\ odd' = odd
         \/ /\ row \in Order /\ list' = [list EXCEPT ![coin] = @ \cup {row}]
            /\ act' = [op |-> "start", coin |-> coin]
            /\ odd' = (odd \/ (coin = "money" /\ num % price # 0))
  BY PutIs
<1>2. CASE list' = list /\ act' = act /\ odd' = odd
  BY <1>1, <1>2, SameSound
<1>3. ASSUME row \in Order, list' = [list EXCEPT ![coin] = @ \cup {row}], act' = [op |-> "start", coin |-> coin],
             odd' = (odd \/ (coin = "money" /\ num % price # 0))
      PROVE  Sound'
  <2> SUFFICES ASSUME fails' = 0, ~odd'
               PROVE  Whole' /\ \E x \in list'[coin] : OnlyThen(coin, x)
    BY <1>3 DEF Sound, OnlyBy, OnlyThen
  <2>1. NoneCross /\ Whole /\ (coin = "money" => num % price = 0)
    BY <1>1, <1>3 DEF Sound, Idle
  <2>2. row.num = num /\ row.price = price /\ num \in Nat /\ price \in Nat \ {0}
    BY ConsignAssumption
  <2>3. coin = "money" => Multiple(row.num, row.price)
    BY <2>1, <2>2, Multiples
  <2> HIDE DEF row
  <2>4. list'[coin] = list[coin] \cup {row} /\ \A k \in Coin \ {coin} : list'[k] = list[k]
    BY <1>3 DEF ConsignInv, ListInv
  <2>5. Whole'
    <3> SUFFICES ASSUME NEW m \in list'["money"] PROVE Multiple(m.num, m.price)
      BY DEF Whole
    <3>1. m \in list["money"] \/ (coin = "money" /\ m = row)
      BY <2>4 DEF Coin
    <3> QED  BY <2>1, <2>3, <3>1 DEF Whole
  <2>6. \A g \in list["gold"] : \A m \in list["money"] : ~(g.price <= m.price)
    <3>1. \A k \in Coin : \A o \in list[k] : o.price \in Nat
      BY OrderIs DEF ConsignInv, ListInv
    <3> QED  BY <2>1, <3>1 DEF NoneCross, Coin
  <2>7. OnlyThen(coin, row)
    <3>1. \A k \in Coin : k = "gold" \/ k = "money"
      BY DEF Coin
    <3>2. CASE coin = "gold"
      <4>1. list'["money"] = list["money"] /\ list'["gold"] = list["gold"] \cup {row}
        BY <2>4, <3>2 DEF Coin
      <4> QED  BY <2>6, <3>2, <4>1 DEF OnlyThen, Side
    <3>3. CASE coin = "money"
      <4>1. list'["gold"] = list["gold"] /\ list'["money"] = list["money"] \cup {row}
        BY <2>4, <3>3 DEF Coin
      <4> QED  BY <2>6, <3>3, <4>1 DEF OnlyThen, Side
    <3> QED  BY <3>1, <3>2, <3>3
  <2> QED  BY <2>4, <2>5, <2>7
<1> QED  BY <1>1, <1>2, <1>3

\* The best order of a side is the only one that can cross, when only one can.
LEMMA BeginSound ==
  ASSUME ConsignInv, Sound, Begin
  PROVE  Sound'
<1> DEFINE o == act'.list  coin == act.coin
<1>1. /\ UNCHANGED <<acct, list, fails, odd>> /\ act.op = "start" /\ coin \in Coin
      /\ act'.op = "trade" /\ act'.coin = coin /\ act'.num = o.num /\ o \in Best(coin, list[coin])
  BY Begins DEF Trading
<1> SUFFICES ASSUME fails = 0, ~odd
             PROVE  Whole' /\ OnlyThen(coin, o) /\ (coin = "money" => Multiple(o.num, o.price))
  BY <1>1 DEF Sound, OnlyBy, OnlyThen
<1>2. PICK x \in list[coin] : OnlyBy(coin, x)
  BY <1>1 DEF Sound
<1>3. Whole
  BY DEF Sound
<1>4. Whole' /\ list' = list
  BY <1>1, <1>3 DEF Whole
<1> HIDE DEF o, coin
<1>5. o \in list[coin] /\ \A p \in list[coin] : IF coin = "gold" THEN o.price <= p.price ELSE o.price >= p.price
  BY <1>1 DEF Best
<1>6. \A k \in Coin : \A p \in list[k] : p.price \in Nat
  BY OrderIs DEF ConsignInv, ListInv
<1>7. ASSUME NEW g \in list["gold"], NEW m \in list["money"], g.price <= m.price
      PROVE  Side(coin, g, m) = o
  <2>1. g.price \in Nat /\ m.price \in Nat /\ o.price \in Nat /\ x.price \in Nat
    BY <1>1, <1>2, <1>5, <1>6 DEF Coin
  <2>2. CASE coin = "gold"
    <3>1. g = x /\ o \in list["gold"] /\ o.price <= g.price
      BY <1>2, <1>5, <1>7, <2>2 DEF OnlyBy, Side
    <3>2. o.price <= m.price
      BY <1>7, <2>1, <3>1
    <3>3. o = x
      BY <1>2, <2>2, <3>1, <3>2 DEF OnlyBy, Side
    <3> QED  BY <2>2, <3>1, <3>3 DEF Side
  <2>3. CASE coin = "money"
    <3>1. m = x /\ o \in list["money"] /\ o.price >= m.price
      BY <1>2, <1>5, <1>7, <2>3 DEF OnlyBy, Side
    <3>2. g.price <= o.price
      BY <1>7, <2>1, <3>1
    <3>3. o = x
      BY <1>2, <2>3, <3>1, <3>2 DEF OnlyBy, Side
    <3> QED  BY <2>3, <3>1, <3>3 DEF Side
  <2> QED  BY <1>1, <2>2, <2>3 DEF Coin
<1>8. coin = "money" => Multiple(o.num, o.price)
  BY <1>3, <1>5 DEF Whole
<1>9. OnlyThen(coin, o)
  BY <1>4, <1>7 DEF OnlyThen
<1> QED  BY <1>4, <1>8, <1>9 DEF coin, o

\* A turn of the loop trades with orders of the other side and makes nothing cross.
LEMMA MatchSound ==
  ASSUME ConsignInv, Sound, act.op = "trade", NEW p \in Matching, NEW f, Match(p, f), fails' = 0 => fails = 0
  PROVE  Sound'
<1>1. /\ odd' = odd /\ act'.op = "trade" /\ act'.list = act.list /\ act'.coin = act.coin
      /\ act.coin = "money" /\ Multiple(act.num, act.list.price) => Multiple(act'.num, act.list.price)
      /\ \E l \in Nat : /\ list' = list \/ list' = Set(p, l)
                        /\ act.coin = "gold" /\ Multiple(p.num, p.price) => Multiple(l, p.price)
  BY MatchIs DEF Trading
<1> SUFFICES ASSUME fails = 0, ~odd
             PROVE  /\ Whole' /\ OnlyThen(act.coin, act.list)
                    /\ act.coin = "money" => Multiple(act'.num, act.list.price)
  BY <1>1 DEF Sound, OnlyBy, OnlyThen
<1>2. Whole /\ OnlyBy(act.coin, act.list) /\ (act.coin = "money" => Multiple(act.num, act.list.price))
  BY DEF Sound
<1>3. PICK l \in Nat : /\ list' = list \/ list' = Set(p, l)
                       /\ act.coin = "gold" /\ Multiple(p.num, p.price) => Multiple(l, p.price)
  BY <1>1
<1>4. PICK k \in Coin : /\ k # act.coin /\ p \in list[k] /\ act.coin \in Coin
                        /\ (k = "money" <=> act.coin = "gold")
  BY MatchingIs DEF Coin
<1>5. ListInv
  BY DEF ConsignInv
<1>6. Whole'
  <2>1. k = "money" /\ Multiple(p.num, p.price) => Multiple(l, p.price)
    BY <1>3, <1>4
  <2> QED  BY <1>2, <1>3, <1>4, <1>5, <2>1, SetCross
<1>7. OnlyThen(act.coin, act.list)
  <2>1. CASE list' = list
    BY <1>1, <1>2, <2>1 DEF OnlyBy, OnlyThen
  <2>2. CASE list' = Set(p, l)
    <3>1. \A c \in Coin : \A q \in list'[c] :
            \E r \in list[c] : q.price = r.price /\ (q = r \/ (c = k /\ r = p /\ q.num = l))
      BY <1>4, <1>5, <2>2, SetRows
    <3>2. ASSUME NEW g \in list'["gold"], NEW m \in list'["money"], g.price <= m.price
          PROVE  Side(act.coin, g, m) = act.list
      <4>1. PICK h \in list["gold"] : g.price = h.price /\ (g = h \/ "gold" = k)
        BY <3>1 DEF Coin
      <4>2. PICK n \in list["money"] : m.price = n.price /\ (m = n \/ "money" = k)
        BY <3>1 DEF Coin
      <4>3. Side(act.coin, h, n) = act.list
        BY <1>2, <3>2, <4>1, <4>2 DEF OnlyBy
      <4> QED  BY <1>4, <4>1, <4>2, <4>3 DEF Side, Coin
    <3> QED  BY <1>1, <3>2 DEF OnlyThen
  <2> QED  BY <1>3, <2>1, <2>2
<1> QED  BY <1>1, <1>2, <1>6, <1>7

\* The loop of trade ends when nothing crosses with what is left of its order,
\* and that is deleted when it is nothing.
LEMMA FinishSound ==
  ASSUME ConsignInv, Sound, act.op = "trade", NEW f, Finish(f), fails' = 0 => fails = 0 /\ f = {}
  PROVE  Sound'
<1> DEFINE o == act.list  coin == act.coin
<1>1. act' = Idle /\ odd' = odd /\ Matching = {}
  BY FinishIs
<1> SUFFICES ASSUME fails = 0, ~odd, f = {}
             PROVE  Whole' /\ NoneCross'
  BY <1>1 DEF Sound, Idle
<1>2. Whole /\ OnlyBy(coin, o) /\ (coin = "money" => Multiple(act.num, o.price))
  BY DEF Sound
<1>3. list' = IF act.num # o.num THEN Set(o, act.num) ELSE list
  BY <1>2, FinishIs
<1>4. /\ coin \in Coin /\ o \in list[coin] /\ o \in Order /\ act.num \in Nat
      /\ o.num \in Nat \ {0} /\ o.price \in Nat \ {0} /\ ListInv
  BY TradeIs, OrderIs DEF ConsignInv
<1> HIDE DEF o, coin
<1>5. list' \in {list, Set(o, act.num)}
  BY <1>3
<1>6. Whole'
  BY <1>2, <1>4, <1>5, SetCross
<1>7. \A k \in Coin : \A q \in list[k] : q \in Order /\ q.num \in Nat \ {0} /\ q.price \in Nat \ {0}
  BY <1>4, OrderIs DEF ListInv
<1>8. CASE act.num # 0
  <2>1. ASSUME coin = "gold", NEW m \in list["money"], o.price <= m.price PROVE FALSE
    <3> DEFINE S == {p \in list["money"] : p.price >= o.price /\ p.num >= p.price}
    <3>1. Best("money", S) = {}
      BY <1>1, <1>8, <2>1 DEF Matching, o, coin
    <3>2. m.num \in Nat \ {0} /\ m.price \in Nat \ {0} /\ Multiple(m.num, m.price)
      BY <1>2, <1>7 DEF Whole, Coin
    <3>3. m.num >= m.price
      BY <3>2, Multiples
    <3>4. m.price >= o.price
      BY <1>4, <2>1, <3>2
    <3>5. m \in S /\ S \in SUBSET list["money"]
      BY <3>3, <3>4
    <3> HIDE DEF S
    <3> QED  BY <1>4, <3>1, <3>5, Highest
  <2>2. ASSUME coin = "money", NEW g \in list["gold"], g.price <= o.price PROVE FALSE
    <3>1. coin # "gold"
      BY <2>2
    <3>2. Matching = IF act.num \div o.price = 0 THEN {} ELSE {p \in list["gold"] : p.price <= o.price}
      BY <3>1 DEF Matching, o, coin
    <3>3. act.num \div o.price # 0
      BY <1>2, <1>4, <1>8, <2>2, Multiples
    <3> QED  BY <1>1, <2>2, <3>2, <3>3
  <2>3. NoneCross
    <3> SUFFICES ASSUME NEW g \in list["gold"], NEW m \in list["money"], ~(g.price > m.price) PROVE FALSE
      BY DEF NoneCross
    <3>1. g.price <= m.price
      BY <1>7 DEF Coin
    <3>2. Side(coin, g, m) = o
      BY <1>2, <3>1 DEF OnlyBy
    <3>3. coin = "gold" \/ coin = "money"
      BY <1>4 DEF Coin
    <3> QED  BY <2>1, <2>2, <3>1, <3>2, <3>3 DEF Side
  <2> QED  BY <1>4, <1>5, <1>6, <2>3, SetCross
<1>9. CASE act.num = 0
  <2>1. list' = Set(o, 0)
    BY <1>3, <1>4, <1>9
  <2>2. list'[coin] = list[coin] \ {o} /\ \A k \in Coin \ {coin} : list'[k] = list[k]
    BY <1>4, <2>1, SetIs
  <2> SUFFICES ASSUME NEW g \in list'["gold"], NEW m \in list'["money"], ~(g.price > m.price) PROVE FALSE
    BY <1>6 DEF NoneCross
  <2>3. g \in list["gold"] /\ m \in list["money"] /\ Side(coin, g, m) # o
    <3>1. CASE coin = "gold"
      BY <2>2, <3>1 DEF Side, Coin
    <3>2. CASE coin = "money"
      BY <2>2, <3>2 DEF Side, Coin
    <3> QED  BY <1>4, <3>1, <3>2 DEF Coin
  <2>4. g.price <= m.price
    BY <1>7, <2>3 DEF Coin
  <2> QED  BY <1>2, <2>3, <2>4 DEF OnlyBy
<1> QED  BY <1>6, <1>8, <1>9

\* The loop of trade and its end.
LEMMA TradeSound ==
  ASSUME ConsignInv, Sound, Trade
  PROVE  Sound'
<1>0. act.op = "trade" /\ Counts
  BY DEF Trade, ConsignInv
<1>1. ASSUME NEW p \in Matching, NEW f \in SUBSET {"row", "rest", "history", "seller", "buyer"},
             Failing(f, 0), Match(p, f)
      PROVE  Sound'
  <2>1. f \in SUBSET Faults
    BY FaultsAre
  <2>2. fails' = 0 => fails = 0
    BY <1>0, <1>1, <2>1, FailingIs
  <2> QED  BY <1>0, <1>1, <2>2, MatchSound
<1>2. ASSUME NEW f \in SUBSET {"row", "rest", "history"}, Failing(f, 0), Finish(f)
      PROVE  Sound'
  <2>1. f \in SUBSET Faults
    BY FaultsAre
  <2>2. fails' = 0 => fails = 0 /\ f = {}
    BY <1>0, <1>2, <2>1, FailingIs
  <2> QED  BY <1>0, <1>2, <2>2, FinishSound
<1> QED  BY <1>1, <1>2 DEF Trade

\* Without an order nothing crosses that did not.
LEMMA CancelSound ==
  ASSUME ConsignInv, Sound,
         \/ \E k \in Coin : \E o \in list[k] : cancelList(k, o)
         \/ cancelListAll
         \/ CancelNext
  PROVE  Sound'
<1>0. ListInv /\ Counts
  BY DEF ConsignInv
<1>1. ASSUME NEW k \in Coin, NEW o \in list[k], list' \in {list, Set(o, 0)}, odd' = odd,
             fails' = 0 => fails = 0, act.op \in {"idle", "cancelAll"}, act'.op \in {"idle", "cancelAll"}
      PROVE  Sound'
  <2> SUFFICES ASSUME fails = 0, ~odd PROVE Whole' /\ NoneCross'
    BY <1>1 DEF Sound
  <2>1. Multiple(0, o.price)
    <3>1. o.price \in Nat /\ 0 = 0 * o.price
      BY <1>0, <1>1, OrderIs DEF ListInv
    <3> QED  BY <3>1 DEF Multiple
  <2>2. Whole /\ NoneCross
    BY <1>1 DEF Sound
  <2> QED  BY <1>0, <1>1, <2>1, <2>2, SetCross
<1>2. ASSUME NEW k \in Coin, NEW o \in list[k], cancelList(k, o) PROVE Sound'
  <2>1. PICK f \in SUBSET {"add", "row"} : Failing(f, 0) /\ list' = IF "row" \in f THEN list ELSE Set(o, 0)
    BY <1>2 DEF cancelList
  <2>2. act = Idle /\ act' = act /\ odd' = odd
    BY <1>2 DEF cancelList
  <2>3. f \in SUBSET Faults
    BY FaultsAre
  <2>4. fails' = 0 => fails = 0
    BY <1>0, <2>1, <2>3, FailingIs
  <2>5. act.op = "idle" /\ act'.op = "idle"
    BY <2>2 DEF Idle
  <2> QED  BY <1>1, <2>1, <2>2, <2>4, <2>5
<1>3. CASE cancelListAll
  <2>1. UNCHANGED <<list, fails, odd>> /\ act.op = "idle" /\ act'.op = "cancelAll"
    BY <1>3 DEF cancelListAll, Idle
  <2> QED  BY <2>1 DEF Sound, Whole, NoneCross
<1>4. CASE CancelNext
  <2>1. act.op = "cancelAll" /\ act' \in {Idle, act} /\ odd' = odd /\ (fails' = 0 => fails = 0)
        /\ \E k \in Coin : \E o \in list[k] : list' \in {list, Set(o, 0)}
    BY <1>4, CancelNextKeeps
  <2>2. act'.op \in {"idle", "cancelAll"}
    BY <2>1 DEF Idle
  <2> QED  BY <1>1, <2>1, <2>2
<1> QED  BY <1>2, <1>3, <1>4

\* The players' other requests change no order.
LEMMA OthersSound ==
  ASSUME ConsignInv, Sound, NEW a \in Account,
         \/ addUser(a) \/ login(a) \/ removeUser(a)
         \/ \E k \in Moved, n \in Amount : Save(a, k, n) \/ Fetch(a, k, n)
  PROVE  Sound'
<1>0. Counts
  BY DEF ConsignInv
<1>1. CASE addUser(a) \/ removeUser(a)
  <2>1. UNCHANGED <<list, act, odd, fails>>
    BY <1>1 DEF addUser, removeUser
  <2> QED  BY <2>1, SameSound
<1>2. CASE login(a) \/ \E k \in Moved, n \in Amount : Save(a, k, n) \/ Fetch(a, k, n)
  <2>1. /\ UNCHANGED <<list, act, odd>>
        /\ \/ \E f \in SUBSET {"read"} : Failing(f, 0)
           \/ \E f \in SUBSET {"add"} : Failing(f, 0)
           \/ \E f \in SUBSET {"remove"} : Failing(f, 0)
    <3>1. CASE login(a)
      BY <3>1 DEF login
    <3>2. ASSUME NEW k \in Moved, NEW n \in Amount, Save(a, k, n)
          PROVE  UNCHANGED <<list, act, odd>> /\ \E f \in SUBSET {"add"} : Failing(f, 0)
      BY <3>2 DEF Save
    <3>3. ASSUME NEW k \in Moved, NEW n \in Amount, Fetch(a, k, n)
          PROVE  UNCHANGED <<list, act, odd>> /\ \E f \in SUBSET {"remove"} : Failing(f, 0)
      BY <3>3 DEF Fetch
    <3> QED  BY <1>2, <3>1, <3>2, <3>3
  <2>2. /\ SUBSET {"read"} \subseteq SUBSET Faults /\ SUBSET {"add"} \subseteq SUBSET Faults
        /\ SUBSET {"remove"} \subseteq SUBSET Faults
    BY DEF Faults
  <2>3. PICK f \in SUBSET Faults : Failing(f, 0)
    BY <2>1, <2>2
  <2>4. fails' = 0 => fails = 0
    BY <1>0, <2>3, FailingIs
  <2> QED  BY <2>1, <2>4, SameSound
<1> QED  BY <1>1, <1>2

\* No orders, none cross.
LEMMA InitSound == Init => Sound
<1> SUFFICES ASSUME Init PROVE Sound
  OBVIOUS
<1>1. act.op = "idle" /\ list["gold"] = {} /\ list["money"] = {}
  BY DEF Init, Idle, Coin
<1> QED  BY <1>1 DEF Sound, Whole, NoneCross

\* Sound is inductive.
LEMMA NextSound == ConsignInv /\ Sound /\ [Next]_vars => Sound'
<1> SUFFICES ASSUME ConsignInv, Sound, [Next]_vars PROVE Sound'
  OBVIOUS
<1>1. ASSUME NEW a \in Account,
             \/ addUser(a) \/ login(a) \/ removeUser(a)
             \/ \E k \in Moved, n \in Amount : Save(a, k, n) \/ Fetch(a, k, n)
      PROVE  Sound'
  BY <1>1, OthersSound
<1>2. ASSUME NEW a \in Account, NEW k \in Coin, NEW n \in Num, NEW p \in Price, putList(a, k, n, p)
      PROVE  Sound'
  BY <1>2, PutSound
<1>3. CASE Begin
  BY <1>3, BeginSound
<1>4. CASE Trade
  BY <1>4, TradeSound
<1>5. CASE (\E k \in Coin : \E o \in list[k] : cancelList(k, o)) \/ cancelListAll \/ CancelNext
  BY <1>5, CancelSound
<1>6. CASE UNCHANGED vars
  BY <1>6, SameSound DEF vars
<1> QED  BY <1>1, <1>2, <1>3, <1>4, <1>5, <1>6 DEF Next

\* The exchange leaves no two orders that could be traded, although each order
\* put tries only the best one of its side: for any number of orders, in any
\* order, with players coming and going between two turns, while no write has
\* failed and every order of money was a multiple of its price.
THEOREM ConsignUncrossed == Spec => []Uncrossed
<1>1. Sound => Uncrossed
  BY DEF Sound, Uncrossed, NoneCross, Idle
<1> QED  BY <1>1, InitTypes, NextTypes, InitSound, NextSound, PTL DEF Spec

(***************************************************************************)
(* Sums over finite sets: MapThenSumSet, of a fold with CHOOSE             *)
(***************************************************************************)
\* What holds of a set when it holds of the set without any of its elements,
\* holds of every part of a finite set.
LEMMA PartInduction ==
  ASSUME NEW S, IsFiniteSet(S), NEW P,
         \A s \in SUBSET S : (\A x \in s : s \ {x} \in P) => s \in P
  PROVE  SUBSET S \subseteq P
<1> SUFFICES ASSUME NEW t \in SUBSET S, t \notin P PROVE FALSE
  OBVIOUS
<1>1. \A s \in SUBSET S : IsFiniteSet(s) /\ Cardinality(s) \in Nat
  BY FS_Subset, FS_CardinalityType
<1> DEFINE sizes == {Cardinality(s) : s \in {r \in SUBSET S : r \notin P}}
<1>2. sizes \in SUBSET Nat /\ sizes # {}
  BY <1>1
<1>3. PICK n \in sizes : \A m \in sizes : n <= m
  <2> HIDE DEF sizes
  <2> QED  BY <1>2, Smallest
<1>4. PICK s \in SUBSET S : s \notin P /\ n = Cardinality(s)
  OBVIOUS
<1>5. ASSUME NEW x \in s PROVE s \ {x} \in P
  <2>1. Cardinality(s \ {x}) = Cardinality(s) - 1 /\ s \ {x} \in SUBSET S
    BY <1>1, FS_RemoveElement
  <2>2. s \ {x} \notin P => Cardinality(s \ {x}) \in sizes
    BY <2>1
  <2>3. n \in Nat
    BY <1>1, <1>4
  <2> HIDE DEF sizes
  <2> QED  BY <1>3, <1>4, <2>1, <2>2, <2>3
<1> QED  BY <1>4, <1>5

\* The fold that MapThenSumSet takes a sum by, and the sum, with a function for
\* what is added of each element.
Folds(S, g, h) ==
  h = [s \in SUBSET S |-> IF s = {} THEN 0 ELSE g[CHOOSE x \in s : TRUE] + h[s \ {CHOOSE x \in s : TRUE}]]
Total(S, g) == (CHOOSE h : Folds(S, g, h))[S]

\* There is a fold over every finite set: it is built for sets of one element more and more.
LEMMA FoldExists ==
  ASSUME NEW S, IsFiniteSet(S), NEW g
  PROVE  \E h : Folds(S, g, h)
<1> DEFINE one(s) == CHOOSE x \in s : TRUE
           level(n) == {s \in SUBSET S : Cardinality(s) <= n}
           stage(n, h) == h = [s \in level(n) |-> IF s = {} THEN 0 ELSE g[one(s)] + h[s \ {one(s)}]]
           done == {n \in Nat : \E h : stage(n, h)}
<1>1. \A s \in SUBSET S : IsFiniteSet(s) /\ Cardinality(s) \in Nat /\ (Cardinality(s) = 0 <=> s = {})
  BY FS_Subset, FS_CardinalityType, FS_EmptySet
<1>2. \A s \in SUBSET S : s # {} => one(s) \in s /\ Cardinality(s \ {one(s)}) = Cardinality(s) - 1
  BY <1>1, FS_RemoveElement
<1>3. 0 \in done
  <2> DEFINE h == [s \in level(0) |-> 0]
  <2>1. \A s \in level(0) : s = {}
    BY <1>1
  <2>2. stage(0, h)
    <3> HIDE DEF level, one
    <3> QED  BY <2>1
  <2> QED  BY <2>2
<1>4. ASSUME NEW n \in done PROVE n + 1 \in done
  <2>1. PICK h : stage(n, h)
    BY <1>4
  <2> DEFINE k == [s \in level(n + 1) |-> IF s = {} THEN 0 ELSE g[one(s)] + h[s \ {one(s)}]]
  <2>2. n \in Nat
    BY <1>4
  <2>3. \A s \in level(n) : s \in level(n + 1)
    BY <1>1, <2>2
  <2>4. \A s \in level(n + 1) : s # {} => s \ {one(s)} \in level(n)
    BY <1>1, <1>2, <2>2
  <2> HIDE DEF level, one
  <2>5. \A s \in level(n) : k[s] = h[s]
    <3> SUFFICES ASSUME NEW s \in level(n) PROVE k[s] = h[s]
      OBVIOUS
    <3>1. k[s] = IF s = {} THEN 0 ELSE g[one(s)] + h[s \ {one(s)}]
      BY <2>3
    <3>2. h[s] = IF s = {} THEN 0 ELSE g[one(s)] + h[s \ {one(s)}]
      BY <2>1
    <3> QED  BY <3>1, <3>2
  <2>6. \A s \in level(n + 1) : s # {} => h[s \ {one(s)}] = k[s \ {one(s)}]
    BY <2>4, <2>5
  <2>7. k = [s \in level(n + 1) |-> IF s = {} THEN 0 ELSE g[one(s)] + k[s \ {one(s)}]]
    <3> DEFINE j == [s \in level(n + 1) |-> IF s = {} THEN 0 ELSE g[one(s)] + k[s \ {one(s)}]]
    <3>1. \A s \in level(n + 1) : k[s] = j[s]
      <4> SUFFICES ASSUME NEW s \in level(n + 1) PROVE k[s] = j[s]
        OBVIOUS
      <4>1. j[s] = IF s = {} THEN 0 ELSE g[one(s)] + k[s \ {one(s)}]
        OBVIOUS
      <4>2. k[s] = IF s = {} THEN 0 ELSE g[one(s)] + h[s \ {one(s)}]
        OBVIOUS
      <4> HIDE DEF k, j
      <4> QED  BY <2>6, <4>1, <4>2
    <3> QED  BY <3>1
  <2>8. stage(n + 1, k)
    BY <2>7
  <2> HIDE DEF k, stage
  <2> QED  BY <2>2, <2>8
<1> HIDE DEF stage
<1>5. Cardinality(S) \in done
  <2>1. Cardinality(S) \in Nat
    BY <1>1
  <2> DEFINE missing == Nat \ done
  <2>2. CASE missing = {}
    BY <2>1, <2>2
  <2>3. CASE missing # {}
    <3>1. PICK m \in missing : \A x \in missing : m <= x
      <4> HIDE DEF missing
      <4>1. missing \in SUBSET Nat
        BY DEF missing
      <4> QED  BY <2>3, <4>1, Smallest
    <3> HIDE DEF done
    <3>2. m # 0 /\ m \in Nat
      BY <1>3
    <3>3. m - 1 \in Nat /\ ~(m <= m - 1) /\ (m - 1) + 1 = m
      BY <3>2
    <3>4. m - 1 \in done
      BY <3>1, <3>3
    <3>5. m \in done
      BY <1>4, <3>3, <3>4
    <3> QED  BY <3>5
  <2> QED  BY <2>2, <2>3
<1>6. PICK h : stage(Cardinality(S), h)
  BY <1>5
<1>7. level(Cardinality(S)) = SUBSET S
  <2>1. \A s \in SUBSET S : Cardinality(s) <= Cardinality(S)
    BY FS_Subset
  <2> QED  BY <2>1
<1>8. Folds(S, g, h)
  <2> HIDE DEF level
  <2> QED  BY <1>6, <1>7 DEF Folds, stage
<1> QED  BY <1>8

\* Two folds that add the same for each element of a set give the same for it.
LEMMA FoldsAgree ==
  ASSUME NEW S, IsFiniteSet(S), NEW T, NEW g, NEW k, NEW h, Folds(S, g, h), NEW j, Folds(T, k, j),
         S \subseteq T, \A x \in S : g[x] = k[x]
  PROVE  \A s \in SUBSET S : h[s] = j[s]
<1> DEFINE P == {s \in SUBSET S : h[s] = j[s]}
<1>1. ASSUME NEW s \in SUBSET S, \A x \in s : s \ {x} \in P PROVE s \in P
  <2> DEFINE x == CHOOSE x \in s : TRUE
  <2>1. s \in SUBSET T
    OBVIOUS
  <2>2. h[s] = IF s = {} THEN 0 ELSE g[x] + h[s \ {x}]
    BY DEF Folds
  <2>3. j[s] = IF s = {} THEN 0 ELSE k[x] + j[s \ {x}]
    BY <2>1 DEF Folds
  <2>4. s # {} => x \in s
    OBVIOUS
  <2> HIDE DEF x
  <2>5. s # {} => h[s \ {x}] = j[s \ {x}] /\ g[x] = k[x]
    BY <1>1, <2>4
  <2> QED  BY <2>2, <2>3, <2>5
<1> HIDE DEF P
<1>2. SUBSET S \subseteq P
  BY <1>1, PartInduction
<1> QED  BY <1>2 DEF P

\* A fold adds numbers, whichever element is taken last.
LEMMA FoldAny ==
  ASSUME NEW S, IsFiniteSet(S), NEW g, \A x \in S : g[x] \in Int, NEW h, Folds(S, g, h)
  PROVE  /\ h[{}] = 0
         /\ \A s \in SUBSET S : h[s] \in Int
         /\ \A s \in SUBSET S : \A x \in s : h[s] = g[x] + h[s \ {x}]
<1> DEFINE P == {s \in SUBSET S : h[s] \in Int /\ \A x \in s : h[s] = g[x] + h[s \ {x}]}
<1>0. h[{}] = 0
  BY DEF Folds
<1>3. \A s \in SUBSET S : h[s] \in Int
  <2> DEFINE Q == {s \in SUBSET S : h[s] \in Int}
  <2>1. ASSUME NEW s \in SUBSET S, \A x \in s : s \ {x} \in Q PROVE s \in Q
    <3> DEFINE y == CHOOSE x \in s : TRUE
    <3>1. h[s] = IF s = {} THEN 0 ELSE g[y] + h[s \ {y}]
      BY DEF Folds
    <3>2. s # {} => y \in s
      OBVIOUS
    <3> HIDE DEF y
    <3>3. s # {} => h[s \ {y}] \in Int /\ g[y] \in Int
      BY <2>1, <3>2
    <3> QED  BY <3>1, <3>3
  <2> HIDE DEF Q
  <2>2. SUBSET S \subseteq Q
    BY <2>1, PartInduction
  <2> QED  BY <2>2 DEF Q
<1>1. ASSUME NEW s \in SUBSET S, \A x \in s : s \ {x} \in P PROVE s \in P
  <2> DEFINE y == CHOOSE x \in s : TRUE
  <2>1. s # {} => h[s] = g[y] + h[s \ {y}] /\ y \in s
    BY DEF Folds
  <2> HIDE DEF y
  <2>2. CASE s = {}
    BY <1>0, <2>2
  <2>3. ASSUME s # {} PROVE s \in P
    <3>1. h[s \ {y}] \in Int /\ g[y] \in Int
      BY <1>1, <2>1, <2>3
    <3>2. h[s] \in Int
      BY <2>1, <2>3, <3>1
    <3>3. ASSUME NEW x \in s, x # y PROVE h[s] = g[x] + h[s \ {x}]
      <4> DEFINE r == (s \ {x}) \ {y}
      <4>1. (s \ {y}) \ {x} = r /\ x \in s \ {y} /\ y \in s \ {x}
        BY <2>1, <2>3, <3>3
      <4>2. h[s \ {y}] = g[x] + h[r]
        BY <1>1, <2>1, <2>3, <4>1
      <4>3. h[s \ {x}] = g[y] + h[r]
        BY <1>1, <4>1
      <4>4. h[r] \in Int /\ g[x] \in Int /\ g[y] \in Int
        <5>1. r \in SUBSET S
          OBVIOUS
        <5> HIDE DEF r, P
        <5> QED  BY <1>3, <2>1, <2>3, <5>1
      <4> HIDE DEF r, P
      <4> QED  BY <2>1, <2>3, <4>2, <4>3, <4>4
    <3> QED  BY <2>1, <2>3, <3>2, <3>3
  <2> QED  BY <2>2, <2>3
<1> HIDE DEF P
<1>2. SUBSET S \subseteq P
  BY <1>1, PartInduction
<1> QED  BY <1>0, <1>2 DEF P

\* The sum over a finite set of numbers.
LEMMA TotalIs ==
  ASSUME NEW S, IsFiniteSet(S), NEW g, \A x \in S : g[x] \in Int
  PROVE  /\ Total(S, g) \in Int
         /\ \A y \in S : Total(S, g) = g[y] + Total(S \ {y}, g)
<1> DEFINE c == CHOOSE h : Folds(S, g, h)
<1>1. Folds(S, g, c)
  BY FoldExists
<1>2. Total(S, g) = c[S]
  BY DEF Total
<1> HIDE DEF c
<1>3. c[S] \in Int /\ \A y \in S : c[S] = g[y] + c[S \ {y}]
  BY <1>1, FoldAny
<1>4. ASSUME NEW y \in S PROVE Total(S \ {y}, g) = c[S \ {y}]
  <2> DEFINE T == S \ {y}
             d == CHOOSE h : Folds(T, g, h)
  <2>1. T \subseteq S /\ IsFiniteSet(T)
    BY FS_Subset
  <2> HIDE DEF T
  <2>2. Folds(T, g, d)
    BY <2>1, FoldExists
  <2>3. Total(T, g) = d[T]
    BY DEF Total
  <2> HIDE DEF d
  <2>4. d[T] = c[T]
    BY <1>1, <2>1, <2>2, FoldsAgree
  <2> QED  BY <2>3, <2>4 DEF T
<1> QED  BY <1>2, <1>3, <1>4

\* The same numbers have the same sum.
LEMMA TotalSame ==
  ASSUME NEW S, IsFiniteSet(S), NEW g, NEW k, \A x \in S : g[x] = k[x]
  PROVE  Total(S, g) = Total(S, k)
<1> DEFINE c == CHOOSE h : Folds(S, g, h)
           d == CHOOSE h : Folds(S, k, h)
<1>1. Folds(S, g, c) /\ Folds(S, k, d)
  BY FoldExists
<1>2. Total(S, g) = c[S] /\ Total(S, k) = d[S]
  BY DEF Total
<1> HIDE DEF c, d
<1>3. c[S] = d[S]
  BY <1>1, FoldsAgree
<1> QED  BY <1>2, <1>3

\* One number changes.
LEMMA TotalChange ==
  ASSUME NEW S, IsFiniteSet(S), NEW g, NEW k, \A x \in S : g[x] \in Int /\ k[x] \in Int,
         NEW y \in S, \A x \in S \ {y} : g[x] = k[x]
  PROVE  Total(S, k) = Total(S, g) + k[y] - g[y]
<1> DEFINE T == S \ {y}
<1>1. Total(S, g) = g[y] + Total(T, g) /\ Total(S, k) = k[y] + Total(T, k)
  BY TotalIs
<1>2. IsFiniteSet(T) /\ (\A x \in T : g[x] \in Int /\ g[x] = k[x]) /\ g[y] \in Int /\ k[y] \in Int
  BY FS_Subset
<1> HIDE DEF T
<1>3. Total(T, g) \in Int /\ Total(T, g) = Total(T, k)
  BY <1>2, TotalIs, TotalSame
<1> QED  BY <1>1, <1>2, <1>3

(***************************************************************************)
(* What there is of a coin, taken apart.                                    *)
(***************************************************************************)
\* In a row, its tax included.
Held(x, k) == x.row.have[k] + x.row.tax[k]
\* In the rows of A and outside.
Owned(A, out, k) == Total(Account, [a \in Account |-> A[a].row.have[k] + A[a].row.tax[k] + out[a][k]])
\* In the orders of a table, the main loop being at c.
At(c, k, o) == IF c.op = "trade" /\ c.coin = k /\ o.id = c.list.id THEN c.num ELSE o.num
Bound(L, c, k) == Total(L, [o \in Order |-> At(c, k, o)])
\* Kept by the system.
Kept(s, c, k) == IF k = "gold" THEN 0 ELSE s + IF c.op = "trade" THEN c.sys ELSE 0

\* Worth adds these up.
LEMMA WorthIs ==
  ConsignInv => \A k \in Coin : Worth(k) = Owned(acct, pack, k) + Bound(list[k], act, k) + Kept(spread, act, k)
<1> SUFFICES ASSUME ConsignInv, NEW k \in Coin
             PROVE  Worth(k) = Owned(acct, pack, k) + Bound(list[k], act, k) + Kept(spread, act, k)
  OBVIOUS
<1> DEFINE trading == act.op = "trade" /\ act.coin = k
           rows == MapThenSumSet(LAMBDA a : acct[a].row.have[k] + acct[a].row.tax[k] + pack[a][k], Account)
           tied == MapThenSumSet(LAMBDA o : IF trading /\ o.id = act.list.id THEN act.num ELSE o.num, list[k])
           kept == IF k = "gold" THEN 0 ELSE spread + IF act.op = "trade" THEN act.sys ELSE 0
<1>1. Worth(k) = rows + tied + kept
  BY DEF Worth
<1>2. rows = Owned(acct, pack, k)
  <2> DEFINE g == [a \in Account |-> acct[a].row.have[k] + acct[a].row.tax[k] + pack[a][k]]
             P(h) == h = [s \in SUBSET Account |->
                       IF s = {} THEN 0
                       ELSE (acct[CHOOSE x \in s : TRUE].row.have[k] + acct[CHOOSE x \in s : TRUE].row.tax[k]
                             + pack[CHOOSE x \in s : TRUE][k]) + h[s \ {CHOOSE x \in s : TRUE}]]
             c == CHOOSE h : P(h)
             d == CHOOSE h : Folds(Account, g, h)
  <2>1. rows = c[Account]
    BY DEF MapThenSumSet, MapThenFoldSet
  <2>2. ASSUME NEW h PROVE P(h) <=> Folds(Account, g, h)
    <3>1. \A s \in SUBSET Account : s # {} =>
            g[CHOOSE x \in s : TRUE] = acct[CHOOSE x \in s : TRUE].row.have[k] + acct[CHOOSE x \in s : TRUE].row.tax[k]
                                        + pack[CHOOSE x \in s : TRUE][k]
      OBVIOUS
    <3> HIDE DEF g
    <3>2. [s \in SUBSET Account |-> IF s = {} THEN 0
                       ELSE (acct[CHOOSE x \in s : TRUE].row.have[k] + acct[CHOOSE x \in s : TRUE].row.tax[k]
                             + pack[CHOOSE x \in s : TRUE][k]) + h[s \ {CHOOSE x \in s : TRUE}]]
          = [s \in SUBSET Account |-> IF s = {} THEN 0 ELSE g[CHOOSE x \in s : TRUE] + h[s \ {CHOOSE x \in s : TRUE}]]
      BY <3>1
    <3> QED  BY <3>2 DEF Folds
  <2>3. IsFiniteSet(Account)
    BY ConsignAssumption
  <2> HIDE DEF P, g
  <2>4. Folds(Account, g, d) /\ Folds(Account, g, c)
    <3>1. \E h : Folds(Account, g, h)
      BY <2>3, FoldExists
    <3>2. \E h : P(h)
      BY <2>2, <3>1
    <3>3. P(c)
      BY <3>2
    <3> QED  BY <2>2, <3>1, <3>3
  <2> HIDE DEF c, rows
  <2>5. Total(Account, g) = d[Account]
    BY DEF Total
  <2> HIDE DEF d
  <2>6. c[Account] = d[Account]
    BY <2>3, <2>4, FoldsAgree
  <2> QED  BY <2>1, <2>5, <2>6 DEF Owned, g
<1>3. tied = Bound(list[k], act, k)
  <2> DEFINE S == list[k]
             g == [o \in Order |-> At(act, k, o)]
             P(h) == h = [s \in SUBSET list[k] |->
                       IF s = {} THEN 0
                       ELSE (IF trading /\ (CHOOSE x \in s : TRUE).id = act.list.id THEN act.num
                             ELSE (CHOOSE x \in s : TRUE).num) + h[s \ {CHOOSE x \in s : TRUE}]]
             c == CHOOSE h : P(h)
             d == CHOOSE h : Folds(S, g, h)
  <2>1. tied = c[list[k]]
    BY DEF MapThenSumSet, MapThenFoldSet
  <2>0. IsFiniteSet(S) /\ S \subseteq Order
    BY TableFinite DEF ConsignInv, ListInv
  <2>2. ASSUME NEW h PROVE P(h) <=> Folds(S, g, h)
    <3>1. \A s \in SUBSET S : s # {} =>
            g[CHOOSE x \in s : TRUE] = IF trading /\ (CHOOSE x \in s : TRUE).id = act.list.id THEN act.num
                                       ELSE (CHOOSE x \in s : TRUE).num
      <4> SUFFICES ASSUME NEW s \in SUBSET S, s # {}
                   PROVE  g[CHOOSE x \in s : TRUE] = IF trading /\ (CHOOSE x \in s : TRUE).id = act.list.id THEN act.num
                                       ELSE (CHOOSE x \in s : TRUE).num
        OBVIOUS
      <4>1. (CHOOSE x \in s : TRUE) \in Order
        BY <2>0
      <4> QED  BY <4>1 DEF At
    <3> HIDE DEF g, trading
    <3>2. [s \in SUBSET list[k] |-> IF s = {} THEN 0
                       ELSE (IF trading /\ (CHOOSE x \in s : TRUE).id = act.list.id THEN act.num
                             ELSE (CHOOSE x \in s : TRUE).num) + h[s \ {CHOOSE x \in s : TRUE}]]
          = [s \in SUBSET S |-> IF s = {} THEN 0 ELSE g[CHOOSE x \in s : TRUE] + h[s \ {CHOOSE x \in s : TRUE}]]
      BY <3>1
    <3> QED  BY <3>2 DEF Folds
  <2> HIDE DEF P, g
  <2>4. Folds(S, g, d) /\ Folds(S, g, c)
    <3>1. \E h : Folds(S, g, h)
      BY <2>0, FoldExists
    <3>2. \E h : P(h)
      BY <2>2, <3>1
    <3>3. P(c)
      BY <3>2
    <3> QED  BY <2>2, <3>1, <3>3
  <2> HIDE DEF c, tied
  <2>5. Total(S, g) = d[S]
    BY DEF Total
  <2> HIDE DEF d
  <2>6. c[S] = d[S]
    BY <2>0, <2>4, FoldsAgree
  <2> QED  BY <2>1, <2>5, <2>6 DEF Bound, g
<1>4. kept = Kept(spread, act, k)
  BY DEF Kept
<1> HIDE DEF rows, tied, kept
<1> QED  BY <1>1, <1>2, <1>3, <1>4

(***************************************************************************)
(* What an account, a table and the system hold                            *)
(***************************************************************************)
\* An account's coins are numbers.
LEMMA HeldIs ==
  ASSUME NEW x, Good(x), NEW k \in Coin
  PROVE  /\ x.row.have[k] \in Int /\ x.row.tax[k] \in Int /\ Held(x, k) \in Int
         /\ x.user # None => x.user.bal.have[k] \in Int /\ x.user.bal.tax[k] \in Int
<1>1. x.row \in Balance /\ (x.user # None => x.user \in BillUser)
  BY DEF Good
<1> QED  BY <1>1 DEF Balance, BillUser, Held

\* Accounts and packs, before and after, that differ for a only.
Differ(A, B, out, ouu, a) ==
  /\ A \in [Account -> GoodAcct] /\ B \in [Account -> GoodAcct]
  /\ out \in [Account -> [Coin -> 0 .. MaxPack]] /\ ouu \in [Account -> [Coin -> 0 .. MaxPack]]
  /\ \A b \in Account \ {a} : A[b].row = B[b].row /\ out[b] = ouu[b]

\* One account and what one player has outside change.
LEMMA OwnedChange ==
  ASSUME NEW A, NEW B, NEW out, NEW ouu, NEW a \in Account, Differ(A, B, out, ouu, a), NEW k \in Coin
  PROVE  /\ Owned(A, out, k) \in Int
         /\ Owned(B, ouu, k) = Owned(A, out, k) + (Held(B[a], k) - Held(A[a], k)) + (ouu[a][k] - out[a][k])
<1> USE DEF Differ
<1> DEFINE g == [b \in Account |-> A[b].row.have[k] + A[b].row.tax[k] + out[b][k]]
           h == [b \in Account |-> B[b].row.have[k] + B[b].row.tax[k] + ouu[b][k]]
<1>1. \A b \in Account : /\ g[b] = Held(A[b], k) + out[b][k] /\ h[b] = Held(B[b], k) + ouu[b][k]
                         /\ Held(A[b], k) \in Int /\ Held(B[b], k) \in Int /\ out[b][k] \in Int /\ ouu[b][k] \in Int
  <2> SUFFICES ASSUME NEW b \in Account
               PROVE  /\ g[b] = Held(A[b], k) + out[b][k] /\ h[b] = Held(B[b], k) + ouu[b][k]
                      /\ Held(A[b], k) \in Int /\ Held(B[b], k) \in Int /\ out[b][k] \in Int /\ ouu[b][k] \in Int
    OBVIOUS
  <2>1. Good(A[b]) /\ Good(B[b])
    BY GoodIs
  <2>2. Held(A[b], k) \in Int /\ Held(B[b], k) \in Int
    BY <2>1, HeldIs
  <2>3. out[b][k] \in 0 .. MaxPack /\ ouu[b][k] \in 0 .. MaxPack
    OBVIOUS
  <2> QED  BY <2>2, <2>3, ConsignAssumption DEF Held
<1>2. \A b \in Account \ {a} : g[b] = h[b]
  OBVIOUS
<1>3. IsFiniteSet(Account)
  BY ConsignAssumption
<1>4. Owned(A, out, k) = Total(Account, g) /\ Owned(B, ouu, k) = Total(Account, h)
  BY DEF Owned
<1> HIDE DEF g, h
<1>5. \A b \in Account : g[b] \in Int /\ h[b] \in Int
  BY <1>1
<1>6. Total(Account, g) \in Int /\ Total(Account, h) = Total(Account, g) + h[a] - g[a]
  BY <1>2, <1>3, <1>5, TotalIs, TotalChange
<1> QED  BY <1>1, <1>4, <1>6

\* What is outside stays, and one account changes.
LEMMA OwnedOne ==
  ASSUME NEW A, NEW B, NEW out, NEW a \in Account, Differ(A, B, out, out, a), NEW k \in Coin
  PROVE  Owned(B, out, k) = Owned(A, out, k) + (Held(B[a], k) - Held(A[a], k))
<1>1. out[a][k] \in Int
  <2>1. out[a][k] \in 0 .. MaxPack
    BY DEF Differ
  <2> QED  BY <2>1, ConsignAssumption
<1>2. Owned(B, out, k) = Owned(A, out, k) + (Held(B[a], k) - Held(A[a], k)) + (out[a][k] - out[a][k])
  BY OwnedChange
<1>3. Owned(A, out, k) \in Int
  BY OwnedChange
<1>4. Held(B[a], k) \in Int /\ Held(A[a], k) \in Int
  BY HeldIs, GoodIs DEF Differ
<1> QED  BY ONLY <1>1, <1>2, <1>3, <1>4

\* A change by way of a copy that is the row's: exact, and the copy stays the row's.
LEMMA AddHeld ==
  ASSUME NEW x, Good(x), x.user # None, NEW coin \in Coin, NEW n \in Int, NEW tax \in Int
  PROVE  LET y == Add(x, coin, n, tax)
         IN  /\ y.user.bal.have[coin] = x.user.bal.have[coin] + n
             /\ y.user.login = x.user.login
             /\ y.user.bal.tax[coin] = x.user.bal.tax[coin] + tax
             /\ x.user.bal = x.row => /\ y.user.bal = y.row /\ Held(y, coin) = Held(x, coin) + n + tax
                                      /\ \A k \in Coin \ {coin} : Held(y, k) = Held(x, k)
<1> DEFINE h == [x.user.bal.have EXCEPT ![coin] = @ + n]  g == [x.user.bal.tax EXCEPT ![coin] = @ + tax]
           y == Add(x, coin, n, tax)
<1>1. x.row \in Balance /\ x.user \in BillUser
  BY DEF Good
<1>2. /\ x.row.have \in [Coin -> Int] /\ x.row.tax \in [Coin -> Int]
      /\ x.user.bal.have \in [Coin -> Int] /\ x.user.bal.tax \in [Coin -> Int]
  BY <1>1 DEF Balance, BillUser
<1>3. /\ y.user.bal.have = h /\ y.user.bal.tax = g /\ y.user.bal = [have |-> h, tax |-> g]
      /\ y.user.login = x.user.login
      /\ y.row = [have |-> [x.row.have EXCEPT ![coin] = h[coin]], tax |-> [x.row.tax EXCEPT ![coin] = g[coin]]]
      /\ y.row.have = [x.row.have EXCEPT ![coin] = h[coin]] /\ y.row.tax = [x.row.tax EXCEPT ![coin] = g[coin]]
  BY DEF Add
<1>4. h[coin] = x.user.bal.have[coin] + n /\ g[coin] = x.user.bal.tax[coin] + tax
  BY <1>2
<1>5. ASSUME x.user.bal = x.row
      PROVE  /\ y.user.bal = y.row /\ Held(y, coin) = Held(x, coin) + n + tax
             /\ \A k \in Coin \ {coin} : Held(y, k) = Held(x, k)
  <2>1. x.user.bal.have = x.row.have /\ x.user.bal.tax = x.row.tax
    BY <1>5
  <2>2. y.user.bal = y.row
    <3>1. [x.row.have EXCEPT ![coin] = h[coin]] = h /\ [x.row.tax EXCEPT ![coin] = g[coin]] = g
      BY <1>2, <2>1
    <3> HIDE DEF h, g, y
    <3> QED  BY <1>3, <3>1
  <2>3. y.row.have[coin] = x.row.have[coin] + n /\ y.row.tax[coin] = x.row.tax[coin] + tax
    <3> HIDE DEF h, g, y
    <3> QED  BY <1>2, <1>3, <1>4, <2>1
  <2>4. \A k \in Coin \ {coin} : y.row.have[k] = x.row.have[k] /\ y.row.tax[k] = x.row.tax[k]
    <3> HIDE DEF h, g, y
    <3> QED  BY <1>2, <1>3
  <2> HIDE DEF y
  <2>5. x.row.have[coin] \in Int /\ x.row.tax[coin] \in Int
    BY <1>2
  <2> QED  BY <2>2, <2>3, <2>4, <2>5 DEF Held
<1> QED  BY <1>3, <1>4, <1>5

\* A change of the row.
LEMMA AddRowHeld ==
  ASSUME NEW x, Good(x), NEW coin \in Coin, NEW n \in Int
  PROVE  LET y == AddRow(x, coin, n)
         IN  /\ y.user = x.user /\ Held(y, coin) = Held(x, coin) + n
             /\ \A k \in Coin \ {coin} : Held(y, k) = Held(x, k)
<1> DEFINE row == [x.row EXCEPT !.have[coin] = @ + n]
<1>1. /\ x = [row |-> x.row, user |-> x.user]
      /\ x.row = [have |-> x.row.have, tax |-> x.row.tax] /\ x.row.have \in [Coin -> Int] /\ x.row.tax \in [Coin -> Int]
  BY DEF Good, Balance
<1>2. row = [have |-> [x.row.have EXCEPT ![coin] = @ + n], tax |-> x.row.tax]
  BY <1>1
<1>3. AddRow(x, coin, n) = [row |-> row, user |-> x.user]
  BY <1>1 DEF AddRow
<1>4. row.have[coin] = x.row.have[coin] + n /\ row.tax = x.row.tax /\ \A k \in Coin \ {coin} : row.have[k] = x.row.have[k]
  BY <1>1, <1>2
<1> HIDE DEF row
<1>5. x.row.have[coin] \in Int /\ x.row.tax[coin] \in Int
  BY <1>1
<1> QED  BY <1>3, <1>4, <1>5 DEF Held

\* Who is paid has that much more: in the row when he has no copy, by the copy when
\* it is the row's.
Exact(x) == x.user # None => x.user.bal = x.row

\* Being paid is exact and leaves the copy the row's.
LEMMA PayHeld ==
  ASSUME NEW x, Good(x), Exact(x), NEW coin \in Coin, NEW n \in Int
  PROVE  LET y == Pay(x, coin, n)
         IN  /\ Exact(y) /\ Held(y, coin) = Held(x, coin) + n
             /\ \A k \in Coin \ {coin} : Held(y, k) = Held(x, k)
<1>1. CASE x.user # None
  <2>1. Pay(x, coin, n) = Add(x, coin, n, 0) /\ x.user.bal = x.row
    BY <1>1 DEF Pay, Exact
  <2>2. Held(x, coin) \in Int
    BY HeldIs
  <2> QED  BY <1>1, <2>1, <2>2, AddHeld DEF Exact
<1>2. CASE x.user = None
  BY <1>2, AddRowHeld DEF Pay, Exact
<1> QED  BY <1>1, <1>2

\* Whether the main loop counts an order at its own number.
LEMMA AtIs ==
  ASSUME ConsignInv, NEW k \in Coin, NEW o \in list[k]
  PROVE  /\ At(act, k, o) \in Int
         /\ act.op = "trade" /\ o = act.list => At(act, k, o) = act.num
         /\ ~(act.op = "trade" /\ o = act.list) => At(act, k, o) = o.num
<1>1. o \in Order /\ o.num \in Int
  BY OrderIs DEF ConsignInv, ListInv
<1>2. ASSUME act.op = "trade"
      PROVE  /\ act.num \in Int /\ act.coin \in Coin /\ act.list \in list[act.coin]
             /\ o.id = act.list.id <=> o = act.list
             /\ o = act.list => k = act.coin
  BY <1>2, TradeIs DEF ConsignInv, ListInv
<1> QED  BY <1>1, <1>2 DEF At

\* The numbers of the orders of a table have a sum.
LEMMA BoundIs ==
  ASSUME NEW L, IsFiniteSet(L), L \subseteq Order, NEW c, NEW k, \A p \in L : At(c, k, p) \in Int
  PROVE  Bound(L, c, k) \in Int
<1> DEFINE g == [p \in Order |-> At(c, k, p)]
<1>1. \A p \in L : g[p] \in Int
  OBVIOUS
<1>2. Bound(L, c, k) = Total(L, g)
  BY DEF Bound
<1> HIDE DEF g
<1> QED  BY <1>1, <1>2, TotalIs

\* One order of a table is gone.
LEMMA BoundGone ==
  ASSUME NEW L, IsFiniteSet(L), L \subseteq Order, NEW c, NEW k, \A p \in L : At(c, k, p) \in Int, NEW o \in L
  PROVE  Bound(L \ {o}, c, k) = Bound(L, c, k) - At(c, k, o)
<1> DEFINE g == [p \in Order |-> At(c, k, p)]
           R == L \ {o}
<1>1. (\A p \in L : g[p] \in Int) /\ g[o] = At(c, k, o)
  OBVIOUS
<1>2. Bound(L, c, k) = Total(L, g) /\ Bound(R, c, k) = Total(R, g)
  BY DEF Bound
<1>3. IsFiniteSet(R) /\ \A p \in R : g[p] \in Int
  BY <1>1, FS_Subset
<1> HIDE DEF g
<1>4. Total(L, g) = g[o] + Total(R, g)
  BY <1>1, TotalIs
<1> HIDE DEF R
<1>5. Total(R, g) \in Int /\ g[o] \in Int
  BY <1>1, <1>3, TotalIs
<1>6. Bound(R, c, k) = Bound(L, c, k) - At(c, k, o)
  BY <1>1, <1>2, <1>4, <1>5
<1> QED  BY <1>6 DEF R

\* No order of a table is counted at another number.
LEMMA BoundSame ==
  ASSUME NEW L, IsFiniteSet(L), L \subseteq Order, NEW c, NEW d, NEW k,
         \A p \in L : At(c, k, p) = At(d, k, p)
  PROVE  Bound(L, c, k) = Bound(L, d, k)
<1> DEFINE g == [p \in Order |-> At(c, k, p)]  h == [p \in Order |-> At(d, k, p)]
<1>1. \A p \in L : g[p] = h[p]
  OBVIOUS
<1>2. Bound(L, c, k) = Total(L, g) /\ Bound(L, d, k) = Total(L, h)
  BY DEF Bound
<1> HIDE DEF g, h
<1> QED  BY <1>1, <1>2, TotalSame

\* The orders of a table, one of them at another number or gone.
LEMMA BoundSet ==
  ASSUME NEW L, IsFiniteSet(L), L \subseteq Order, NEW c, NEW d, NEW k, NEW o \in L, NEW l \in Nat,
         NEW M, M = (L \ {o}) \cup (IF l = 0 THEN {} ELSE {[o EXCEPT !.num = l]}),
         \A p \in L : At(c, k, p) \in Int, \A p \in L \ {o} : p.id # o.id /\ At(d, k, p) = At(c, k, p),
         l # 0 => At(d, k, [o EXCEPT !.num = l]) = l
  PROVE  Bound(M, d, k) = Bound(L, c, k) + (l - At(c, k, o))
<1> DEFINE q == [o EXCEPT !.num = l]
           R == L \ {o}
<1>1. IsFiniteSet(R) /\ R \subseteq Order
  BY FS_Subset
<1>2. l # 0 => q \in Order /\ At(d, k, q) = l /\ q \notin R
  <2>1. l # 0 => q \in Order /\ q.id = o.id
    BY OrderIs
  <2> QED  BY <2>1
<1>3. Bound(R, c, k) = Bound(L, c, k) - At(c, k, o)
  BY BoundGone
<1>4. \A p \in R : At(c, k, p) = At(d, k, p) /\ At(c, k, p) \in Int
  OBVIOUS
<1>5. M = IF l = 0 THEN R ELSE R \cup {q}
  OBVIOUS
<1> HIDE DEF R, q
<1>6. Bound(R, c, k) = Bound(R, d, k) /\ Bound(R, d, k) \in Int
  BY <1>1, <1>4, BoundSame, BoundIs
<1>7. Bound(L, c, k) \in Int /\ At(c, k, o) \in Int
  BY BoundIs
<1>8. Bound(M, d, k) = Bound(R, d, k) + l
  <2>1. CASE l = 0
    <3>1. M = R
      BY <1>5, <2>1
    <3>2. Bound(M, d, k) \in Int /\ Bound(M, d, k) = Bound(R, d, k)
      BY <1>6, <3>1
    <3> QED  BY ONLY <2>1, <3>2
  <2>2. CASE l # 0
    <3>1. M = R \cup {q} /\ q \in M /\ M \ {q} = R /\ M \subseteq Order
      BY <1>1, <1>2, <1>5, <2>2
    <3>2. IsFiniteSet(M)
      BY <1>1, <3>1, FS_AddElement
    <3>3. \A p \in M : At(d, k, p) \in Int
      BY <1>2, <1>4, <2>2, <3>1
    <3>4. Bound(M \ {q}, d, k) = Bound(M, d, k) - At(d, k, q) /\ Bound(M, d, k) \in Int
      BY <3>1, <3>2, <3>3, BoundGone, BoundIs
    <3>5. Bound(R, d, k) = Bound(M, d, k) - l
      BY <1>2, <2>2, <3>1, <3>4
    <3> QED  BY ONLY <3>4, <3>5, l \in Nat
  <2> QED  BY <2>1, <2>2
<1> QED  BY <1>3, <1>6, <1>7, <1>8

(***************************************************************************)
(* A copy that was read and that cancelListAll did not make old is the row's, *)
(* and the main loop holds no more than the order it trades had.               *)
(***************************************************************************)
Synced ==
  \A a \in Account : acct[a].user # None /\ acct[a].user.login /\ a \notin swept => acct[a].user.bal = acct[a].row
Traded ==
  act.op = "trade" =>
    /\ act.num <= act.list.num /\ (act.sys # 0 => act.num < act.list.num)
    /\ act.coin = "money" /\ Multiple(act.list.num, act.list.price) => Multiple(act.num, act.list.price)

\* y is the account x after writes by way of the copy.
Along(x, y) ==
  /\ y.user = None <=> x.user = None
  /\ x.user # None => y.user.login = x.user.login /\ (x.user.bal = x.row => y.user.bal = y.row)

\* The writes of the exchange go that way.
LEMMA PayAlong ==
  ASSUME NEW x, Good(x), NEW coin \in Coin
  PROVE  /\ Along(x, x)
         /\ \A n \in Nat : Along(x, Pay(x, coin, n))
         /\ x.user # None => \A n \in Int, tax \in Int :
              x.user.bal.have[coin] + n >= 0 => Along(x, Add(x, coin, n, tax))
<1>1. ASSUME x.user # None, NEW n \in Int, NEW tax \in Int, x.user.bal.have[coin] + n >= 0
      PROVE  Along(x, Add(x, coin, n, tax))
  <2>1. Add(x, coin, n, tax).user # None
    BY <1>1, AddGood
  <2> QED  BY <1>1, <2>1, AddHeld DEF Along
<1>2. ASSUME NEW n \in Nat PROVE Along(x, Pay(x, coin, n))
  <2>1. CASE x.user # None
    <3>1. x.user.bal.have[coin] \in Int /\ x.user.bal.have[coin] >= 0
      BY <2>1 DEF Good, BillUser, Balance
    <3>2. x.user.bal.have[coin] + n >= 0
      BY <3>1
    <3> QED  BY <1>1, <2>1, <3>2 DEF Pay
  <2>2. CASE x.user = None
    BY <2>2, AddRowHeld DEF Pay, Along
  <2> QED  BY <2>1, <2>2
<1>3. Along(x, x)
  BY DEF Along
<1> QED  BY <1>1, <1>2, <1>3

\* One account goes along.
LEMMA AlongOne ==
  ASSUME NEW A \in [Account -> GoodAcct], NEW a \in Account, NEW x, Along(A[a], x)
  PROVE  \A b \in Account : Along(A[b], [A EXCEPT ![a] = x][b])
BY DEF Along

\* Going along twice.
LEMMA AlongTwice ==
  ASSUME NEW x, NEW y, NEW z, Along(x, y), Along(y, z)
  PROVE  Along(x, z)
BY DEF Along

\* Copies that go along stay the rows'.
LEMMA SyncedKeeps ==
  ASSUME Synced, \A a \in Account : Along(acct[a], acct'[a]), swept' = swept
  PROVE  Synced'
BY DEF Synced, Along

\* What is traded in one turn of the loop: the order of gold, the order of money, and how
\* many pieces.
GoldOf(p) == IF act.coin = "gold" THEN [act.list EXCEPT !.num = act.num] ELSE p
MoneyOf(p) == IF act.coin = "gold" THEN p ELSE [act.list EXCEPT !.num = act.num]
Pieces(p) == Min({GoldOf(p).num, MoneyOf(p).num \div MoneyOf(p).price})

\* At least one piece is traded, and no more than both orders have.
LEMMA PiecesAre ==
  ASSUME ConsignInv, act.op = "trade", NEW p \in Matching
  PROVE  LET g == GoldOf(p)  m == MoneyOf(p)  n == Pieces(p)  o == act.list
         IN  /\ p \in Order /\ o \in Order /\ o \in list[act.coin]
             /\ g.accid \in Account /\ m.accid \in Account
             /\ g.num \in Nat /\ m.num \in Nat /\ g.price \in Nat \ {0} /\ m.price \in Nat \ {0}
             /\ n \in Nat \ {0} /\ n <= g.num /\ n * m.price \in Nat /\ n <= n * m.price /\ n * m.price <= m.num
             /\ n * g.price \in Nat
             /\ \/ act.coin = "gold" /\ p \in list["money"] /\ m = p /\ g.num = act.num /\ g.price = o.price
                   /\ g.accid = o.accid
                \/ act.coin = "money" /\ p \in list["gold"] /\ g = p /\ m.num = act.num /\ m.price = o.price
                   /\ m.accid = o.accid
<1> DEFINE g == GoldOf(p)  m == MoneyOf(p)  n == Pieces(p)  o == act.list
           w == [act.list EXCEPT !.num = act.num]
<1>1. /\ act.coin \in Coin /\ o \in list[act.coin] /\ o \in Order /\ act.num \in Nat
  BY TradeIs
<1>2. /\ p \in Order
      /\ \/ act.coin = "gold" /\ p \in list["money"]
         \/ act.coin = "money" /\ p \in list["gold"]
  BY MatchingIs DEF ConsignInv, ListInv, Coin
<1>3. /\ p.accid \in Account /\ p.num \in Nat \ {0} /\ p.price \in Nat \ {0}
      /\ o.accid \in Account /\ o.price \in Nat \ {0}
  BY <1>1, <1>2, OrderIs
<1>4. w.accid = o.accid /\ w.num = act.num /\ w.price = o.price
  BY <1>1 DEF Order
<1>5. /\ act.coin = "gold" => act.num # 0 /\ p.num >= p.price
      /\ act.coin = "money" => act.num \div o.price # 0
  <2>1. CASE act.coin = "gold"
    <3>1. /\ act.num # 0
          /\ p \in Best("money", {q \in list["money"] : q.price >= act.list.price /\ q.num >= q.price})
      BY <2>1 DEF Matching
    <3> QED  BY <2>1, <3>1 DEF Best
  <2>2. CASE act.coin = "money"
    <3>1. act.coin # "gold"
      BY <2>2
    <3>2. Matching = IF act.num \div act.list.price = 0 THEN {} ELSE {q \in list["gold"] : q.price <= act.list.price}
      BY <3>1 DEF Matching
    <3> QED  BY <3>1, <3>2
  <2> QED  BY <1>2, <2>1, <2>2
<1> HIDE DEF w, o
<1>6. /\ act.coin = "gold" => g = w /\ m = p
      /\ act.coin = "money" => g = p /\ m = w
  BY DEF w, GoldOf, MoneyOf
<1> HIDE DEF g, m
<1>7. /\ g.accid \in Account /\ m.accid \in Account
      /\ g.num \in Nat \ {0} /\ m.num \in Nat /\ g.price \in Nat \ {0} /\ m.price \in Nat \ {0}
      /\ m.num \div m.price # 0
  <2>1. CASE act.coin = "gold"
    <3>1. p.num \div p.price # 0
      BY <1>3, <1>5, <2>1, Division
    <3> QED  BY <1>1, <1>3, <1>4, <1>5, <1>6, <2>1, <3>1
  <2>2. CASE act.coin = "money"
    BY <1>1, <1>3, <1>4, <1>5, <1>6, <2>2
  <2> QED  BY <1>2, <2>1, <2>2
<1>8. n \in Nat \ {0} /\ n <= g.num /\ n <= m.num \div m.price
  <2> DEFINE d == m.num \div m.price
  <2>1. d \in Nat \ {0} /\ n = Min({g.num, d})
    BY <1>7, Division DEF Pieces, g, m
  <2> HIDE DEF d, n
  <2>2. n \in {g.num, d}
    <3>1. \E x \in {g.num, d} : \A y \in {g.num, d} : x <= y
      <4>1. g.num <= d \/ d <= g.num
        BY <1>7, <2>1
      <4> QED  BY <1>7, <2>1, <4>1
    <3> QED  BY <2>1, <3>1 DEF Min
  <2>3. n <= g.num /\ n <= d
    BY <1>7, <2>1, MinIs
  <2> QED  BY <1>7, <2>1, <2>2, <2>3 DEF d
<1> HIDE DEF n
<1>9. n * m.price \in Nat /\ n * m.price <= m.num
  BY <1>7, <1>8, Multiples
<1>10. n <= n * m.price /\ n * g.price \in Nat
  <2> DEFINE q == m.price  r == g.price
  <2>1. n \in Nat /\ q \in Nat \ {0} /\ r \in Nat
    BY <1>7, <1>8
  <2> HIDE DEF q, r
  <2>2. n <= n * q /\ n * r \in Nat
    BY <2>1
  <2> QED  BY <2>2 DEF q, r
<1> QED  BY <1>1, <1>2, <1>4, <1>6, <1>7, <1>8, <1>9, <1>10 DEF g, m, n, o

\* A turn of the loop: every copy goes along, and the main loop holds less than before.
LEMMA MatchAlong ==
  ASSUME ConsignInv, Traded, act.op = "trade", NEW p \in Matching, NEW f, Match(p, f)
  PROVE  (\A a \in Account : Along(acct[a], acct'[a])) /\ Traded'
<1> DEFINE g == GoldOf(p)  m == MoneyOf(p)  n == Pieces(p)
           rest == /\ act.coin = "gold"
                   /\ (IF act.coin = "gold" THEN p.num - n * p.price ELSE p.num - n) # 0
                   /\ (IF act.coin = "gold" THEN p.num - n * p.price ELSE p.num - n) < p.price
           b == IF rest THEN [acct EXCEPT ![p.accid] = CancelRest(p, f)] ELSE acct
           c == IF "seller" \in f THEN b ELSE [b EXCEPT ![g.accid] = Pay(@, "money", n * g.price)]
<1>1. /\ acct' = IF "buyer" \in f THEN c ELSE [c EXCEPT ![m.accid] = Pay(@, "gold", n)]
      /\ act'.num = act.num - IF act.coin = "gold" THEN n ELSE n * m.price
  <2>1. acct' = IF "buyer" \in f THEN c ELSE [c EXCEPT ![m.accid] = Pay(@, "gold", n)]
    BY SMTT(30) DEF Match, GoldOf, MoneyOf, Pieces
  <2>2. PICK z : act' = [op |-> "trade", coin |-> act.coin, list |-> act.list,
                         num |-> act.num - IF act.coin = "gold" THEN n ELSE n * m.price, sys |-> z]
    BY DEF Match, GoldOf, MoneyOf, Pieces
  <2> HIDE DEF n, m, b, c
  <2> QED  BY <2>1, <2>2
<1>2. /\ act' \in Trading /\ act'.list = act.list /\ act'.coin = act.coin
      /\ act.coin = "money" /\ Multiple(act.num, act.list.price) => Multiple(act'.num, act.list.price)
  BY MatchIs
<1>3. /\ p \in Order /\ act.list \in Order /\ g.accid \in Account /\ m.accid \in Account
      /\ n \in Nat \ {0} /\ n <= n * m.price /\ n * m.price \in Nat /\ n * g.price \in Nat
  BY PiecesAre
<1> HIDE DEF n, g, m
<1>4. Traded'
  <2>1. act'.num < act.num /\ act.num <= act.list.num
    BY <1>1, <1>3, TradeIs DEF Traded
  <2>2. act.list.num \in Nat /\ act'.num \in Nat /\ act.num \in Nat
    BY <1>2, <1>3, TradeIs, OrderIs DEF Trading
  <2>3. act'.num < act.list.num /\ act'.num <= act.list.num
    BY <2>1, <2>2
  <2> QED  BY <1>2, <2>3 DEF Traded
<1> HIDE DEF rest
<1>5. acct \in [Account -> GoodAcct] /\ p.accid \in Account /\ p.num \in Nat
  BY <1>3, OrderIs DEF ConsignInv, AcctInv
<1>6. b \in [Account -> GoodAcct] /\ \A a \in Account : Along(acct[a], b[a])
  <2>1. Good(CancelRest(p, f)) /\ Good(acct[p.accid])
    BY <1>3, <1>5, RestGood, GoodIs DEF ConsignInv
  <2>2. Along(acct[p.accid], CancelRest(p, f))
    <3>1. CASE acct[p.accid].user # None
      <4>1. "money" \in Coin /\ acct[p.accid].user.bal.have["money"] \in Nat
        BY <1>5, <3>1, AcctIs DEF Coin, ConsignInv
      <4>2. acct[p.accid].user.bal.have["money"] + p.num >= 0
        BY <1>5, <4>1
      <4>3. Along(acct[p.accid], Add(acct[p.accid], "money", p.num, 0)) /\ Along(acct[p.accid], acct[p.accid])
        BY <1>5, <2>1, <3>1, <4>1, <4>2, PayAlong
      <4> QED  BY <3>1, <4>3 DEF CancelRest
    <3>2. CASE acct[p.accid].user = None
      BY <3>2 DEF CancelRest, Along
    <3> QED  BY <3>1, <3>2
  <2>3. \A a \in Account : Along(acct[a], acct[a])
    BY DEF Along
  <2>4. \A a \in Account : Along(acct[a], [acct EXCEPT ![p.accid] = CancelRest(p, f)][a])
    BY <1>5, <2>2, AlongOne
  <2>5. [acct EXCEPT ![p.accid] = CancelRest(p, f)] \in [Account -> GoodAcct]
    BY <1>5, <2>1, TableKeeps
  <2> QED  BY <1>5, <2>3, <2>4, <2>5
<1> HIDE DEF b
<1>7. ASSUME NEW A \in [Account -> GoodAcct], NEW a \in Account, NEW k \in Coin, NEW l \in Nat
      PROVE  /\ [A EXCEPT ![a] = Pay(@, k, l)] \in [Account -> GoodAcct]
             /\ \A d \in Account : Along(A[d], [A EXCEPT ![a] = Pay(@, k, l)][d])
  <2>1. Good(A[a])
    BY <1>7, GoodIs
  <2>2. Good(Pay(A[a], k, l)) /\ Along(A[a], Pay(A[a], k, l))
    BY <1>7, <2>1, PayGood, PayAlong
  <2> QED  BY <1>7, <2>2, AlongOne, TableKeeps
<1>8. c \in [Account -> GoodAcct] /\ \A a \in Account : Along(b[a], c[a])
  <2>1. "money" \in Coin
    BY DEF Coin
  <2>2. /\ [b EXCEPT ![g.accid] = Pay(@, "money", n * g.price)] \in [Account -> GoodAcct]
        /\ \A d \in Account : Along(b[d], [b EXCEPT ![g.accid] = Pay(@, "money", n * g.price)][d])
    BY <1>3, <1>6, <1>7, <2>1
  <2>3. \A a \in Account : Along(b[a], b[a])
    BY DEF Along
  <2> QED  BY <1>6, <2>2, <2>3
<1> HIDE DEF c
<1>9. \A a \in Account : Along(c[a], acct'[a])
  <2>1. "gold" \in Coin /\ n \in Nat
    BY <1>3 DEF Coin
  <2>2. \A d \in Account : Along(c[d], [c EXCEPT ![m.accid] = Pay(@, "gold", n)][d])
    BY <1>3, <1>7, <1>8, <2>1
  <2>3. \A a \in Account : Along(c[a], c[a])
    BY DEF Along
  <2> QED  BY <1>1, <2>2, <2>3
<1>10. \A a \in Account : Along(acct[a], acct'[a])
  BY <1>6, <1>8, <1>9, AlongTwice
<1> QED  BY <1>4, <1>10

\* One account goes along, or none.
LEMMA OneAlong ==
  ASSUME ConsignInv, NEW a \in Account, NEW x, Along(acct[a], x), acct' \in {acct, [acct EXCEPT ![a] = x]}
  PROVE  \A b \in Account : Along(acct[b], acct'[b])
<1>1. acct \in [Account -> GoodAcct]
  BY DEF ConsignInv, AcctInv
<1>2. \A b \in Account : Along(acct[b], acct[b])
  BY DEF Along
<1>3. \A b \in Account : Along(acct[b], [acct EXCEPT ![a] = x][b])
  BY <1>1, AlongOne
<1> QED  BY <1>2, <1>3

\* What an order leaves to be paid back goes by way of the copy.
LEMMA RestAlong ==
  ASSUME ConsignInv, NEW o \in Order, NEW f
  PROVE  Along(acct[o.accid], CancelRest(o, f))
<1>1. o.accid \in Account /\ o.num \in Nat /\ "money" \in Coin
  BY OrderIs DEF Coin
<1>2. Good(acct[o.accid])
  BY <1>1, AcctIs DEF ConsignInv
<1>3. CASE acct[o.accid].user # None
  <2>1. acct[o.accid].user.bal.have["money"] \in Nat
    BY <1>1, <1>3, AcctIs DEF ConsignInv
  <2>2. acct[o.accid].user.bal.have["money"] + o.num >= 0
    BY <1>1, <2>1
  <2>3. Along(acct[o.accid], Add(acct[o.accid], "money", o.num, 0)) /\ Along(acct[o.accid], acct[o.accid])
    BY <1>1, <1>2, <1>3, <2>2, PayAlong
  <2> QED  BY <1>3, <2>3 DEF CancelRest
<1>4. CASE acct[o.accid].user = None
  BY <1>4 DEF CancelRest, Along
<1> QED  BY <1>3, <1>4

\* A player comes, logs in and goes.
LEMMA UserSynced ==
  ASSUME ConsignInv, Synced, NEW a \in Account, addUser(a) \/ login(a) \/ removeUser(a)
  PROVE  Synced' /\ act' = act
<1>0. acct \in [Account -> GoodAcct] /\ acct[a] = [row |-> acct[a].row, user |-> acct[a].user]
  <2>1. Good(acct[a])
    BY AcctIs DEF ConsignInv
  <2> QED  BY <2>1 DEF ConsignInv, AcctInv, Good
<1>1. ASSUME NEW u, acct' = [acct EXCEPT ![a].user = u], swept' \in {swept, swept \cup {a}, swept \ {a}},
             u # None /\ u.login /\ a \notin swept' => u.bal = acct[a].row
      PROVE  Synced'
  <2> DEFINE x == [acct[a] EXCEPT !.user = u]
  <2>1. acct' = [acct EXCEPT ![a] = x] /\ x = [row |-> acct[a].row, user |-> u]
    BY <1>0, <1>1, UserIs
  <2>2. x.row = acct[a].row /\ x.user = u
    BY <2>1
  <2> HIDE DEF x
  <2>3. acct'[a].row = acct[a].row /\ acct'[a].user = u /\ \A b \in Account \ {a} : acct'[b] = acct[b]
    BY <1>0, <2>1, <2>2
  <2>4. \A b \in Account \ {a} : b \in swept' <=> b \in swept
    BY <1>1
  <2> QED  BY <1>1, <2>3, <2>4 DEF Synced
<1>2. CASE addUser(a)
  <2> DEFINE u == [login |-> FALSE, bal |-> Zero]
  <2>1. acct' = [acct EXCEPT ![a].user = u] /\ swept' = swept /\ act' = act /\ ~u.login
    BY <1>2 DEF addUser
  <2> HIDE DEF u
  <2> QED  BY <1>1, <2>1
<1>3. CASE login(a)
  <2>1. PICK f \in SUBSET {"read"} :
          /\ acct' = [acct EXCEPT ![a].user =
                        [login |-> TRUE, bal |-> IF f = {} THEN acct[a].row ELSE @.bal]]
          /\ swept' = IF f = {} THEN swept ELSE swept \cup {a}
    BY <1>3 DEF login
  <2> DEFINE u == [login |-> TRUE, bal |-> IF f = {} THEN acct[a].row ELSE acct[a].user.bal]
  <2>2. acct' = [acct EXCEPT ![a].user = u] /\ (f = {} => u.bal = acct[a].row)
    BY <2>1
  <2>3. act' = act
    BY <1>3 DEF login
  <2> HIDE DEF u
  <2>4. swept' \in {swept, swept \cup {a}} /\ (a \notin swept' => f = {})
    BY <2>1
  <2> QED  BY <1>1, <2>2, <2>3, <2>4
<1>4. CASE removeUser(a)
  <2>1. acct' = [acct EXCEPT ![a].user = None] /\ swept' = swept \ {a} /\ act' = act
    BY <1>4 DEF removeUser
  <2> QED  BY <1>1, <2>1
<1> QED  BY <1>2, <1>3, <1>4

\* A player's request, or one for him, goes by way of his copy.
LEMMA OwnAlong ==
  ASSUME ConsignInv, NEW a \in Account, NEW coin \in Coin, NEW n \in Nat, acct[a].user # None
  PROVE  /\ Along(acct[a], Add(acct[a], coin, n, 0))
         /\ n <= acct[a].user.bal.have[coin] => Along(acct[a], Add(acct[a], coin, -n, 0))
<1>1. Good(acct[a]) /\ acct[a].user.bal.have[coin] \in Nat
  BY AcctIs DEF ConsignInv
<1>2. n \in Int /\ -n \in Int /\ acct[a].user.bal.have[coin] + n >= 0
  BY <1>1
<1>3. n <= acct[a].user.bal.have[coin] => acct[a].user.bal.have[coin] + (-n) >= 0
  BY <1>1
<1> QED  BY <1>1, <1>2, <1>3, PayAlong

\* So does an order put.
LEMMA PutAlong ==
  ASSUME ConsignInv, NEW a \in Account, NEW coin \in Coin, NEW num \in Num, NEW price \in Price,
         putList(a, coin, num, price)
  PROVE  \A b \in Account : Along(acct[b], acct'[b])
<1> DEFINE x == acct[a]
           y == Add(x, coin, -Tax(num), Tax(num))
<1>1. PICK f \in SUBSET {"tax", "take", "back", "insert"} :
        LET taxed == "tax" \notin f /\ Tax(num) <= x.user.bal.have[coin]
            taken == taxed /\ "take" \notin f /\ num <= y.user.bal.have[coin]
        IN  acct' = [acct EXCEPT ![a] = IF taken THEN Add(y, coin, -num, 0)
                                        ELSE IF taxed /\ "back" \in f THEN y
                                        ELSE IF taxed THEN Add(y, coin, Tax(num), -Tax(num))
                                        ELSE x]
  BY DEF putList
<1>2. Has(a) /\ num \in Nat /\ Tax(num) \in Nat
  <2>1. num \in Nat /\ TaxUnit \in Nat \ {0}
    BY ConsignAssumption
  <2> QED  BY <2>1, Division DEF putList, Tax
<1>3. Good(x) /\ x.user # None /\ x.user.bal.have[coin] \in Nat
  BY <1>2, AcctIs DEF ConsignInv, Has
<1>4. PICK z : /\ acct' = [acct EXCEPT ![a] = z]
               /\ \/ z = x
                  \/ Tax(num) <= x.user.bal.have[coin] /\ z \in {y, Add(y, coin, Tax(num), -Tax(num))}
                  \/ Tax(num) <= x.user.bal.have[coin] /\ num <= y.user.bal.have[coin] /\ z = Add(y, coin, -num, 0)
  BY <1>1
<1>5. ASSUME Tax(num) <= x.user.bal.have[coin]
      PROVE  /\ Along(x, y) /\ Good(y) /\ y.user # None /\ y.user.bal.have[coin] \in Nat
  <2>1. -Tax(num) \in Int /\ Tax(num) \in Int /\ x.user.bal.have[coin] + (-Tax(num)) >= 0
    BY <1>2, <1>3, <1>5
  <2>2. Good(y) /\ y.user # None
    BY <1>3, <2>1, AddGood
  <2>3. Along(x, y)
    BY <1>3, <2>1, PayAlong
  <2>4. y.user.bal.have[coin] \in Int /\ y.user.bal.have[coin] >= 0
    BY <2>2 DEF Good, BillUser, Balance
  <2> HIDE DEF y
  <2> QED  BY <2>2, <2>3, <2>4
<1> HIDE DEF y
<1>6. Along(x, z)
  <2>1. CASE z = x
    BY <2>1 DEF Along
  <2>2. CASE Tax(num) <= x.user.bal.have[coin] /\ z \in {y, Add(y, coin, Tax(num), -Tax(num))}
    <3>1. Tax(num) \in Int /\ -Tax(num) \in Int /\ y.user.bal.have[coin] + Tax(num) >= 0
      BY <1>2, <1>5, <2>2
    <3>2. Along(y, Add(y, coin, Tax(num), -Tax(num))) /\ Along(y, y)
      BY <1>5, <2>2, <3>1, PayAlong
    <3> QED  BY <1>5, <2>2, <3>2, AlongTwice
  <2>3. CASE Tax(num) <= x.user.bal.have[coin] /\ num <= y.user.bal.have[coin] /\ z = Add(y, coin, -num, 0)
    <3>1. -num \in Int /\ y.user.bal.have[coin] + (-num) >= 0
      BY <1>2, <1>5, <2>3
    <3>2. Along(y, z)
      BY <1>5, <2>3, <3>1, PayAlong
    <3> QED  BY <1>5, <2>3, <3>2, AlongTwice
  <2> QED  BY <1>4, <2>1, <2>2, <2>3
<1> QED  BY <1>4, <1>6, OneAlong

\* The copies stay the rows', and the main loop holds no more than its order had.
LEMMA NextSynced == ConsignInv /\ Synced /\ Traded /\ [Next]_vars => Synced' /\ Traded'
<1> SUFFICES ASSUME ConsignInv, Synced, Traded, [Next]_vars PROVE Synced' /\ Traded'
  OBVIOUS
<1>0. act' = act => Traded'
  BY DEF Traded
<1>1. ASSUME NEW a \in Account, addUser(a) \/ login(a) \/ removeUser(a) PROVE Synced' /\ Traded'
  BY <1>0, <1>1, UserSynced
<1>2. ASSUME NEW a \in Account, NEW k \in Moved, NEW n \in Amount, Save(a, k, n) \/ Fetch(a, k, n)
      PROVE  Synced' /\ Traded'
  <2>1. k \in Coin /\ n \in Nat
    BY ConsignAssumption DEF Coin
  <2>2. acct[a].user # None /\ swept' = swept /\ act' = act
    BY <1>2 DEF Save, Fetch, Has
  <2>3. CASE Save(a, k, n)
    <3>1. acct' \in {acct, [acct EXCEPT ![a] = Add(acct[a], k, n, 0)]}
      BY <2>3 DEF Save
    <3>2. \A b \in Account : Along(acct[b], acct'[b])
      BY <2>1, <2>2, <3>1, OwnAlong, OneAlong
    <3> QED  BY <1>0, <2>2, <3>2, SyncedKeeps
  <2>4. CASE Fetch(a, k, n)
    <3>1. acct' \in {acct, [acct EXCEPT ![a] = Add(acct[a], k, -n, 0)]} /\ n <= acct[a].user.bal.have[k]
      BY <2>4 DEF Fetch
    <3>2. \A b \in Account : Along(acct[b], acct'[b])
      BY <2>1, <2>2, <3>1, OwnAlong, OneAlong
    <3> QED  BY <1>0, <2>2, <3>2, SyncedKeeps
  <2> QED  BY <1>2, <2>3, <2>4
<1>3. ASSUME NEW a \in Account, NEW k \in Coin, NEW n \in Num, NEW p \in Price, putList(a, k, n, p)
      PROVE  Synced' /\ Traded'
  <2>1. swept' = swept /\ (act' = act \/ act' = [op |-> "start", coin |-> k])
    BY <1>3 DEF putList
  <2>2. Synced'
    BY <1>3, <2>1, PutAlong, SyncedKeeps
  <2> QED  BY <1>0, <2>1, <2>2 DEF Traded
<1>4. CASE Begin
  <2>1. PICK o \in Best(act.coin, list[act.coin]) :
          act' = [op |-> "trade", coin |-> act.coin, list |-> o, num |-> o.num, sys |-> 0]
    BY <1>4 DEF Begin
  <2>2. act'.num = act'.list.num /\ act'.sys = 0 /\ act'.list = o
    BY <2>1
  <2>3. o.num \in Nat
    BY <1>4, <2>2, Begins, OrderIs DEF Trading
  <2>4. UNCHANGED <<acct, swept>>
    BY <1>4 DEF Begin
  <2> QED  BY <2>2, <2>3, <2>4 DEF Traded, Synced
<1>5. CASE Trade
  <2>0. act.op = "trade"
    BY <1>5 DEF Trade
  <2>1. ASSUME NEW p \in Matching, NEW f, Match(p, f) PROVE Synced' /\ Traded'
    <3>1. (\A a \in Account : Along(acct[a], acct'[a])) /\ Traded'
      BY <2>0, <2>1, MatchAlong
    <3>2. swept' = swept
      BY <2>1 DEF Match
    <3> QED  BY <3>1, <3>2, SyncedKeeps
  <2>2. ASSUME NEW f, Finish(f) PROVE Synced' /\ Traded'
    <3>1. act' = Idle /\ swept' = swept /\ acct' \in {acct, [acct EXCEPT ![act.list.accid] = CancelRest(act.list, f)]}
      BY <2>2 DEF Finish
    <3>2. act.list \in Order /\ act.list.accid \in Account
      BY <2>0, TradeIs, OrderIs
    <3>3. \A a \in Account : Along(acct[a], acct'[a])
      BY <3>1, <3>2, RestAlong, OneAlong
    <3> QED  BY <3>1, <3>3, SyncedKeeps DEF Traded, Idle
  <2> QED  BY <1>5, <2>1, <2>2 DEF Trade
<1>6. ASSUME NEW k \in Coin, NEW o \in list[k], cancelList(k, o) PROVE Synced' /\ Traded'
  <2>1. /\ acct' \in {acct, [acct EXCEPT ![o.accid] = Add(acct[o.accid], k, o.num, 0)]}
        /\ acct[o.accid].user # None /\ swept' = swept /\ act' = act
    BY <1>6 DEF cancelList, Has
  <2>2. o.accid \in Account /\ o.num \in Nat
    BY <1>6, OrderIs DEF ConsignInv, ListInv
  <2>3. \A b \in Account : Along(acct[b], acct'[b])
    BY <2>1, <2>2, OwnAlong, OneAlong
  <2> QED  BY <1>0, <2>1, <2>3, SyncedKeeps
<1>7. CASE cancelListAll
  BY <1>7 DEF cancelListAll, Synced, Traded
<1>8. CASE CancelNext
  <2> DEFINE coin == IF list["gold"] # {} THEN "gold" ELSE "money"
  <2>1. PICK o \in list[coin], f \in SUBSET {"add", "row"} :
          /\ acct' = IF "add" \in f THEN acct
                     ELSE [acct EXCEPT ![o.accid] = AddRow(@, coin, o.num + Tax(o.num))]
          /\ swept' = IF "add" \in f \/ acct[o.accid].user = None THEN swept ELSE swept \cup {o.accid}
    BY <1>8 DEF CancelNext
  <2>2. act.op = "cancelAll" /\ act' \in {Idle, act}
    BY <1>8, CancelNextKeeps
  <2>3. Traded'
    BY <2>2 DEF Traded, Idle
  <2>4. coin \in Coin
    BY DEF Coin
  <2> HIDE DEF coin
  <2>5. o.accid \in Account /\ o.num \in Nat /\ Tax(o.num) \in Nat
    <3>1. o.accid \in Account /\ o.num \in Nat
      BY <2>4, OrderIs DEF ConsignInv, ListInv
    <3> QED  BY <3>1, ConsignAssumption, Division DEF Tax
  <2>6. Synced'
    <3>1. CASE "add" \in f
      BY <2>1, <3>1 DEF Synced
    <3>2. CASE "add" \notin f
      <4> DEFINE x == AddRow(acct[o.accid], coin, o.num + Tax(o.num))
      <4>1. acct' = [acct EXCEPT ![o.accid] = x] /\ acct \in [Account -> GoodAcct]
        BY <2>1, <3>2 DEF ConsignInv, AcctInv
      <4>2. x.user = acct[o.accid].user
        <5>1. Good(acct[o.accid]) /\ o.num + Tax(o.num) \in Int
          BY <2>5, AcctIs DEF ConsignInv
        <5> QED  BY <2>4, <5>1, AddRowHeld
      <4> HIDE DEF x
      <4>3. acct'[o.accid].user = acct[o.accid].user /\ \A b \in Account \ {o.accid} : acct'[b] = acct[b]
        BY <2>5, <4>1, <4>2
      <4>4. swept \subseteq swept' /\ (acct[o.accid].user # None => o.accid \in swept')
        BY <2>1, <3>2
      <4> QED  BY <4>3, <4>4 DEF Synced
    <3> QED  BY <3>1, <3>2
  <2> QED  BY <2>3, <2>6
<1>9. CASE UNCHANGED vars
  BY <1>9 DEF vars, Synced, Traded
<1> QED  BY <1>1, <1>2, <1>3, <1>4, <1>5, <1>6, <1>7, <1>8, <1>9 DEF Next

(***************************************************************************)
(* What there is before and after a step                                   *)
(***************************************************************************)
\* What there is before and after a step.
Sum(k) == Owned(acct, pack, k) + Bound(list[k], act, k) + Kept(spread, act, k)
SumNext(k) == Owned(acct', pack', k) + Bound(list'[k], act', k) + Kept(spread', act', k)
Clean == fails' = fails /\ ~\E a \in Account : Overwritten(a)

\* No write fails when their count is not raised.
LEMMA NoneFails ==
  ASSUME Counts, NEW f \in SUBSET Faults, NEW put \in Nat, Failing(f, put), fails' = fails
  PROVE  f = {}
BY FaultsCount DEF Counts, Failing

\* The sums are numbers.
LEMMA SumIs ==
  ASSUME ConsignInv, NEW k \in Coin
  PROVE  Owned(acct, pack, k) \in Int /\ Bound(list[k], act, k) \in Int /\ Kept(spread, act, k) \in Int
<1>1. Owned(acct, pack, k) \in Int
  <2> DEFINE g == [a \in Account |-> acct[a].row.have[k] + acct[a].row.tax[k] + pack[a][k]]
  <2>1. ASSUME NEW a \in Account PROVE g[a] \in Int
    <3>1. Good(acct[a])
      BY AcctIs DEF ConsignInv
    <3>2. pack[a][k] \in 0 .. MaxPack
      BY DEF ConsignInv, RestInv
    <3> QED  BY <3>1, <3>2, HeldIs, ConsignAssumption
  <2>2. IsFiniteSet(Account)
    BY ConsignAssumption
  <2> HIDE DEF g
  <2> QED  BY <2>1, <2>2, TotalIs DEF Owned, g
<1>2. Bound(list[k], act, k) \in Int
  <2> DEFINE g == [o \in Order |-> At(act, k, o)]
  <2>1. ASSUME NEW o \in list[k] PROVE g[o] \in Int
    BY AtIs DEF ConsignInv, ListInv
  <2>2. IsFiniteSet(list[k])
    BY TableFinite DEF ConsignInv
  <2> HIDE DEF g
  <2> QED  BY <2>1, <2>2, TotalIs DEF Bound, g
<1>3. Kept(spread, act, k) \in Int
  <2>1. spread \in Nat /\ (act.op = "trade" => act.sys \in Nat)
    BY TradeIs DEF ConsignInv, RestInv
  <2> QED  BY <2>1 DEF Kept
<1> QED  BY <1>1, <1>2, <1>3

\* An account whose copy is the row's, or whose row and copy did not change.
LEMMA CopyIs ==
  ASSUME Synced, Clean, NEW a \in Account
  PROVE  \/ Exact(acct[a])
         \/ /\ acct'[a].row = acct[a].row
            /\ acct'[a].user # None => acct'[a].user.bal = acct[a].user.bal
BY DEF Synced, Clean, Overwritten, Exact

\* An account changed by way of its copy has exactly that more.
LEMMA AddExact ==
  ASSUME ConsignInv, Synced, Clean, NEW a \in Account, acct[a].user # None, NEW coin \in Coin, NEW n \in Int, NEW tax \in Int,
         acct[a].user.bal.have[coin] + n >= 0, acct' = [acct EXCEPT ![a] = Add(acct[a], coin, n, tax)]
  PROVE  /\ Held(acct'[a], coin) = Held(acct[a], coin) + n + tax
         /\ \A k \in Coin \ {coin} : Held(acct'[a], k) = Held(acct[a], k)
<1> DEFINE x == acct[a]  y == Add(x, coin, n, tax)
<1>1. Good(x) /\ acct'[a] = y
  BY AcctIs DEF ConsignInv, AcctInv
<1>2. y.user # None
  BY <1>1, AddGood
<1>3. /\ y.user.bal.have[coin] = x.user.bal.have[coin] + n
      /\ y.user.bal.tax[coin] = x.user.bal.tax[coin] + tax
      /\ x.user.bal = x.row => /\ Held(y, coin) = Held(x, coin) + n + tax
                               /\ \A k \in Coin \ {coin} : Held(y, k) = Held(x, k)
  BY <1>1, AddHeld
<1>4. Held(x, coin) \in Int /\ x.user.bal.have[coin] \in Int /\ x.user.bal.tax[coin] \in Int
  BY <1>1, HeldIs
<1> HIDE DEF x, y
<1>5. CASE Exact(x)
  BY <1>1, <1>3, <1>5 DEF Exact, x
<1>6. CASE y.row = x.row /\ y.user.bal = x.user.bal
  <2>1. n = 0 /\ tax = 0
    BY <1>3, <1>4, <1>6
  <2>2. \A k : Held(y, k) = Held(x, k)
    BY <1>6 DEF Held
  <2> QED  BY <1>1, <1>4, <2>1, <2>2 DEF x
<1> QED  BY <1>1, <1>2, <1>5, <1>6, CopyIs DEF x

\* Only copies change.
LEMMA UserSum ==
  ASSUME ConsignInv, NEW a \in Account, addUser(a) \/ login(a) \/ removeUser(a), NEW k \in Coin
  PROVE  SumNext(k) = Sum(k)
<1>1. UNCHANGED <<list, spread, pack, act>> /\ \E u : acct' = [acct EXCEPT ![a].user = u]
  BY DEF addUser, login, removeUser
<1>2. PICK u : acct' = [acct EXCEPT ![a].user = u]
  BY <1>1
<1>3. acct[a] = [row |-> acct[a].row, user |-> acct[a].user] /\ acct \in [Account -> GoodAcct]
  <2>1. Good(acct[a])
    BY AcctIs DEF ConsignInv
  <2> QED  BY <2>1 DEF Good, ConsignInv, AcctInv
<1>4. [acct[a] EXCEPT !.user = u] = [row |-> acct[a].row, user |-> u]
  BY <1>3, UserIs
<1>5. \A b \in Account : acct'[b].row = acct[b].row
  BY <1>2, <1>3, <1>4
<1>6. Owned(acct', pack', k) = Owned(acct, pack, k)
  BY <1>1, <1>5 DEF Owned
<1> QED  BY <1>1, <1>6 DEF Sum, SumNext

\* What a player saves goes from his pack to his balance, what he fetches back.
LEMMA MoveSum ==
  ASSUME ConsignInv, ConsignInv', Synced, Clean, NEW a \in Account, NEW coin \in Coin, NEW n \in Nat,
         Save(a, coin, n) \/ Fetch(a, coin, n), NEW k \in Coin
  PROVE  SumNext(k) = Sum(k)
<1>0. /\ Counts /\ AcctInv /\ acct \in [Account -> GoodAcct] /\ acct' \in [Account -> GoodAcct]
      /\ pack \in [Account -> [Coin -> 0 .. MaxPack]] /\ pack' \in [Account -> [Coin -> 0 .. MaxPack]]
  BY DEF ConsignInv, AcctInv, RestInv
<1>1. acct[a].user # None /\ UNCHANGED <<list, spread, act>>
  BY DEF Save, Fetch, Has
<1>2. Good(acct[a]) /\ acct[a].user.bal.have[coin] \in Nat
  BY <1>0, <1>1, AcctIs
<1>3. PICK d \in {n, -n} : /\ acct' = [acct EXCEPT ![a] = Add(acct[a], coin, d, 0)]
                           /\ acct[a].user.bal.have[coin] + d >= 0
                           /\ pack' = [pack EXCEPT ![a][coin] = @ - d]
  <2>1. SUBSET {"add"} \subseteq SUBSET Faults /\ SUBSET {"remove"} \subseteq SUBSET Faults /\ fails' = fails
    BY DEF Faults, Clean
  <2>2. CASE Save(a, coin, n)
    <3>1. PICK f \in SUBSET {"add"} :
            Failing(f, 0) /\ acct' = IF f = {} THEN [acct EXCEPT ![a] = Add(@, coin, n, 0)] ELSE acct
      BY <2>2 DEF Save
    <3>2. f = {}
      BY <1>0, <2>1, <3>1, NoneFails
    <3>3. pack' = [pack EXCEPT ![a][coin] = @ - n]
      BY <2>2 DEF Save
    <3> QED  BY <1>2, <3>1, <3>2, <3>3
  <2>3. CASE Fetch(a, coin, n)
    <3>1. PICK f \in SUBSET {"remove"} :
            Failing(f, 0) /\ acct' = IF f = {} THEN [acct EXCEPT ![a] = Add(@, coin, -n, 0)] ELSE acct
      BY <2>3 DEF Fetch
    <3>2. f = {}
      BY <1>0, <2>1, <3>1, NoneFails
    <3>3. pack' = [pack EXCEPT ![a][coin] = @ + n] /\ n <= acct[a].user.bal.have[coin]
      BY <2>3 DEF Fetch
    <3>4. acct' = [acct EXCEPT ![a] = Add(acct[a], coin, -n, 0)]
      BY <3>1, <3>2
    <3>5. pack[a][coin] \in 0 .. MaxPack
      BY <1>0
    <3>6. pack[a][coin] + n = pack[a][coin] - (-n)
      BY <3>5, ConsignAssumption
    <3>7. pack' = [pack EXCEPT ![a][coin] = @ - (-n)]
      BY <3>3, <3>6
    <3>8. acct[a].user.bal.have[coin] + (-n) >= 0
      BY <1>2, <3>3
    <3> QED  BY <3>4, <3>7, <3>8
  <2> QED  BY <2>2, <2>3
<1>4. d \in Int
  OBVIOUS
<1>5. Held(acct'[a], coin) = Held(acct[a], coin) + d + 0 /\ \A l \in Coin \ {coin} : Held(acct'[a], l) = Held(acct[a], l)
  <2>1. acct[a].user # None /\ acct[a].user.bal.have[coin] + d >= 0 /\ 0 \in Int
        /\ acct' = [acct EXCEPT ![a] = Add(acct[a], coin, d, 0)]
    BY <1>1, <1>3
  <2> QED  BY <1>4, <2>1, AddExact
<1>6. /\ pack'[a][coin] = pack[a][coin] - d /\ (\A l \in Coin \ {coin} : pack'[a][l] = pack[a][l])
      /\ \A l \in Coin : pack[a][l] \in Int
  <2>1. pack[a] \in [Coin -> 0 .. MaxPack] /\ MaxPack \in Nat
    BY <1>0, ConsignAssumption
  <2> QED  BY <1>0, <1>3, <2>1
<1>7. \A b \in Account \ {a} : acct[b].row = acct'[b].row /\ pack[b] = pack'[b]
  BY <1>0, <1>3
<1>8. /\ Owned(acct, pack, k) \in Int
      /\ Owned(acct', pack', k) = Owned(acct, pack, k) + (Held(acct'[a], k) - Held(acct[a], k)) + (pack'[a][k] - pack[a][k])
  <2> DEFINE A == acct'  P == pack'
  <2> HIDE DEF A, P
  <2>1. Differ(acct, A, pack, P, a)
    BY <1>0, <1>7 DEF A, P, Differ
  <2>2. Owned(A, P, k) = Owned(acct, pack, k) + (Held(A[a], k) - Held(acct[a], k)) + (P[a][k] - pack[a][k])
    BY ONLY <2>1, OwnedChange, a \in Account, k \in Coin
  <2> QED  BY <2>2, SumIs DEF A, P
<1>9. Held(acct[a], k) \in Int
  BY <1>2, HeldIs
<1>10. (Held(acct'[a], k) - Held(acct[a], k)) + (pack'[a][k] - pack[a][k]) = 0
  <2>1. CASE k = coin
    BY <1>4, <1>5, <1>6, <1>9, <2>1
  <2>2. CASE k # coin
    BY <1>5, <1>6, <1>9, <2>2
  <2> QED  BY <2>1, <2>2
<1>11. Owned(acct', pack', k) = Owned(acct, pack, k)
  <2>1. Held(acct'[a], k) \in Int /\ pack'[a][k] \in Int /\ pack[a][k] \in Int
    <3>1. CASE k = coin
      BY <1>4, <1>5, <1>6, <1>9, <3>1
    <3>2. CASE k # coin
      BY <1>5, <1>6, <1>9, <3>2
    <3> QED  BY <3>1, <3>2
  <2> QED  BY <1>8, <1>9, <1>10, <2>1
<1> QED  BY <1>1, <1>11 DEF Sum, SumNext

(***************************************************************************)
(* putList and Begin make and lose nothing                                 *)
(***************************************************************************)
\* While none is traded, every order counts with its number and the system keeps the spread.
LEMMA Quiet ==
  ASSUME NEW c, c.op # "trade", NEW k, NEW s \in Int
  PROVE  (\A o : At(c, k, o) = o.num) /\ Kept(s, c, k) = IF k = "gold" THEN 0 ELSE s
BY DEF At, Kept

\* What a player puts goes from his balance into his order, and the tax stays with him.
LEMMA PutSum ==
  ASSUME ConsignInv, ConsignInv', Synced, Clean, NEW a \in Account, NEW coin \in Coin, NEW num \in Num, NEW price \in Price,
         putList(a, coin, num, price), NEW k \in Coin
  PROVE  SumNext(k) = Sum(k)
<1> DEFINE x == acct[a]
           y == Add(x, coin, -Tax(num), Tax(num))
           w == Add(y, coin, -num, 0)
           z == Add(y, coin, Tax(num), -Tax(num))
           row == [id |-> orders + 1, accid |-> a, num |-> num, price |-> price]
           taxed == Tax(num) <= x.user.bal.have[coin]
           taken == taxed /\ num <= y.user.bal.have[coin]
           n == IF taken THEN num ELSE 0
<1>0. /\ Counts /\ acct \in [Account -> GoodAcct] /\ num \in Nat \ {0} /\ act = Idle /\ Has(a)
      /\ UNCHANGED <<spread, pack>> /\ pack \in [Account -> [Coin -> 0 .. MaxPack]] /\ acct' \in [Account -> GoodAcct]
  BY ConsignAssumption DEF ConsignInv, AcctInv, RestInv, putList
<1>1. /\ acct' = [acct EXCEPT ![a] = IF taken THEN w ELSE IF taxed THEN z ELSE x]
      /\ list' = IF taken THEN [list EXCEPT ![coin] = @ \cup {row}] ELSE list
      /\ act' = IF taken THEN [op |-> "start", coin |-> coin] ELSE act
  <2>1. PICK f \in SUBSET {"tax", "take", "back", "insert"} :
          LET ta == "tax" \notin f /\ taxed
              tk == ta /\ "take" \notin f /\ num <= y.user.bal.have[coin]
              put   == tk /\ "insert" \notin f
          IN  /\ Failing(f, 1)
              /\ acct' = [acct EXCEPT ![a] = IF tk THEN w ELSE IF ta /\ "back" \in f THEN y ELSE IF ta THEN z ELSE x]
              /\ list' = IF put THEN [list EXCEPT ![coin] = @ \cup {row}] ELSE list
              /\ act'  = IF put THEN [op |-> "start", coin |-> coin] ELSE act
    BY DEF putList
  <2>2. f \in SUBSET Faults /\ fails' = fails
    BY DEF Faults, Clean
  <2>3. f = {}
    BY <1>0, <2>1, <2>2, NoneFails
  <2> HIDE DEF w, y, z, row
  <2> QED  BY <2>1, <2>3
<1>2. Tax(num) \in Nat /\ x.user # None /\ Good(x) /\ x.user.bal.have[coin] \in Nat
  <2>1. num \div TaxUnit \in Nat
    BY <1>0, ConsignAssumption, Division
  <2> QED  BY <1>0, <2>1, AcctIs DEF Has, Tax, ConsignInv
<1>3. taxed => /\ Good(y) /\ y.user # None /\ y.user.bal.have[coin] = x.user.bal.have[coin] + (-Tax(num))
               /\ y.user.bal.tax[coin] = x.user.bal.tax[coin] + Tax(num)
               /\ Exact(x) => Exact(y) /\ Held(y, coin) = Held(x, coin) /\ \A l \in Coin \ {coin} : Held(y, l) = Held(x, l)
  <2>1. CASE taxed
    <3>1. -Tax(num) \in Int /\ Tax(num) \in Int /\ x.user.bal.have[coin] + (-Tax(num)) >= 0
      BY <1>2, <2>1
    <3>2. Good(y) /\ y.user # None
      BY <1>2, <3>1, AddGood
    <3>3. /\ y.user.bal.have[coin] = x.user.bal.have[coin] + (-Tax(num))
          /\ y.user.bal.tax[coin] = x.user.bal.tax[coin] + Tax(num)
          /\ x.user.bal = x.row => /\ y.user.bal = y.row /\ Held(y, coin) = Held(x, coin) + (-Tax(num)) + Tax(num)
                                   /\ \A l \in Coin \ {coin} : Held(y, l) = Held(x, l)
      BY <1>2, <3>1, AddHeld
    <3>4. Held(x, coin) \in Int
      BY <1>2, HeldIs
    <3> HIDE DEF x, y
    <3>5. Held(x, coin) + (-Tax(num)) + Tax(num) = Held(x, coin)
      BY <1>2, <3>4
    <3> QED  BY <1>2, <3>2, <3>3, <3>5 DEF Exact
  <2> QED  BY <2>1
<1>4. taxed => /\ z.user.bal.have[coin] = y.user.bal.have[coin] + Tax(num)
               /\ Exact(y) => /\ Held(z, coin) = Held(y, coin) + Tax(num) + (-Tax(num))
                              /\ \A l \in Coin \ {coin} : Held(z, l) = Held(y, l)
  <2> HIDE DEF x, y
  <2>1. -Tax(num) \in Int /\ Tax(num) \in Int
    BY <1>2
  <2> QED  BY <1>3, <2>1, AddHeld DEF Exact
<1>5. taxed => /\ w.user.bal.have[coin] = y.user.bal.have[coin] + (-num)
               /\ taken => w.user # None
               /\ Exact(y) => /\ Held(w, coin) = Held(y, coin) + (-num) + 0
                              /\ \A l \in Coin \ {coin} : Held(w, l) = Held(y, l)
  <2> HIDE DEF x, y
  <2>1. CASE taxed
    <3>1. -num \in Int /\ 0 \in Int /\ y.user # None /\ Good(y)
      BY <1>0, <1>3, <2>1
    <3>2. w.user.bal.have[coin] = y.user.bal.have[coin] + (-num)
      BY <3>1, AddHeld
    <3>3. Exact(y) => /\ Held(w, coin) = Held(y, coin) + (-num) + 0
                      /\ \A l \in Coin \ {coin} : Held(w, l) = Held(y, l)
      BY <3>1, AddHeld DEF Exact
    <3>4. taken => y.user.bal.have[coin] + (-num) >= 0
      <4>1. y.user.bal.have[coin] \in Int
        BY <3>1, HeldIs
      <4> QED  BY <1>0, <4>1
    <3>5. taken => w.user # None
      BY <3>1, <3>4, AddGood
    <3> QED  BY <3>2, <3>3, <3>5
  <2> QED  BY <2>1
<1> DEFINE v == IF taken THEN w ELSE IF taxed THEN z ELSE x
<1>6. acct'[a] = v /\ acct' = [acct EXCEPT ![a] = v]
  BY <1>0, <1>1
<1>7. Held(x, coin) \in Int /\ x.user.bal.have[coin] \in Int
  BY <1>2, HeldIs
<1> HIDE DEF x, y, w, z
<1>8. /\ Held(v, coin) = Held(x, coin) - n
      /\ \A l \in Coin \ {coin} : Held(v, l) = Held(x, l)
  <2>1. CASE Exact(x)
    <3>1. CASE taken
      <4>1. Held(w, coin) = Held(x, coin) + (-num) + 0 /\ \A l \in Coin \ {coin} : Held(w, l) = Held(x, l)
        BY <1>3, <1>5, <2>1, <3>1
      <4> QED  BY <1>0, <1>7, <3>1, <4>1
    <3>2. CASE taxed /\ ~taken
      <4>1. Held(z, coin) = Held(x, coin) + Tax(num) + (-Tax(num)) /\ \A l \in Coin \ {coin} : Held(z, l) = Held(x, l)
        BY <1>3, <1>4, <2>1, <3>2
      <4> QED  BY <1>2, <1>7, <3>2, <4>1
    <3>3. CASE ~taxed
      BY <1>7, <3>3
    <3> QED  BY <3>1, <3>2, <3>3
  <2>2. CASE v.row = x.row /\ (v.user # None => v.user.bal = x.user.bal)
    <3>1. ~taken
      <4> SUFFICES ASSUME taken PROVE FALSE
        OBVIOUS
      <4>1. w.user.bal.have[coin] = x.user.bal.have[coin] + (-Tax(num)) + (-num) /\ w.user # None
        BY <1>3, <1>5
      <4>2. w.user.bal.have[coin] = x.user.bal.have[coin]
        BY <2>2, <4>1
      <4>3. num \in Nat \ {0} /\ Tax(num) \in Nat
        BY <1>0, <1>2
      <4> QED  BY ONLY <1>7, <4>1, <4>2, <4>3
    <3>2. \A l : Held(v, l) = Held(x, l)
      BY <2>2 DEF Held
    <3> QED  BY <1>7, <3>1, <3>2
  <2>3. Exact(acct[a]) \/ (acct'[a].row = acct[a].row /\ (acct'[a].user # None => acct'[a].user.bal = acct[a].user.bal))
    BY CopyIs
  <2> QED  BY <1>6, <2>1, <2>2, <2>3 DEF x
<1> HIDE DEF v
<1>9. Owned(acct', pack', k) = Owned(acct, pack, k) - (IF k = coin THEN n ELSE 0)
  <2>1. Good(v) /\ Good(x)
    BY <1>0, <1>6, GoodIs DEF x
  <2>2. Owned([acct EXCEPT ![a] = v], pack, k) = Owned(acct, pack, k) + (Held(v, k) - Held(acct[a], k))
    <3> DEFINE B == [acct EXCEPT ![a] = v]
    <3>1. /\ acct \in [Account -> GoodAcct] /\ pack \in [Account -> [Coin -> 0 .. MaxPack]]
          /\ B \in [Account -> GoodAcct] /\ B[a] = v /\ \A b \in Account \ {a} : acct[b] = B[b]
      BY <1>0, <2>1, TableKeeps
    <3> HIDE DEF B
    <3>2. Differ(acct, B, pack, pack, a)
      BY <3>1 DEF Differ
    <3>3. Owned(B, pack, k) = Owned(acct, pack, k) + (Held(B[a], k) - Held(acct[a], k))
      BY ONLY <3>2, OwnedOne, a \in Account, k \in Coin
    <3> QED  BY <3>1, <3>3 DEF B
  <2>3. Held(v, k) \in Int /\ Held(x, k) \in Int /\ n \in Int
    BY <1>0, <2>1, HeldIs
  <2>4. Held(v, k) - Held(x, k) = 0 - (IF k = coin THEN n ELSE 0)
    BY <1>8, <2>3
  <2> HIDE DEF n
  <2>5. Owned([acct EXCEPT ![a] = v], pack, k) = Owned(acct, pack, k) - (IF k = coin THEN n ELSE 0)
    BY <2>2, <2>3, <2>4, SumIs DEF x
  <2> QED  BY <1>0, <1>6, <2>5
<1>10. Bound(list'[k], act', k) = Bound(list[k], act, k) + (IF k = coin THEN n ELSE 0)
  <2>1. CASE ~taken
    <3>1. Bound(list[k], act, k) \in Int
      BY SumIs
    <3> QED  BY <1>1, <2>1, <3>1
  <2>2. CASE taken /\ k # coin
    <3>1. list'[k] = list[k] /\ IsFiniteSet(list[k]) /\ list[k] \subseteq Order
      BY <1>1, <2>2, TableFinite DEF ConsignInv, ListInv
    <3>2. \A o : At(act, k, o) = o.num /\ At(act', k, o) = o.num
      BY <1>0, <1>1, <2>2 DEF At, Idle
    <3>3. Bound(list[k], act, k) = Bound(list[k], act', k)
      BY <3>1, <3>2, BoundSame
    <3> QED  BY <2>2, <3>1, <3>3, SumIs
  <2>3. CASE taken /\ k = coin
    <3> DEFINE L == list'[coin]  M == list[coin]
    <3>1. L = M \cup {row} /\ row.id = orders + 1 /\ row.num = num
      BY <1>1, <2>3 DEF ConsignInv, ListInv
    <3>2. \A o \in M : o.id # row.id /\ o.id \in Nat
      <4>1. \A o \in M : o.id <= orders /\ o.id \in Nat /\ orders \in Nat
        BY OrderIs DEF ConsignInv, ListInv, Counts
      <4> QED  BY <3>1, <4>1
    <3>3. IsFiniteSet(L) /\ L \subseteq Order
      <4>1. ListInv'
        BY DEF ConsignInv
      <4>2. IsFiniteSet(M)
        BY TableFinite DEF ConsignInv
      <4>3. L \subseteq Order
        BY <4>1 DEF ListInv
      <4> HIDE DEF L, M, row
      <4> QED  BY <3>1, <4>2, <4>3, FS_AddElement
    <3>4. \A o : At(act, coin, o) = o.num /\ At(act', coin, o) = o.num
      BY <1>0, <1>1, <2>3 DEF At, Idle
    <3>5. \A p \in L : p.num \in Int
      BY <3>3, OrderIs
    <3>6. row \in L /\ M = L \ {row}
      BY <3>1, <3>2
    <3> HIDE DEF L, M, row
    <3>7. \A p \in L : At(act', coin, p) \in Int
      BY <3>4, <3>5
    <3>8. Bound(L, act', coin) \in Int /\ Bound(M, act', coin) = Bound(L, act', coin) - At(act', coin, row)
      <4> DEFINE c == act'
      <4> HIDE DEF c
      <4>1. \A p \in L : At(c, coin, p) \in Int
        BY <3>7 DEF c
      <4>2. Bound(L, c, coin) \in Int /\ Bound(L \ {row}, c, coin) = Bound(L, c, coin) - At(c, coin, row)
        BY ONLY <3>3, <3>6, <4>1, BoundIs, BoundGone
      <4> QED  BY <3>6, <4>2 DEF c
    <3>9. Bound(M, act', coin) = Bound(M, act, coin)
      <4> DEFINE c == act'
      <4>1. \A o \in M : At(c, coin, o) = At(act, coin, o)
        BY <3>4
      <4> HIDE DEF c
      <4>2. IsFiniteSet(M) /\ M \subseteq Order
        BY <3>3, <3>6, FS_Subset
      <4>3. Bound(M, c, coin) = Bound(M, act, coin)
        BY ONLY <4>1, <4>2, BoundSame
      <4> QED  BY <4>3 DEF c
    <3>10. Bound(L, act', coin) = Bound(M, act, coin) + num
      <4>1. At(act', coin, row) = num
        BY <3>1, <3>4
      <4> QED  BY <1>0, <3>8, <3>9, <4>1
    <3> QED  BY <2>3, <3>10 DEF L, M
  <2> QED  BY <2>1, <2>2, <2>3
<1>11. Kept(spread', act', k) = Kept(spread, act, k)
  <2>1. act'.op # "trade" /\ act.op # "trade"
    BY <1>0, <1>1 DEF Idle
  <2> QED  BY <1>0, <2>1 DEF Kept
<1>12. n \in Int
  BY <1>0
<1> HIDE DEF n
<1>13. Owned(acct, pack, k) \in Int /\ Bound(list[k], act, k) \in Int /\ Kept(spread, act, k) \in Int
  BY SumIs
<1> QED  BY <1>9, <1>10, <1>11, <1>12, <1>13 DEF Sum, SumNext

\* When the loop begins the order counts with its own number.
LEMMA BeginSum ==
  ASSUME ConsignInv, Begin, NEW k \in Coin
  PROVE  SumNext(k) = Sum(k)
<1>1. PICK o \in Best(act.coin, list[act.coin]) :
        act' = [op |-> "trade", coin |-> act.coin, list |-> o, num |-> o.num, sys |-> 0]
  BY DEF Begin
<1>2. UNCHANGED <<acct, list, spread, pack>> /\ act.op = "start" /\ act.coin \in Coin
  BY Begins
<1>3. o \in list[act.coin]
  BY DEF Best
<1>4. \A p \in list[k] : At(act', k, p) = p.num /\ At(act, k, p) = p.num
  <2>1. \A p \in list[k] : act.coin = k /\ p.id = o.id => p = o
    BY <1>2, <1>3 DEF ConsignInv, ListInv
  <2> QED  BY <1>1, <1>2, <2>1 DEF At
<1>5. IsFiniteSet(list[k]) /\ list[k] \subseteq Order
  BY TableFinite DEF ConsignInv, ListInv
<1>6. Bound(list[k], act', k) = Bound(list[k], act, k)
  BY <1>4, <1>5, BoundSame
<1>7. Kept(spread', act', k) = Kept(spread, act, k)
  <2>1. act'.op = "trade" /\ act'.sys = 0 /\ spread \in Nat
    BY <1>1 DEF ConsignInv, RestInv
  <2> QED  BY <1>2, <2>1 DEF Kept
<1> QED  BY <1>2, <1>6, <1>7 DEF Sum, SumNext

(***************************************************************************)
(* Nor does a cancelled order                                              *)
(***************************************************************************)
\* One order of a table counts at another number.
LEMMA BoundNum ==
  ASSUME NEW L, IsFiniteSet(L), L \subseteq Order, NEW c, NEW d, NEW k, NEW o \in L,
         \A p \in L : At(c, k, p) \in Int /\ At(d, k, p) \in Int, \A p \in L \ {o} : At(d, k, p) = At(c, k, p)
  PROVE  Bound(L, d, k) = Bound(L, c, k) + (At(d, k, o) - At(c, k, o))
<1> DEFINE R == L \ {o}
<1>1. IsFiniteSet(R) /\ R \subseteq Order /\ \A p \in R : At(c, k, p) \in Int /\ At(c, k, p) = At(d, k, p)
  BY FS_Subset
<1>2. Bound(R, c, k) = Bound(L, c, k) - At(c, k, o) /\ Bound(R, d, k) = Bound(L, d, k) - At(d, k, o)
  BY BoundGone
<1> HIDE DEF R
<1>3. Bound(R, c, k) = Bound(R, d, k) /\ Bound(R, c, k) \in Int
  BY <1>1, BoundSame, BoundIs
<1>4. Bound(L, c, k) \in Int /\ Bound(L, d, k) \in Int /\ At(c, k, o) \in Int /\ At(d, k, o) \in Int
  BY BoundIs
<1> QED  BY ONLY <1>2, <1>3, <1>4

\* The rows of one order change and what the main loop has for it: the other table is the same.
LEMMA BoundStep ==
  ASSUME ConsignInv, NEW coin \in Coin, NEW o \in list[coin], NEW l \in Nat, list' = Set(o, l),
         \A p \in list[coin] \ {o} : At(act', coin, p) = At(act, coin, p),
         l # 0 => At(act', coin, [o EXCEPT !.num = l]) = l
  PROVE  Bound(list'[coin], act', coin) = Bound(list[coin], act, coin) + (l - At(act, coin, o))
<1> DEFINE L == list[coin]  M == list'[coin]  c == act'
<1>1. M = (L \ {o}) \cup (IF l = 0 THEN {} ELSE {[o EXCEPT !.num = l]})
  BY SetIs DEF ConsignInv
<1>2. IsFiniteSet(L) /\ L \subseteq Order /\ o \in L
  BY TableFinite DEF ConsignInv, ListInv
<1>3. \A p \in L : At(act, coin, p) \in Int
  BY AtIs
<1>4. \A p \in L \ {o} : p.id # o.id /\ At(c, coin, p) = At(act, coin, p)
  BY DEF ConsignInv, ListInv
<1>5. l # 0 => At(c, coin, [o EXCEPT !.num = l]) = l
  OBVIOUS
<1> HIDE DEF L, M, c
<1>6. Bound(M, c, coin) = Bound(L, act, coin) + (l - At(act, coin, o))
  BY <1>1, <1>2, <1>3, <1>4, <1>5, BoundSet
<1> QED  BY <1>6 DEF L, M, c

\* One account has n more of a coin.
LEMMA OwnedStep ==
  ASSUME ConsignInv, acct' \in [Account -> GoodAcct], pack' = pack, NEW a \in Account, \A b \in Account \ {a} : acct'[b] = acct[b],
         NEW coin \in Coin, NEW n \in Int, Held(acct'[a], coin) = Held(acct[a], coin) + n,
         \A k \in Coin \ {coin} : Held(acct'[a], k) = Held(acct[a], k), NEW k \in Coin
  PROVE  Owned(acct', pack', k) = Owned(acct, pack, k) + (IF k = coin THEN n ELSE 0)
<1> DEFINE A == acct'
<1>0. acct \in [Account -> GoodAcct] /\ pack \in [Account -> [Coin -> 0 .. MaxPack]]
  BY DEF ConsignInv, AcctInv, RestInv
<1>1. Differ(acct, A, pack, pack, a)
  BY <1>0 DEF Differ
<1>2. Held(A[a], k) = Held(acct[a], k) + (IF k = coin THEN n ELSE 0)
  <2>1. Held(acct[a], k) \in Int
    BY <1>0, HeldIs, GoodIs
  <2> QED  BY <2>1
<1>3. Held(acct[a], k) \in Int /\ pack[a][k] \in Int
  <2>1. pack[a][k] \in 0 .. MaxPack
    BY <1>0
  <2> QED  BY <1>0, <2>1, HeldIs, GoodIs, ConsignAssumption
<1> HIDE DEF A
<1>4. Owned(A, pack, k) = Owned(acct, pack, k) + (Held(A[a], k) - Held(acct[a], k)) + (pack[a][k] - pack[a][k])
  BY ONLY <1>1, OwnedChange, a \in Account, k \in Coin
<1>5. Owned(acct, pack, k) \in Int
  BY SumIs
<1>6. Owned(A, pack, k) = Owned(acct, pack, k) + (IF k = coin THEN n ELSE 0)
  BY ONLY <1>2, <1>3, <1>4, <1>5, n \in Int
<1> QED  BY <1>6 DEF A

\* An order that is gone, in a main loop that trades none.
LEMMA GoneStep ==
  ASSUME ConsignInv, act.op # "trade", act'.op # "trade", spread' = spread, NEW coin \in Coin, NEW o \in list[coin],
         list' = Set(o, 0), NEW k \in Coin
  PROVE  /\ Bound(list'[k], act', k) = Bound(list[k], act, k) - (IF k = coin THEN o.num ELSE 0)
         /\ Kept(spread', act', k) = Kept(spread, act, k)
<1>1. \A l, p : At(act, l, p) = p.num /\ At(act', l, p) = p.num
  BY DEF At
<1>2. Kept(spread', act', k) = Kept(spread, act, k)
  BY DEF Kept
<1>3. Bound(list[k], act, k) \in Int /\ o.num \in Int
  BY SumIs, OrderIs DEF ConsignInv, ListInv
<1>4. CASE k = coin
  <2> DEFINE l == 0
  <2>0. l \in Nat /\ l = 0 /\ list' = Set(o, l)
    OBVIOUS
  <2> HIDE DEF l
  <2>1. Bound(list'[coin], act', coin) = Bound(list[coin], act, coin) + (l - At(act, coin, o))
    <3>1. \A p \in list[coin] \ {o} : At(act', coin, p) = At(act, coin, p)
      BY <1>1
    <3>2. l # 0 => At(act', coin, [o EXCEPT !.num = l]) = l
      BY <2>0
    <3> QED  BY ONLY <2>0, <3>1, <3>2, BoundStep, ConsignInv, coin \in Coin, o \in list[coin]
  <2> QED  BY <1>1, <1>2, <1>3, <1>4, <2>0, <2>1
<1>5. CASE k # coin
  <2>1. list'[k] = list[k] /\ IsFiniteSet(list[k]) /\ list[k] \subseteq Order
    BY <1>5, SetIs, TableFinite DEF ConsignInv, ListInv
  <2>2. Bound(list[k], act, k) = Bound(list[k], act', k)
    BY <1>1, <2>1, BoundSame
  <2> QED  BY <1>2, <1>3, <1>5, <2>1, <2>2
<1> QED  BY <1>4, <1>5

\* What is in an order that is cancelled goes back to the balance.
LEMMA CancelSum ==
  ASSUME ConsignInv, ConsignInv', Synced, Clean, NEW coin \in Coin, NEW o \in list[coin], cancelList(coin, o), NEW k \in Coin
  PROVE  SumNext(k) = Sum(k)
<1>1. PICK f \in SUBSET {"add", "row"} :
        /\ Failing(f, 0)
        /\ acct' = IF "add" \in f THEN acct ELSE [acct EXCEPT ![o.accid] = Add(@, coin, o.num, 0)]
        /\ list' = IF "row" \in f THEN list ELSE Set(o, 0)
  BY DEF cancelList
<1>2. /\ act = Idle /\ acct[o.accid].user # None /\ UNCHANGED <<spread, pack, act>> /\ o.accid \in Account /\ o.num \in Nat
      /\ acct \in [Account -> GoodAcct] /\ acct' \in [Account -> GoodAcct]
  BY OrderIs DEF cancelList, Has, ConsignInv, ListInv, AcctInv
<1>3. f = {}
  <2>1. f \in SUBSET Faults /\ fails' = fails
    BY FaultsAre DEF Clean
  <2> QED  BY <1>1, <2>1, NoneFails DEF ConsignInv
<1>4. acct' = [acct EXCEPT ![o.accid] = Add(acct[o.accid], coin, o.num, 0)] /\ list' = Set(o, 0)
  BY <1>1, <1>3
<1>5. acct[o.accid].user.bal.have[coin] + o.num >= 0 /\ o.num \in Int /\ 0 \in Int
  <2>1. acct[o.accid].user.bal.have[coin] \in Nat
    BY <1>2, AcctIs DEF ConsignInv
  <2> QED  BY <1>2, <2>1
<1>6. /\ Held(acct'[o.accid], coin) = Held(acct[o.accid], coin) + o.num + 0
      /\ \A l \in Coin \ {coin} : Held(acct'[o.accid], l) = Held(acct[o.accid], l)
  BY <1>2, <1>4, <1>5, AddExact
<1>7. Held(acct'[o.accid], coin) = Held(acct[o.accid], coin) + o.num
  <2>1. Held(acct[o.accid], coin) \in Int
    BY <1>2, HeldIs, GoodIs
  <2> QED  BY <1>5, <1>6, <2>1
<1>8. \A b \in Account \ {o.accid} : acct'[b] = acct[b]
  BY <1>2, <1>4
<1>9. Owned(acct', pack', k) = Owned(acct, pack, k) + (IF k = coin THEN o.num ELSE 0)
  BY <1>2, <1>5, <1>6, <1>7, <1>8, OwnedStep
<1>10. /\ Bound(list'[k], act', k) = Bound(list[k], act, k) - (IF k = coin THEN o.num ELSE 0)
       /\ Kept(spread', act', k) = Kept(spread, act, k)
  <2>1. act.op # "trade" /\ act'.op # "trade" /\ spread' = spread
    BY <1>2 DEF Idle
  <2> QED  BY <1>4, <2>1, GoneStep
<1>11. Owned(acct, pack, k) \in Int /\ Bound(list[k], act, k) \in Int /\ Kept(spread, act, k) \in Int
  BY SumIs
<1>12. SumNext(k) = Sum(k)
  <2>1. Owned(acct', pack', k) + Bound(list'[k], act', k) + Kept(spread', act', k)
        = Owned(acct, pack, k) + Bound(list[k], act, k) + Kept(spread, act, k)
    BY ONLY <1>5, <1>9, <1>10, <1>11
  <2> QED  BY <2>1 DEF Sum, SumNext
<1> QED  BY <1>12

\* cancelListAll gives back the tax as well.
LEMMA CancelNextSum ==
  ASSUME ConsignInv, ConsignInv', Clean, CancelNext, NEW k \in Coin
  PROVE  SumNext(k) = Sum(k) \/ \E o \in list[k] : list' = Set(o, 0) /\ SumNext(k) = Sum(k) + Tax(o.num)
<1> DEFINE coin == IF list["gold"] # {} THEN "gold" ELSE "money"
<1>0. coin \in Coin /\ act.op = "cancelAll" /\ act' \in {Idle, act}
  BY CancelNextKeeps DEF Coin
<1>1. PICK o \in list[coin], f \in SUBSET {"add", "row"} :
        /\ Failing(f, 0)
        /\ acct' = IF "add" \in f THEN acct
                   ELSE [acct EXCEPT ![o.accid] = AddRow(@, coin, o.num + Tax(o.num))]
        /\ list' = IF "row" \in f THEN list ELSE Set(o, 0)
  BY DEF CancelNext
<1>2. UNCHANGED <<spread, pack>>
  BY DEF CancelNext
<1> HIDE DEF coin
<1>3. f = {}
  <2>1. f \in SUBSET Faults /\ fails' = fails
    BY FaultsAre DEF Clean
  <2> QED  BY <1>1, <2>1, NoneFails DEF ConsignInv
<1>4. /\ o.accid \in Account /\ o.num \in Nat /\ Tax(o.num) \in Nat
      /\ acct \in [Account -> GoodAcct] /\ acct' \in [Account -> GoodAcct]
  <2>1. o.accid \in Account /\ o.num \in Nat
    BY <1>0, OrderIs DEF ConsignInv, ListInv
  <2> QED  BY <2>1, ConsignAssumption, Division DEF Tax, ConsignInv, AcctInv
<1> DEFINE n == o.num + Tax(o.num)
<1>5. acct' = [acct EXCEPT ![o.accid] = AddRow(acct[o.accid], coin, n)] /\ list' = Set(o, 0) /\ n \in Int
  BY <1>1, <1>3, <1>4
<1> HIDE DEF n
<1>6. /\ Held(acct'[o.accid], coin) = Held(acct[o.accid], coin) + n
      /\ \A l \in Coin \ {coin} : Held(acct'[o.accid], l) = Held(acct[o.accid], l)
  <2>1. acct'[o.accid] = AddRow(acct[o.accid], coin, n) /\ Good(acct[o.accid])
    BY <1>4, <1>5, GoodIs
  <2> QED  BY <1>0, <1>5, <2>1, AddRowHeld
<1>7. \A b \in Account \ {o.accid} : acct'[b] = acct[b]
  BY <1>4, <1>5
<1>8. Owned(acct', pack', k) = Owned(acct, pack, k) + (IF k = coin THEN n ELSE 0)
  <2>1. pack' = pack /\ acct' \in [Account -> GoodAcct] /\ o.accid \in Account /\ coin \in Coin /\ n \in Int
    BY <1>0, <1>2, <1>4, <1>5
  <2> QED  BY ONLY <1>6, <1>7, <2>1, OwnedStep, ConsignInv, k \in Coin
<1>9. /\ Bound(list'[k], act', k) = Bound(list[k], act, k) - (IF k = coin THEN o.num ELSE 0)
      /\ Kept(spread', act', k) = Kept(spread, act, k)
  <2>1. act.op # "trade" /\ act'.op # "trade" /\ spread' = spread
    BY <1>0, <1>2 DEF Idle
  <2> QED  BY <1>0, <1>5, <2>1, GoneStep
<1>10. Owned(acct, pack, k) \in Int /\ Bound(list[k], act, k) \in Int /\ Kept(spread, act, k) \in Int
  BY SumIs
<1>11. SumNext(k) = Sum(k) + (IF k = coin THEN Tax(o.num) ELSE 0)
  <2>0. n = o.num + Tax(o.num)
    BY DEF n
  <2>1. Owned(acct', pack', k) + Bound(list'[k], act', k) + Kept(spread', act', k)
        = Owned(acct, pack, k) + Bound(list[k], act, k) + Kept(spread, act, k) + (IF k = coin THEN Tax(o.num) ELSE 0)
    BY ONLY <1>4, <1>8, <1>9, <1>10, <2>0
  <2> QED  BY <2>1 DEF Sum, SumNext
<1>12. Sum(k) \in Int
  BY <1>10 DEF Sum
<1> QED  BY <1>5, <1>11, <1>12

(***************************************************************************)
(* Nor does a turn of the loop                                             *)
(***************************************************************************)
\* While all orders of money are multiples of their price, no rest is left of one.
LEMMA NoRest ==
  ASSUME ConsignInv, ~Odd, NEW m \in list["money"]
  PROVE  Multiple(m.num, m.price)
<1>1. m.num \in Nat /\ m.price \in Nat \ {0}
  BY OrderIs DEF ConsignInv, ListInv, Coin
<1>2. m.num % m.price = 0
  BY DEF Odd
<1> QED  BY <1>1, <1>2, Multiples

\* The orders the main loop does not trade count with their numbers.
LEMMA AtOthers ==
  ASSUME ConsignInv, act.op = "trade", NEW k \in Coin, NEW p \in list[k], p # act.list
  PROVE  At(act, k, p) = p.num
BY AtIs

\* At the end of the loop the row gets the number the order counted at.
LEMMA FinishSum ==
  ASSUME ConsignInv, ConsignInv', Traded, ~Odd, act.op = "trade", Finish({}), NEW k \in Coin
  PROVE  SumNext(k) = Sum(k)
<1> DEFINE o == act.list
           rest == act.coin = "money" /\ act.num # 0 /\ act.num < o.price
           done == ~rest /\ act.num # o.num
<1>1. /\ act' = Idle /\ pack' = pack
      /\ acct' = IF rest THEN [acct EXCEPT ![o.accid] = CancelRest(o, {})] ELSE acct
      /\ spread' = IF done /\ {} \cap {"row", "history"} = {} THEN spread + act.sys ELSE spread
  BY DEF Finish
<1>2. /\ act.coin \in Coin /\ o \in list[act.coin] /\ o \in Order /\ act.num \in Nat /\ act.sys \in Nat
      /\ o.num \in Nat \ {0} /\ o.price \in Nat \ {0} /\ spread \in Nat
  BY TradeIs, OrderIs DEF ConsignInv, RestInv
<1>3. act.coin = "money" => Multiple(act.num, o.price)
  BY <1>2, NoRest DEF Traded
<1>4. ~rest
  BY <1>2, <1>3, Multiples
<1>5. list' = IF act.num # o.num THEN Set(o, act.num) ELSE list
  BY <1>3, FinishIs
<1>6. acct' = acct /\ spread' = IF act.num # o.num THEN spread + act.sys ELSE spread
  BY <1>1, <1>4
<1> HIDE DEF rest, done, o
<1>7. Kept(spread', act', k) = Kept(spread, act, k)
  <2>1. spread' = spread + act.sys
    <3>1. act.num = o.num => act.sys = 0
      BY <1>2 DEF Traded, o
    <3> QED  BY <1>2, <1>6, <3>1
  <2>2. act'.op # "trade"
    BY <1>1 DEF Idle
  <2> QED  BY <2>1, <2>2 DEF Kept
<1>8. \A l, p : At(act', l, p) = p.num
  BY <1>1 DEF At, Idle
<1>9. Bound(list'[k], act', k) = Bound(list[k], act, k)
  <2>1. \A l \in Coin : IsFiniteSet(list[l]) /\ list[l] \subseteq Order
    BY TableFinite DEF ConsignInv, ListInv
  <2>2. Bound(list[k], act, k) \in Int
    BY SumIs
  <2>3. CASE act.num # o.num /\ k = act.coin
    <3>1. list' = Set(o, act.num)
      BY <1>5, <2>3
    <3>2. \A p \in list[k] \ {o} : At(act', k, p) = At(act, k, p)
      BY <1>8, AtOthers DEF o
    <3>3. act.num # 0 => At(act', k, [o EXCEPT !.num = act.num]) = act.num
      <4>1. act.num # 0 => [o EXCEPT !.num = act.num].num = act.num
        BY <1>2, OrderIs
      <4> QED  BY <1>8, <4>1
    <3>4. At(act, k, o) = act.num /\ o \in list[k]
      BY <1>2, <2>3, AtIs DEF o
    <3>5. Bound(list'[k], act', k) = Bound(list[k], act, k) + (act.num - At(act, k, o))
      BY ONLY <1>2, <3>1, <3>2, <3>3, <3>4, ConsignInv, k \in Coin, BoundStep
    <3> QED  BY ONLY <1>2, <2>2, <3>4, <3>5
  <2>4. CASE act.num # o.num /\ k # act.coin
    <3>1. list'[k] = list[k]
      BY <1>2, <1>5, <2>4, SetIs DEF ConsignInv
    <3>2. \A p \in list[k] : p # o
      BY <1>2, <2>4 DEF ConsignInv, ListInv
    <3>3. \A p \in list[k] : At(act, k, p) = At(act', k, p)
      BY <1>8, <3>2, AtOthers DEF o
    <3> QED  BY <2>1, <3>1, <3>3, BoundSame
  <2>5. CASE act.num = o.num
    <3>1. \A p \in list[k] : At(act, k, p) = At(act', k, p)
      BY <1>8, <2>5, AtIs DEF o
    <3> QED  BY <1>5, <2>1, <2>5, <3>1, BoundSame
  <2> QED  BY <2>3, <2>4, <2>5
<1> QED  BY <1>1, <1>6, <1>7, <1>9 DEF Sum, SumNext

\* What a copy has after its account was paid.
LEMMA PayCopy ==
  ASSUME NEW x, Good(x), x.user # None, NEW coin \in Coin, NEW n \in Nat
  PROVE  LET y == Pay(x, coin, n)
         IN  /\ y.user # None /\ y.user.bal.have[coin] = x.user.bal.have[coin] + n
             /\ \A k \in Coin \ {coin} : y.user.bal.have[k] = x.user.bal.have[k]
<1>1. x.user.bal.have \in [Coin -> Int] /\ x.user.bal.have[coin] >= 0
  BY DEF Good, BillUser, Balance
<1>2. x.user.bal.have[coin] + n >= 0 /\ n \in Int /\ 0 \in Int
  BY <1>1
<1>3. Add(x, coin, n, 0).user # None /\ Add(x, coin, n, 0).user.bal.have = Raised(x.user.bal.have, coin, n)
  BY <1>2, AddGood
<1>4. Pay(x, coin, n) = Add(x, coin, n, 0)
  BY DEF Pay
<1>5. Raised(x.user.bal.have, coin, n)[coin] = x.user.bal.have[coin] + n
      /\ \A k \in Coin \ {coin} : Raised(x.user.bal.have, coin, n)[k] = x.user.bal.have[k]
  BY <1>1 DEF Raised
<1> QED  BY <1>3, <1>4, <1>5

\* The accounts once the seller s is paid e and the buyer b gets n pieces.
Paid(s, b, n, e) == [[acct EXCEPT ![s] = Pay(@, "money", e)] EXCEPT ![b] = Pay(@, "gold", n)]

\* In a turn of the loop without a fault the seller gets the money and the buyer the gold.
LEMMA MatchOwned ==
  ASSUME ConsignInv, ConsignInv', Synced, Clean, NEW s \in Account, NEW b \in Account, NEW n \in Nat \ {0}, NEW e \in Nat \ {0},
         pack' = pack, acct' = Paid(s, b, n, e), NEW k \in Coin
  PROVE  Owned(acct', pack', k) = Owned(acct, pack, k) + (IF k = "gold" THEN n ELSE e)
<1> USE DEF Paid
<1> DEFINE c == [acct EXCEPT ![s] = Pay(@, "money", e)]
           x == Pay(acct[s], "money", e)
           y == Pay(c[b], "gold", n)
<1>0. /\ acct \in [Account -> GoodAcct] /\ pack \in [Account -> [Coin -> 0 .. MaxPack]] /\ "gold" \in Coin /\ "money" \in Coin
      /\ n \in Nat /\ e \in Nat /\ n \in Int /\ e \in Int
  BY DEF ConsignInv, AcctInv, RestInv, Coin
<1>1. Good(acct[s]) /\ Good(acct[b]) /\ c = [acct EXCEPT ![s] = x]
  BY <1>0, GoodIs
<1>2. Good(x)
  BY <1>0, <1>1, PayGood
<1>3. c \in [Account -> GoodAcct] /\ c[s] = x /\ \A a \in Account \ {s} : c[a] = acct[a]
  <2> HIDE DEF x
  <2> QED  BY <1>0, <1>1, <1>2, TableKeeps
<1>4. acct' = [c EXCEPT ![b] = y]
  OBVIOUS
<1> HIDE DEF c
<1>5. Good(c[b]) /\ Good(y)
  BY <1>0, <1>3, GoodIs, PayGood
<1>6. acct'[b] = y /\ \A a \in Account \ {b} : acct'[a] = c[a]
  BY <1>3, <1>4
<1>7. acct[s].user # None => x.user # None /\ x.user.bal.have["money"] = acct[s].user.bal.have["money"] + e
                             /\ x.user.bal.have["gold"] = acct[s].user.bal.have["gold"]
  BY <1>0, <1>1, PayCopy
<1>8. c[b].user # None => y.user # None /\ y.user.bal.have["gold"] = c[b].user.bal.have["gold"] + n
                          /\ y.user.bal.have["money"] = c[b].user.bal.have["money"]
  BY <1>0, <1>5, PayCopy
<1>9. Exact(acct[s])
  <2> SUFFICES ASSUME ~Exact(acct[s]) PROVE FALSE
    OBVIOUS
  <2>1. acct[s].user # None /\ (acct'[s].user # None => acct'[s].user.bal = acct[s].user.bal)
    BY CopyIs DEF Exact
  <2>2. acct'[s].user # None /\ acct'[s].user.bal.have["money"] = acct[s].user.bal.have["money"] + e
    <3>1. CASE s = b
      BY <1>3, <1>6, <1>7, <1>8, <2>1, <3>1
    <3>2. CASE s # b
      BY <1>3, <1>6, <1>7, <2>1, <3>2
    <3> QED  BY <3>1, <3>2
  <2>3. acct[s].user.bal.have["money"] \in Int
    BY <1>0, <1>1, <2>1, HeldIs
  <2> QED  BY <2>1, <2>2, <2>3
<1>10. Exact(acct[b])
  <2> SUFFICES ASSUME ~Exact(acct[b]) PROVE FALSE
    OBVIOUS
  <2>1. acct[b].user # None /\ (acct'[b].user # None => acct'[b].user.bal = acct[b].user.bal)
    BY CopyIs DEF Exact
  <2>2. c[b].user # None /\ c[b].user.bal.have["gold"] = acct[b].user.bal.have["gold"]
    BY <1>3, <1>7, <2>1
  <2>3. acct'[b].user # None /\ acct'[b].user.bal.have["gold"] = acct[b].user.bal.have["gold"] + n
    BY <1>6, <1>8, <2>2
  <2>4. acct[b].user.bal.have["gold"] \in Int
    BY <1>0, <1>1, <2>1, HeldIs
  <2> QED  BY <2>1, <2>3, <2>4
<1>11. /\ Exact(x) /\ Held(x, "money") = Held(acct[s], "money") + e /\ Held(x, "gold") = Held(acct[s], "gold")
  BY <1>0, <1>1, <1>9, PayHeld
<1> HIDE DEF x
<1>12. Exact(c[b])
  BY <1>3, <1>10, <1>11
<1>13. Held(y, "gold") = Held(c[b], "gold") + n /\ Held(y, "money") = Held(c[b], "money")
  BY <1>0, <1>5, <1>12, PayHeld
<1> HIDE DEF y
<1>14. Owned(c, pack, k) = Owned(acct, pack, k) + (Held(x, k) - Held(acct[s], k))
  <2>1. Owned(c, pack, k) = Owned(acct, pack, k) + (Held(c[s], k) - Held(acct[s], k))
    <3>1. Differ(acct, c, pack, pack, s)
      BY <1>0, <1>3 DEF Differ
    <3> QED  BY ONLY <3>1, OwnedOne, s \in Account, k \in Coin
  <2> QED  BY <1>3, <2>1
<1>15. Owned(acct', pack', k) = Owned(c, pack, k) + (Held(y, k) - Held(c[b], k))
  <2> DEFINE d == acct'
  <2>1. d \in [Account -> GoodAcct] /\ d[b] = y /\ \A a \in Account \ {b} : c[a] = d[a]
    BY <1>6 DEF ConsignInv, AcctInv
  <2> HIDE DEF d
  <2>2. Owned(d, pack, k) = Owned(c, pack, k) + (Held(d[b], k) - Held(c[b], k))
    <3>1. Differ(c, d, pack, pack, b)
      BY <1>0, <1>3, <2>1 DEF Differ
    <3> QED  BY ONLY <3>1, OwnedOne, b \in Account, k \in Coin
  <2> QED  BY <2>1, <2>2 DEF d
<1>16. Held(acct[s], k) \in Int /\ Held(c[b], k) \in Int
  BY <1>1, <1>5, HeldIs
<1>17. k = "gold" \/ k = "money"
  BY DEF Coin
<1>18. Owned(acct, pack, k) \in Int
  BY SumIs
<1> QED  BY ONLY <1>0, <1>11, <1>13, <1>14, <1>15, <1>16, <1>17, <1>18

\* What is paid, what is asked, and the difference.
LEMMA Differences ==
  ASSUME NEW n \in Nat \ {0}, NEW p \in Nat \ {0}, NEW q \in Nat \ {0}
  PROVE  n * p \in Nat \ {0} /\ n * q \in Nat \ {0} /\ n * (q - p) = n * q - n * p
OBVIOUS

\* A turn of the loop without a fault or a rest: the seller gets what he asks, the buyer
\* the pieces, the system the difference, and both orders have that less.
LEMMA MatchSum ==
  ASSUME ConsignInv, ConsignInv', Synced, Clean, ~Odd, act.op = "trade", NEW p \in Matching, Match(p, {}), NEW k \in Coin
  PROVE  SumNext(k) = Sum(k)
<1> DEFINE g == GoldOf(p)  m == MoneyOf(p)  n == Pieces(p)  o == act.list
           less == IF act.coin = "gold" THEN n ELSE n * m.price
           left == IF act.coin = "gold" THEN p.num - n * p.price ELSE p.num - n
           rest == act.coin = "gold" /\ left # 0 /\ left < p.price
           sys  == act.sys + n * (m.price - g.price)
           b == IF rest THEN [acct EXCEPT ![p.accid] = CancelRest(p, {})] ELSE acct
           c == IF "seller" \in {} THEN b ELSE [b EXCEPT ![g.accid] = Pay(@, "money", n * g.price)]
<1>1. /\ acct' = IF "buyer" \in {} THEN c ELSE [c EXCEPT ![m.accid] = Pay(@, "gold", n)]
      /\ list' = IF rest THEN RestGone(p, {}) ELSE IF "row" \in {} THEN list ELSE Set(p, left)
      /\ act' = [op |-> "trade", coin |-> act.coin, list |-> act.list, num |-> act.num - less,
                 sys |-> IF rest \/ "row" \in {} THEN sys ELSE 0]
      /\ spread' = IF rest \/ {} \cap {"row", "history"} # {} THEN spread ELSE spread + sys
      /\ pack' = pack
  BY DEF Match, GoldOf, MoneyOf, Pieces
<1>2. /\ p \in Order /\ o \in Order /\ o \in list[act.coin]
      /\ g.accid \in Account /\ m.accid \in Account
      /\ g.num \in Nat /\ m.num \in Nat /\ g.price \in Nat \ {0} /\ m.price \in Nat \ {0}
      /\ n \in Nat \ {0} /\ n <= g.num /\ n * m.price \in Nat /\ n * m.price <= m.num
      /\ \/ act.coin = "gold" /\ p \in list["money"] /\ m = p /\ g.num = act.num
         \/ act.coin = "money" /\ p \in list["gold"] /\ g = p /\ m.num = act.num
  BY PiecesAre
<1>3. /\ act.coin \in Coin /\ act.num \in Nat /\ act.sys \in Nat /\ spread \in Nat /\ p.num \in Nat /\ p.price \in Nat \ {0}
  BY <1>2, TradeIs, OrderIs DEF ConsignInv, RestInv
<1> HIDE DEF g, m, n, o
<1> DEFINE gone == IF act.coin = "gold" THEN n * m.price ELSE n
<1>4. left = p.num - gone /\ left \in Nat /\ gone \in Nat /\ less \in Nat /\ less <= act.num
  BY <1>2, <1>3
<1>5. ~rest
  <2>1. CASE act.coin = "gold"
    <3>1. Multiple(p.num, p.price) /\ n * p.price \in Nat
      BY <1>2, <2>1, NoRest
    <3>2. n <= p.num \div p.price
      <4>1. n * p.price <= p.num
        BY <1>2, <2>1
      <4> DEFINE d == p.num \div p.price  r == p.num % p.price
      <4>2. d \in Nat /\ r \in Nat /\ r < p.price /\ p.num = d * p.price + r
        BY <1>3, Division
      <4> DEFINE pr == p.price  nu == p.num
      <4>3. pr \in Nat \ {0} /\ nu \in Nat /\ n \in Nat /\ n * pr <= nu /\ nu = d * pr + r /\ r < pr /\ d \in Nat /\ r \in Nat
        BY <1>2, <1>3, <4>1, <4>2
      <4> HIDE DEF d, r, pr, nu
      <4>4. n > d => n * pr >= d * pr + pr
        BY ONLY <4>3
      <4>5. n * pr \in Nat /\ d * pr \in Nat
        BY ONLY <4>3
      <4>6. ~(n > d)
        BY ONLY <4>3, <4>4, <4>5
      <4> QED  BY <4>3, <4>6 DEF d
    <3>3. Multiple(left, p.price)
      BY <1>2, <1>3, <2>1, <3>1, <3>2, Multiples
    <3> HIDE DEF left
    <3> QED  BY <1>3, <1>4, <3>3, Multiples
  <2> QED  BY <2>1
<1>6. /\ acct' = [[acct EXCEPT ![g.accid] = Pay(@, "money", n * g.price)] EXCEPT ![m.accid] = Pay(@, "gold", n)]
      /\ list' = Set(p, left) /\ spread' = spread + sys
      /\ act' = [op |-> "trade", coin |-> act.coin, list |-> o, num |-> act.num - less, sys |-> 0]
  BY <1>1, <1>5 DEF o
<1>7. /\ n * g.price \in Nat \ {0} /\ n * m.price \in Nat \ {0} /\ n * (m.price - g.price) = n * m.price - n * g.price
  BY <1>2, Differences
<1>8. Owned(acct', pack', k) = Owned(acct, pack, k) + (IF k = "gold" THEN n ELSE n * g.price)
  <2> DEFINE e == n * g.price  s == g.accid  y == m.accid
  <2>1. /\ s \in Account /\ y \in Account /\ n \in Nat \ {0} /\ e \in Nat \ {0} /\ pack' = pack
        /\ acct' = Paid(s, y, n, e)
    BY <1>1, <1>2, <1>6, <1>7 DEF Paid
  <2> HIDE DEF e, s, y
  <2>2. Owned(acct', pack', k) = Owned(acct, pack, k) + (IF k = "gold" THEN n ELSE e)
    BY ONLY <2>1, MatchOwned, ConsignInv, ConsignInv', Synced, Clean, k \in Coin
  <2> QED  BY <2>2 DEF e
<1> HIDE DEF left, less, gone, rest, b, c
<1>9. Bound(list[k], act, k) \in Int /\ Owned(acct, pack, k) \in Int
  BY SumIs
<1>10. PICK other \in Coin : p \in list[other] /\ other # act.coin
  BY <1>2 DEF Coin
<1>11. act'.op = "trade" /\ act'.coin = act.coin /\ act'.list = o /\ act'.num = act.num - less /\ act'.sys = 0
  BY <1>6
<1>12. Bound(list'[k], act', k) = Bound(list[k], act, k) - (IF k = act.coin THEN less ELSE gone)
  <2>1. CASE k # act.coin
    <3>0. k = other
      BY <1>3, <1>10, <2>1 DEF Coin
    <3>1. \A q : At(act', k, q) = q.num /\ At(act, k, q) = q.num
      BY <1>11, <2>1 DEF At
    <3>2. left # 0 => At(act', k, [p EXCEPT !.num = left]) = left
      <4>1. left # 0 => [p EXCEPT !.num = left].num = left
        BY <1>2, <1>4, OrderIs
      <4> QED  BY <3>1, <4>1
    <3>3. \A q \in list[k] \ {p} : At(act', k, q) = At(act, k, q)
      BY <3>1
    <3>4. left \in Nat /\ list' = Set(p, left) /\ p \in list[k]
      BY <1>4, <1>6, <1>10, <3>0
    <3>5. Bound(list'[k], act', k) = Bound(list[k], act, k) + (left - At(act, k, p))
      BY ONLY <3>2, <3>3, <3>4, ConsignInv, k \in Coin, BoundStep
    <3>6. At(act, k, p) = p.num /\ gone \in Nat /\ left = p.num - gone /\ p.num \in Nat
      BY <1>3, <1>4, <3>1
    <3>7. Bound(list'[k], act', k) = Bound(list[k], act, k) - gone
      BY ONLY <1>9, <3>5, <3>6
    <3> QED  BY <2>1, <3>7
  <2>2. CASE k = act.coin
    <3>1. list'[k] = list[k]
      BY <1>4, <1>6, <1>10, <2>2, SetIs DEF ConsignInv
    <3> DEFINE L == list[k]  d == act'
    <3>2. IsFiniteSet(L) /\ L \subseteq Order /\ o \in L
      BY <1>2, <2>2, TableFinite DEF ConsignInv, ListInv
    <3>3. \A q \in L : At(act, k, q) \in Int /\ (q # o => At(act, k, q) = q.num) /\ q.num \in Int
      BY <3>2, AtIs, AtOthers, OrderIs DEF o
    <3>4. At(act, k, o) = act.num
      BY <3>2, AtIs DEF o
    <3>5. \A q \in L : q # o => q.id # o.id
      BY <3>2 DEF ConsignInv, ListInv
    <3>6. At(d, k, o) = act.num - less /\ \A q \in L : q # o => At(d, k, q) = q.num
      BY <1>11, <2>2, <3>5 DEF At
    <3>7. act.num - less \in Int
      BY <1>3, <1>4
    <3> HIDE DEF L, d
    <3>8. /\ \A q \in L : At(act, k, q) \in Int /\ At(d, k, q) \in Int
          /\ \A q \in L \ {o} : At(d, k, q) = At(act, k, q)
      BY <3>3, <3>6, <3>7
    <3>9. Bound(L, d, k) = Bound(L, act, k) + (At(d, k, o) - At(act, k, o))
      BY ONLY <3>2, <3>8, BoundNum
    <3>10. Bound(L, act, k) \in Int /\ act.num \in Nat /\ less \in Nat
      BY <1>3, <1>4, <1>9 DEF L
    <3>11. Bound(L, d, k) = Bound(L, act, k) - less
      BY ONLY <3>4, <3>6, <3>9, <3>10
    <3> QED  BY <2>2, <3>1, <3>11 DEF L, d
  <2> QED  BY <2>1, <2>2
<1>13. Kept(spread', act', k) = Kept(spread, act, k) + (IF k = "gold" THEN 0 ELSE n * m.price - n * g.price)
  <2>1. spread' = spread + (act.sys + (n * m.price - n * g.price))
    BY <1>6, <1>7
  <2>2. Kept(spread, act, k) = IF k = "gold" THEN 0 ELSE spread + act.sys
    BY DEF Kept
  <2>3. Kept(spread', act', k) = IF k = "gold" THEN 0 ELSE spread' + 0
    BY <1>11 DEF Kept
  <2> QED  BY ONLY <1>3, <1>7, <2>1, <2>2, <2>3
<1>14. (IF k = act.coin THEN less ELSE gone) = IF k = "gold" THEN n ELSE n * m.price
  <2>1. (k = "gold" \/ k = "money") /\ (act.coin = "gold" \/ act.coin = "money")
    BY <1>3 DEF Coin
  <2> QED  BY <2>1 DEF less, gone
<1>15. Owned(acct', pack', k) + Bound(list'[k], act', k) + Kept(spread', act', k)
       = Owned(acct, pack, k) + Bound(list[k], act, k) + Kept(spread, act, k)
  <2>1. Kept(spread, act, k) \in Int /\ n \in Int
    BY <1>2, SumIs
  <2> QED  BY ONLY <1>7, <1>8, <1>9, <1>12, <1>13, <1>14, <2>1
<1> QED  BY <1>15 DEF Sum, SumNext

(***************************************************************************)
(* Nor does any step                                                       *)
(***************************************************************************)
\* A step makes and loses nothing, but for the exceptions that Conserved names.
LEMMA NextConserved ==
  ASSUME ConsignInv, ConsignInv', Synced, Traded, Next, NEW k \in Coin
  PROVE  \/ SumNext(k) = Sum(k)
         \/ ~Clean
         \/ act.op = "trade" /\ Odd
         \/ act.op = "cancelAll" /\ \E o \in list[k] : list' = Set(o, 0) /\ SumNext(k) = Sum(k) + Tax(o.num)
<1> SUFFICES ASSUME Clean, ~(act.op = "trade" /\ Odd)
             PROVE  \/ SumNext(k) = Sum(k)
                    \/ act.op = "cancelAll" /\ \E o \in list[k] : list' = Set(o, 0) /\ SumNext(k) = Sum(k) + Tax(o.num)
  OBVIOUS
<1>1. ASSUME NEW a \in Account, addUser(a) \/ login(a) \/ removeUser(a) PROVE SumNext(k) = Sum(k)
  BY <1>1, UserSum
<1>2. ASSUME NEW a \in Account, NEW l \in Moved, NEW n \in Amount, Save(a, l, n) \/ Fetch(a, l, n)
      PROVE  SumNext(k) = Sum(k)
  <2>1. l \in Coin /\ n \in Nat
    BY ConsignAssumption DEF Coin
  <2> QED  BY <1>2, <2>1, MoveSum
<1>3. ASSUME NEW a \in Account, NEW l \in Coin, NEW n \in Num, NEW p \in Price, putList(a, l, n, p)
      PROVE  SumNext(k) = Sum(k)
  BY <1>3, PutSum
<1>4. CASE Begin
  BY <1>4, BeginSum
<1>5. CASE Trade
  <2>1. act.op = "trade" /\ ~Odd /\ fails' = fails /\ Counts
    BY <1>5 DEF Trade, Clean, ConsignInv
  <2>2. ASSUME NEW p \in Matching, NEW f \in SUBSET {"row", "rest", "history", "seller", "buyer"}, Failing(f, 0), Match(p, f)
        PROVE  SumNext(k) = Sum(k)
    <3>1. f \in SUBSET Faults
      BY FaultsAre
    <3>2. f = {}
      BY <2>1, <2>2, <3>1, NoneFails
    <3>3. Match(p, {})
      BY <2>2, <3>2
    <3> QED  BY <2>1, <2>2, <3>3, MatchSum
  <2>3. ASSUME NEW f \in SUBSET {"row", "rest", "history"}, Failing(f, 0), Finish(f)
        PROVE  SumNext(k) = Sum(k)
    <3>1. f \in SUBSET Faults
      BY FaultsAre
    <3>2. f = {}
      BY <2>1, <2>3, <3>1, NoneFails
    <3>3. Finish({})
      BY <2>3, <3>2
    <3> QED  BY <2>1, <3>3, FinishSum
  <2> QED  BY <1>5, <2>2, <2>3 DEF Trade
<1>6. ASSUME NEW l \in Coin, NEW o \in list[l], cancelList(l, o) PROVE SumNext(k) = Sum(k)
  BY <1>6, CancelSum
<1>7. CASE cancelListAll
  <2>1. UNCHANGED <<acct, list, spread, pack>> /\ act.op # "trade" /\ act'.op # "trade"
    BY <1>7 DEF cancelListAll, Idle
  <2>2. \A o : At(act', k, o) = At(act, k, o)
    BY <2>1 DEF At
  <2>3. Bound(list[k], act', k) = Bound(list[k], act, k)
    BY <2>2, BoundSame, TableFinite DEF ConsignInv, ListInv
  <2>4. Kept(spread, act', k) = Kept(spread, act, k)
    BY <2>1 DEF Kept
  <2> QED  BY <2>1, <2>3, <2>4 DEF Sum, SumNext
<1>8. CASE CancelNext
  BY <1>8, CancelNextSum, CancelNextKeeps
<1> QED  BY <1>1, <1>2, <1>3, <1>4, <1>5, <1>6, <1>7, <1>8 DEF Next

\* At the start no copy and no order is there.
LEMMA InitSynced == Init => Synced /\ Traded
BY DEF Init, Synced, Traded, Idle

\* Matching, putting, cancelling, saving, fetching, and players who come and go make
\* and lose neither gold nor money, for any accounts, sums, prices and numbers of
\* orders: what a step changes in the rows, the packs, the orders and the history adds
\* up to nothing, except where Conserved says so.
THEOREM ConsignConserved == Spec => Conserved
<1> DEFINE Body == \A k \in Coin :
                     \/ Worth(k)' = Worth(k)
                     \/ fails' # fails
                     \/ \E a \in Account : Overwritten(a)
                     \/ act.op = "trade" /\ Odd
                     \/ /\ act.op = "cancelAll"
                        /\ \E o \in list[k] : list' = Set(o, 0) /\ Worth(k)' = Worth(k) + Tax(o.num)
           Apart == \A k \in Coin : Worth(k) = Sum(k)
<1>1. ConsignInv => Apart
  BY WorthIs DEF Sum
<1>2. ConsignInv /\ ConsignInv' /\ Apart /\ Apart' /\ Synced /\ Traded /\ [Next]_vars => [Body]_vars
  <2> SUFFICES ASSUME ConsignInv, ConsignInv', Apart, Apart', Synced, Traded, Next, NEW k \in Coin
               PROVE  \/ Worth(k)' = Worth(k)
                      \/ fails' # fails
                      \/ \E a \in Account : Overwritten(a)
                      \/ act.op = "trade" /\ Odd
                      \/ /\ act.op = "cancelAll"
                         /\ \E o \in list[k] : list' = Set(o, 0) /\ Worth(k)' = Worth(k) + Tax(o.num)
    OBVIOUS
  <2>1. Worth(k)' = SumNext(k) /\ Worth(k) = Sum(k)
    BY DEF Sum, SumNext
  <2> QED  BY <2>1, NextConserved DEF Clean
<1> HIDE DEF Apart
<1>3. Spec => [](ConsignInv /\ Synced /\ Traded)
  BY InitTypes, NextTypes, InitSynced, NextSynced, PTL DEF Spec
<1>4. Spec => [][Body]_vars
  BY <1>1, <1>2, <1>3, PTL DEF Spec
<1> QED  BY <1>4 DEF Conserved

=============================================================================
