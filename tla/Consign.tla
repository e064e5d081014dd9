------------------------------- MODULE Consign -------------------------------
(***************************************************************************)
(* The exchange of gold for money: BillServer's StockConsign and the       *)
(* balances of BillUser.  A player puts an order (putList), which is taxed *)
(* and taken from his balance, and the best order of that side is matched  *)
(* against the other side, one order after the other; what is earned goes  *)
(* to the cached balance of a BillUser, and from there to the BALANCE row, *)
(* or to the row alone when the account has none.                          *)
(*                                                                         *)
(* The main loop runs one handler after the other, each of several writes  *)
(* to the database, any of which may fail; a failed write is logged and    *)
(* ignored.  In between the connection to SuperServer may add a BillUser,  *)
(* whose balance is not read before login.                                 *)
(***************************************************************************)
EXTENDS Integers, FiniteSets, FiniteSetsExt, TLC

CONSTANTS Account, None,
          Lot,      \* SOTCK_MIN_NUM, 100 in the code
          TaxUnit,  \* one in TaxUnit is the tax, 50 in the code
          Num, Price, \* numbers put, prices bid (bounds)
          Moved, Amount, MaxPack, \* coins and sums moved, what a pack holds (bounds)
          Gold, Money, \* the balance everyone starts with
          MaxOrder  \* how many orders are put and writes fail, together (a bound)

ASSUME ConsignAssumption ==
  /\ Lot \in Nat \ {0} /\ TaxUnit \in Nat \ {0} /\ MaxOrder \in Nat
  /\ Num \subseteq Nat \ {0} /\ Price \subseteq Nat \ {0} /\ Amount \subseteq Nat
  /\ Moved \subseteq {"gold", "money"}
  /\ Gold \in Nat /\ Money \in Nat /\ MaxPack \in Nat /\ IsFiniteSet(Account)

VARIABLES
  acct,   \* account: the BALANCE row, and the BillUser with its copy of it
  list,   \* the tables CONSIGNGOLD (coin gold) and CONSIGNMONEY
  spread, \* what the history tables say the system has kept (sysmoney)
  pack,   \* what each player has outside the exchange
  act,    \* where the main loop is
  orders, fails, \* counters, for the bounds
  swept,  \* history: users whose copy is not the row's, after a read at login
          \* failed or cancelListAll wrote to the row only
  odd     \* history: an order of money that is no multiple of its price was put

vars == <<acct, list, spread, pack, act, orders, fails, swept, odd>>

Coin == {"gold", "money"}
Other(coin) == IF coin = "gold" THEN "money" ELSE "gold"
Tax(num) == num \div TaxUnit

Idle == [op |-> "idle"]
Zero == [have |-> [k \in Coin |-> 0], tax |-> [k \in Coin |-> 0]]
Balance == [have : [Coin -> Int], tax : [Coin -> Int]]
BillUser == [login : BOOLEAN, bal : Balance]
Order == [id : 1 .. MaxOrder, accid : Account, num : Nat \ {0}, price : Price]

ASSUME NoneIsNoUser == None \notin BillUser

TypeOK ==
  /\ \A a \in Account : acct[a].row \in Balance /\ acct[a].user \in {None} \cup BillUser
  /\ \A a \in Account, k \in Coin : acct[a].row.have[k] >= 0
  /\ \A k \in Coin : /\ list[k] \subseteq Order
                     /\ \A o, p \in list[k] : o.id = p.id => o = p
  /\ spread \in Nat /\ pack \in [Account -> [Coin -> 0 .. MaxPack]]
  /\ \/ act \in {Idle} \cup [op : {"start"}, coin : Coin] \cup {[op |-> "cancelAll"]}
     \/ /\ act.op = "trade" /\ act.coin \in Coin /\ act.num \in Nat /\ act.sys \in Nat
        /\ act.list \in list[act.coin]
  /\ orders \in Nat /\ fails \in Nat /\ orders + fails <= MaxOrder
  /\ swept \subseteq Account /\ odd \in BOOLEAN

Init ==
  /\ acct = [a \in Account |-> [row |-> [Zero EXCEPT !.have = [gold |-> Gold, money |-> Money]],
                             user |-> None]]
  /\ list = [k \in Coin |-> {}] /\ spread = 0
  /\ pack = [a \in Account |-> [k \in Coin |-> 0]]
  /\ act = Idle /\ orders = 0 /\ fails = 0 /\ swept = {} /\ odd = FALSE

-----------------------------------------------------------------------------
(* balances: an account x is [row, user] *)

\* removeGold, removeMoney, addGold, addMoney of a BillUser: from the copy, and
\* the columns of the coin only
Add(x, coin, n, tax) ==
  LET bal == [have |-> [x.user.bal.have EXCEPT ![coin] = @ + n],
              tax  |-> [x.user.bal.tax EXCEPT ![coin] = @ + tax]]
  IN  [row  |-> [have |-> [x.row.have EXCEPT ![coin] = bal.have[coin]],
                 tax  |-> [x.row.tax EXCEPT ![coin] = bal.tax[coin]]],
       user |-> [login |-> x.user.login, bal |-> bal]]

\* Consign::addGold, addMoney: the row
AddRow(x, coin, n) == [x EXCEPT !.row.have[coin] = @ + n]

\* Seeded fault: the row is written, whether there is a BillUser or not.
PayRow(x, coin, n) == AddRow(x, coin, n)

Pay(x, coin, n) == IF x.user # None THEN Add(x, coin, n, 0) ELSE AddRow(x, coin, n)

\* the writes of a step that fail, and the orders it puts
Failing(f, put) ==
  /\ orders' = orders + put /\ fails' = fails + Cardinality(f)
  /\ orders' + fails' <= MaxOrder

Has(a) == acct[a].user # None /\ acct[a].user.login

-----------------------------------------------------------------------------
(* BillUsers *)

\* msgParse_SuperService, in another thread
addUser(a) ==
  /\ acct[a].user = None
  /\ acct' = [acct EXCEPT ![a].user = [login |-> FALSE, bal |-> Zero]]
  /\ UNCHANGED <<list, spread, pack, act, orders, fails, swept, odd>>

\* BillUser::login reads the row, if it can
login(a) ==
  /\ act = Idle /\ acct[a].user # None /\ ~acct[a].user.login
  /\ \E f \in SUBSET {"read"} :
       /\ Failing(f, 0)
       /\ acct' = [acct EXCEPT ![a].user =
                     [login |-> TRUE, bal |-> IF f = {} THEN acct[a].row ELSE @.bal]]
       /\ swept' = IF f = {} THEN swept ELSE swept \cup {a}
  /\ UNCHANGED <<list, spread, pack, act, odd>>

removeUser(a) ==
  /\ act = Idle /\ acct[a].user # None
  /\ acct' = [acct EXCEPT ![a].user = None] /\ swept' = swept \ {a}
  /\ UNCHANGED <<list, spread, pack, act, orders, fails, odd>>

\* PARA_STOCK_SAVE: what the scene server has taken from the player's pack
Save(a, coin, n) ==
  /\ act = Idle /\ Has(a) /\ n <= pack[a][coin]
  /\ pack' = [pack EXCEPT ![a][coin] = @ - n]
  /\ \E f \in SUBSET {"add"} :
       /\ Failing(f, 0)
       /\ acct' = IF f = {} THEN [acct EXCEPT ![a] = Add(@, coin, n, 0)] ELSE acct
  /\ UNCHANGED <<list, spread, act, swept, odd>>

\* TRANSFER_FUND_FETCH_STOCKPARA: sent to the scene whether removed or not
Fetch(a, coin, n) ==
  /\ act = Idle /\ Has(a) /\ n <= acct[a].user.bal.have[coin] /\ pack[a][coin] + n <= MaxPack
  /\ pack' = [pack EXCEPT ![a][coin] = @ + n]
  /\ \E f \in SUBSET {"remove"} :
       /\ Failing(f, 0)
       /\ acct' = IF f = {} THEN [acct EXCEPT ![a] = Add(@, coin, -n, 0)] ELSE acct
  /\ UNCHANGED <<list, spread, act, swept, odd>>

-----------------------------------------------------------------------------
(* putList *)

Allowed(coin, num, price) ==
  /\ num >= Lot
  /\ IF coin = "gold" THEN num % Lot = 0 ELSE (num \div price) % Lot = 0

\* the tax, then the order, are taken; the tax is given back if the order
\* cannot be; when the insert fails both are gone
putList(a, coin, num, price) ==
  /\ act = Idle /\ Has(a) /\ orders < MaxOrder /\ Allowed(coin, num, price)
  /\ \E f \in SUBSET {"tax", "take", "back", "insert"} :
       LET x == acct[a]
           y == Add(x, coin, -Tax(num), Tax(num))
           taxed == "tax" \notin f /\ Tax(num) <= x.user.bal.have[coin]
           taken == taxed /\ "take" \notin f /\ num <= y.user.bal.have[coin]
           row   == [id |-> orders + 1, accid |-> a, num |-> num, price |-> price]
           put   == taken /\ "insert" \notin f
       IN  /\ Failing(f, 1)
           /\ acct' = [acct EXCEPT ![a] = IF taken THEN Add(y, coin, -num, 0)
                                          ELSE IF taxed /\ "back" \in f THEN y
                                          ELSE IF taxed THEN Add(y, coin, Tax(num), -Tax(num))
                                          ELSE x]
           /\ list' = IF put THEN [list EXCEPT ![coin] = @ \cup {row}] ELSE list
           /\ act'  = IF put THEN [op |-> "start", coin |-> coin] ELSE act
           /\ odd'  = (odd \/ (put /\ coin = "money" /\ num % price # 0))
  /\ UNCHANGED <<spread, pack, swept>>

-----------------------------------------------------------------------------
(* trade *)

\* Seeded fault: both tables are read in ascending order of the price.
BestLow(coin, rows) == {o \in rows : \A p \in rows : o.price <= p.price}
Best(coin, rows) ==
  {o \in rows : \A p \in rows : IF coin = "gold" THEN o.price <= p.price ELSE o.price >= p.price}

\* trade(): the best order of the side, which need not be the one just put
Begin ==
  /\ act.op = "start"
  /\ \E o \in Best(act.coin, list[act.coin]) :
       act' = [op |-> "trade", coin |-> act.coin, list |-> o, num |-> o.num, sys |-> 0]
  /\ UNCHANGED <<acct, list, spread, pack, orders, fails, swept, odd>>

\* what the loop of trade(list,sysmoney) selects from the other table; gold is
\* taken in the order of the table
Matching ==
  LET price == act.list.price
  IN  IF act.coin = "gold"
      THEN IF act.num = 0 THEN {}
           ELSE Best("money", {p \in list["money"] : p.price >= price /\ p.num >= p.price})
      ELSE IF act.num \div price = 0 THEN {} ELSE {p \in list["gold"] : p.price <= price}

\* Seeded fault: the row is changed, but never deleted.
SetKept(o, num) == [list EXCEPT ![IF o \in list["gold"] THEN "gold" ELSE "money"] =
                      (@ \ {o}) \cup {[o EXCEPT !.num = num]}]

\* a table with num in the row of o, or without the row
Set(o, num) == [list EXCEPT ![IF o \in list["gold"] THEN "gold" ELSE "money"] =
                  (@ \ {o}) \cup (IF num = 0 THEN {} ELSE {[o EXCEPT !.num = num]})]

\* ConsignMoneyManager::cancelList of an order whose rest buys no more gold:
\* it is paid what the row still says
CancelRest(o, f) ==
  IF acct[o.accid].user = None THEN acct[o.accid]
  ELSE IF "rest" \in f THEN acct[o.accid] ELSE Add(acct[o.accid], "money", o.num, 0)
RestGone(o, f) == IF acct[o.accid].user = None \/ "row" \in f THEN list ELSE Set(o, 0)

\* one turn of the loop: n gold for the price the gold order asks; the money
\* order pays the price it bids
Match(p, f) ==
  LET g == IF act.coin = "gold" THEN [act.list EXCEPT !.num = act.num] ELSE p
      m == IF act.coin = "gold" THEN p ELSE [act.list EXCEPT !.num = act.num]
      n == Min({g.num, m.num \div m.price})
      left == IF act.coin = "gold" THEN p.num - n * p.price ELSE p.num - n
      rest == act.coin = "gold" /\ left # 0 /\ left < p.price
      sys  == act.sys + n * (m.price - g.price)
      b == IF rest THEN [acct EXCEPT ![p.accid] = CancelRest(p, f)] ELSE acct
      c == IF "seller" \in f THEN b ELSE [b EXCEPT ![g.accid] = Pay(@, "money", n * g.price)]
  IN  /\ acct' = IF "buyer" \in f THEN c ELSE [c EXCEPT ![m.accid] = Pay(@, "gold", n)]
      /\ list' = IF rest THEN RestGone(p, f) ELSE IF "row" \in f THEN list ELSE Set(p, left)
      /\ act' = [op |-> "trade", coin |-> act.coin, list |-> act.list,
                 num |-> act.num - IF act.coin = "gold" THEN n ELSE n * m.price,
                 sys |-> IF rest \/ "row" \in f THEN sys ELSE 0]
      /\ spread' = IF rest \/ f \cap {"row", "history"} # {} THEN spread ELSE spread + sys
      /\ UNCHANGED <<pack, swept, odd>>

\* the loop is over: the row of the order itself
Finish(f) ==
  LET o == act.list
      rest == act.coin = "money" /\ act.num # 0 /\ act.num < o.price
      done == ~rest /\ act.num # o.num
  IN  /\ Matching = {} /\ act' = Idle
      /\ acct' = IF rest THEN [acct EXCEPT ![o.accid] = CancelRest(o, f)] ELSE acct
      /\ list' = IF rest THEN RestGone(o, f)
                 ELSE IF done /\ "row" \notin f THEN Set(o, act.num) ELSE list
      /\ spread' = IF done /\ f \cap {"row", "history"} = {} THEN spread + act.sys ELSE spread
      /\ UNCHANGED <<pack, swept, odd>>

Trade ==
  /\ act.op = "trade"
  /\ \/ \E p \in Matching, f \in SUBSET {"row", "rest", "history", "seller", "buyer"} :
          Failing(f, 0) /\ Match(p, f)
     \/ \E f \in SUBSET {"row", "rest", "history"} :
          Failing(f, 0) /\ Finish(f)

-----------------------------------------------------------------------------
(* cancelling *)

\* cancelList by the player: paid, then deleted
cancelList(coin, o) ==
  /\ act = Idle /\ o \in list[coin] /\ Has(o.accid)
  /\ \E f \in SUBSET {"add", "row"} :
       /\ Failing(f, 0)
       /\ acct' = IF "add" \in f THEN acct ELSE [acct EXCEPT ![o.accid] = Add(@, coin, o.num, 0)]
       /\ list' = IF "row" \in f THEN list ELSE Set(o, 0)
  /\ UNCHANGED <<spread, pack, act, swept, odd>>

\* cancelListAll: all orders with their tax, to the rows, the gold first
cancelListAll ==
  /\ act = Idle /\ list["gold"] \cup list["money"] # {} /\ \E a \in Account : Has(a)
  /\ act' = [op |-> "cancelAll"]
  /\ UNCHANGED <<acct, list, spread, pack, orders, fails, swept, odd>>

CancelNext ==
  LET coin == IF list["gold"] # {} THEN "gold" ELSE "money"
  IN  /\ act.op = "cancelAll"
      /\ \E o \in list[coin], f \in SUBSET {"add", "row"} :
           /\ Failing(f, 0)
           /\ acct' = IF "add" \in f THEN acct
                      ELSE [acct EXCEPT ![o.accid] = AddRow(@, coin, o.num + Tax(o.num))]
           /\ swept' = IF "add" \in f \/ acct[o.accid].user = None THEN swept ELSE swept \cup {o.accid}
           /\ list' = IF "row" \in f THEN list ELSE Set(o, 0)
           /\ act' = IF "row" \in f \/ (list'["gold"] \cup list'["money"] = {}) THEN Idle ELSE act
      /\ UNCHANGED <<spread, pack, odd>>

-----------------------------------------------------------------------------
Next ==
  \/ \E a \in Account :
       \/ addUser(a) \/ login(a) \/ removeUser(a)
       \/ \E k \in Moved, n \in Amount : Save(a, k, n) \/ Fetch(a, k, n)
       \/ \E k \in Coin, n \in Num, p \in Price : putList(a, k, n, p)
  \/ Begin \/ Trade
  \/ \E k \in Coin : \E o \in list[k] : cancelList(k, o)
  \/ cancelListAll \/ CancelNext

Spec == Init /\ [][Next]_vars

-----------------------------------------------------------------------------
\* Of each coin all there is: balances, tax, orders (the one being traded at
\* its present number), what the system has kept and what is outside.
Worth(coin) ==
  LET inRows   == MapThenSumSet(LAMBDA a : acct[a].row.have[coin] + acct[a].row.tax[coin]
                                              + pack[a][coin], Account)
      trading  == act.op = "trade" /\ act.coin = coin
      inOrders == MapThenSumSet(LAMBDA o : IF trading /\ o.id = act.list.id THEN act.num ELSE o.num,
                                list[coin])
      kept     == IF coin = "gold" THEN 0 ELSE spread + IF act.op = "trade" THEN act.sys ELSE 0
  IN  inRows + inOrders + kept

\* the BALANCE row of a is written from a copy that was never read, or is old
Overwritten(a) ==
  /\ acct[a].user # None /\ (~acct[a].user.login \/ a \in swept)
  /\ \/ acct'[a].row # acct[a].row
     \/ acct'[a].user # None /\ acct'[a].user.bal # acct[a].user.bal

Odd == \E o \in list["money"] : o.num % o.price # 0

\* Matching in any order and in parts, with players coming and going between
\* two turns, makes and loses neither gold nor money, and the difference between
\* bid and price ends in the history.  The exceptions are all there are: a
\* write that fails, an account paid between its new session and its login, a
\* copy that cancelListAll made old, an order of money that is no multiple of its
\* price, and the tax that cancelListAll gives back.
Conserved ==
  [][\A k \in Coin :
       \/ Worth(k)' = Worth(k)
       \/ fails' # fails
       \/ \E a \in Account : Overwritten(a)
       \/ act.op = "trade" /\ Odd
       \/ /\ act.op = "cancelAll"
          /\ \E o \in list[k] : list' = Set(o, 0) /\ Worth(k)' = Worth(k) + Tax(o.num)]_vars

\* No two orders that could be traded are left, although only the best order
\* of one side is tried and only when an order is put.
Uncrossed ==
  act = Idle /\ fails = 0 /\ ~odd =>
    \A g \in list["gold"], m \in list["money"] : g.price > m.price

Sym == Permutations(Account)
=============================================================================
