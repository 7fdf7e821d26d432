------------------------------- MODULE Market -------------------------------
(***************************************************************************)
(* The internal market between GOLOS and GBG (limit_order_*_evaluator in    *)
(* libraries/chain/steem_evaluator.cpp; apply_order, match, fill_order,     *)
(* cancel_order and clear_expired_orders in database.cpp).                  *)
(*                                                                          *)
(* The book is a function from object ids to orders; only the order of the  *)
(* ids matters, so a new order takes the first id after those in the book.  *)
(* Of an order's price only base and quote amounts matter; interest on GBG, *)
(* which adjust_balance may pay, is in module Funds.  Rewards for liquidity *)
(* ended with hardfork 12.                                                  *)
(***************************************************************************)
EXTENDS Naturals, FiniteSets, Summation

CONSTANTS
    Account,
    OrderId,
    Amounts,        \* the amounts orders sell and ask for
    Rates,          \* pairs base, quote of limit_order_create2
    Opening,        \* balances at the start
    Lifetime,       \* bound: how long after the head block time an order expires
    MaxTime,        \* bound: time of the last block
    MaxOrders       \* bound: ids of the orders in the book

Symbol == {"GOLOS", "GBG"}

ASSUME MarketAssumption == /\ IsFiniteSet(Account)
                           /\ Amounts \subseteq Nat \ {0}
                           /\ Rates \subseteq (Nat \ {0}) \X (Nat \ {0})
                           /\ Opening \in [Account -> [Symbol -> Nat]]
                           /\ Lifetime \subseteq Nat \ {0}
                           /\ MaxTime \in Nat /\ MaxOrders \in Nat

VARIABLES
    now,            \* head_block_time
    balance,        \* account_object::balance, sbd_balance
    book,           \* limit_order_index by id
    fills           \* the trades of the last operation (fill_order_operation)

vars == <<now, balance, book, fills>>

\* `sold' and `got' add up what an order has paid and received so far; the code keeps only the rest.
Order == [seller : Account, id : OrderId, sells : Symbol, forSale : Nat, base : Nat \ {0}, quote : Nat \ {0},
          expiration : Nat, sold : Nat, got : Nat]

Other(s) == CHOOSE t \in Symbol : t # s

Credit(bal, a, s, n) == [bal EXCEPT ![a][s] = @ + n]

\* amount_to_receive: the amount times the order's price, rounded down.
AmountToReceive(o, n) == (n * o.quote) \div o.base

\* What each order of a book offers of a token.
ForSale(b, s) == [k \in DOMAIN b |-> IF b[k].sells = s THEN b[k].forSale ELSE 0]

\* An order that has nothing left for sale is removed.
Live(b) == [k \in {j \in DOMAIN b : b[j].forSale > 0} |-> b[k]]
-----------------------------------------------------------------------------
(***************************************************************************)
(* apply_order walks the orders of the other side whose price the new order *)
(* accepts, the best price first and the oldest first at the same price,    *)
(* and stops when the new order is filled.  The order met last among some   *)
(* is Hindmost of them.                                                     *)
(***************************************************************************)
Accepts(new, old) == /\ old.sells # new.sells
                     /\ old.base * new.base >= new.quote * old.quote

Better(b, i, j) == LET x == b[i].base * b[j].quote
                       y == b[j].base * b[i].quote
                   IN  x > y \/ (x = y /\ i < j)

\* Mutant: an order at exactly the limit is not met.
QueueStrict(b, n) ==
    {k \in DOMAIN b : Accepts(b[n], b[k]) /\ b[k].base * b[n].base # b[n].quote * b[k].quote}

Queue(b, n) == {k \in DOMAIN b : Accepts(b[n], b[k])}

\* Mutant: prices are compared as asked by the new order.
HindmostReversed(b, S) == CHOOSE j \in S : \A i \in S \ {j} : Better(b, j, i)

Hindmost(b, S) == CHOOSE j \in S : \A i \in S \ {j} : Better(b, i, j)

Filled(o, rest, pays, gets) == [o EXCEPT !.forSale = rest, !.sold = @ + pays, !.got = @ + gets]

\* Mutant: a rest too small to be sold stays in the book.
FillOrderNoRefund(s, k, pays, gets) ==
    LET o == s.book[k]
    IN  [s EXCEPT !.book[k] = Filled(o, o.forSale - pays, pays, gets),
                  !.balance = Credit(@, o.seller, Other(o.sells), gets)]

\* Mutant: the rest is removed with its order and not refunded.
FillOrderDropsDust(s, k, pays, gets) ==
    LET o    == s.book[k]
        rest == o.forSale - pays
        dust == IF AmountToReceive(o, rest) = 0 THEN rest ELSE 0
    IN  [s EXCEPT !.book[k] = Filled(o, rest - dust, pays, gets),
                  !.balance = Credit(@, o.seller, Other(o.sells), gets)]

\* fill_order: an order left with a rest that would sell for nothing is cancelled.
FillOrder(s, k, pays, gets) ==
    LET o    == s.book[k]
        rest == o.forSale - pays
        dust == IF AmountToReceive(o, rest) = 0 THEN rest ELSE 0
    IN  [s EXCEPT !.book[k] = Filled(o, rest - dust, pays, gets),
                  !.balance = Credit(Credit(@, o.seller, Other(o.sells), gets), o.seller, o.sells, dust)]

\* What the old order gets, and what the new one gets, when they meet at the old order's price.
OldReceives(new, old) ==
    LET worth == AmountToReceive(old, old.forSale)
    IN  IF new.forSale <= worth THEN new.forSale ELSE worth

NewReceives(new, old) ==
    IF new.forSale <= AmountToReceive(old, old.forSale)
      THEN (new.forSale * old.base) \div old.quote
      ELSE old.forSale

Trade(s, n, k, oldGets, newGets) ==
    LET t == FillOrder(FillOrder(s, n, oldGets, newGets), k, newGets, oldGets)
    IN  [t EXCEPT !.fills = @ \cup {[key |-> k, new |-> t.book[n], old |-> t.book[k],
                                     paid |-> oldGets, received |-> newGets]}]

Match(s, n, k) ==
    IF s.book[n].forSale = 0 THEN s
    ELSE Trade(s, n, k, OldReceives(s.book[n], s.book[k]), NewReceives(s.book[n], s.book[k]))

ApplyOrder(b, bal, n) ==
    MapThenFoldSet(LAMBDA k, s : Match(s, n, k), [book |-> b, balance |-> bal, fills |-> {}],
                   LAMBDA k : k, LAMBDA S : Hindmost(b, S), Queue(b, n))
-----------------------------------------------------------------------------
Covered(o) == balance[o.seller][o.sells] >= o.forSale

NextKey(b) == Max({0} \cup DOMAIN b) + 1

\* create<limit_order_object>
Created(b, n, o) == [k \in DOMAIN b \cup {n} |-> IF k = n THEN o ELSE b[k]]

PlaceOrder(o, fillOrKill) ==
    /\ Covered(o)
    /\ \A k \in DOMAIN book : ~(book[k].seller = o.seller /\ book[k].id = o.id)
    /\ NextKey(book) <= MaxOrders
    /\ LET r == ApplyOrder(Created(book, NextKey(book), o),
                           [balance EXCEPT ![o.seller][o.sells] = @ - o.forSale], NextKey(book))
       IN  /\ fillOrKill => r.book[NextKey(book)].forSale = 0
           /\ balance' = r.balance
           /\ book' = Live(r.book)
           /\ fills' = r.fills
    /\ UNCHANGED now

NewOrder(owner, id, sells, amount, base, quote, life) ==
    [seller |-> owner, id |-> id, sells |-> sells, forSale |-> amount, base |-> base, quote |-> quote,
     expiration |-> now + life, sold |-> 0, got |-> 0]

LimitOrderCreate(owner, id, sells, amount, min, life, fillOrKill) ==
    PlaceOrder(NewOrder(owner, id, sells, amount, amount, min, life), fillOrKill)

LimitOrderCreate2(owner, id, sells, amount, rate, life, fillOrKill) ==
    /\ (amount * rate[2]) \div rate[1] > 0
    /\ PlaceOrder(NewOrder(owner, id, sells, amount, rate[1], rate[2], life), fillOrKill)

CancelOrder(k) ==
    /\ balance' = Credit(balance, book[k].seller, book[k].sells, book[k].forSale)
    /\ book' = [j \in DOMAIN book \ {k} |-> book[j]]
    /\ fills' = {}
    /\ UNCHANGED now

\* clear_expired_orders, at the time of the next block: each order that is cancelled is refunded.
ClearExpiredOrders ==
    LET gone == {k \in DOMAIN book : book[k].expiration < now + 1}
        refund(a, s) == SumOver(ForSale(book, s), {k \in gone : book[k].seller = a})
    IN  /\ now < MaxTime
        /\ now' = now + 1
        /\ book' = [k \in DOMAIN book \ gone |-> book[k]]
        /\ balance' = [a \in Account |-> [s \in Symbol |-> balance[a][s] + refund(a, s)]]
        /\ fills' = {}
-----------------------------------------------------------------------------
Init == /\ now = 0
        /\ balance = Opening
        /\ book = <<>>
        /\ fills = {}

Next ==
    \/ \E owner \in Account, id \in OrderId, sells \in Symbol, amount \in Amounts, life \in Lifetime,
          fillOrKill \in BOOLEAN :
         \/ \E min \in Amounts : LimitOrderCreate(owner, id, sells, amount, min, life, fillOrKill)
         \/ \E rate \in Rates : LimitOrderCreate2(owner, id, sells, amount, rate, life, fillOrKill)
    \/ \E k \in DOMAIN book : CancelOrder(k)
    \/ ClearExpiredOrders

Spec == Init /\ [][Next]_vars
-----------------------------------------------------------------------------
TypeOK == /\ now \in Nat
          /\ balance \in [Account -> [Symbol -> Nat]]
          /\ book \in [DOMAIN book -> Order] /\ DOMAIN book \subseteq 1..MaxOrders

\* What the accounts hold of a token together.
Held(bal, s) == SumOver([a \in Account |-> bal[a][s]], Account)

(***************************************************************************)
(* match: "apparently no asset is created or destroyed", whatever is        *)
(* rounded, refunded, cancelled or expires.                                 *)
(***************************************************************************)
Conserved ==
    \A s \in Symbol : Held(balance, s) + SumOver(ForSale(book, s), DOMAIN book) = Held(Opening, s)

(***************************************************************************)
(* After every operation no two orders of the book would trade: apply_order *)
(* stops only when the new order is filled or no order that it accepts is   *)
(* left.                                                                    *)
(***************************************************************************)
BookUncrossed == \A i, j \in DOMAIN book : ~Accepts(book[i], book[j])

(***************************************************************************)
(* Over all its trades, as the new order and as the old one, an order gets  *)
(* at least what its price asks for what it sold, rounded down once; and no *)
(* trade gives one side something for nothing.                              *)
(***************************************************************************)
FairFills ==
    \A f \in fills :
      /\ f.paid > 0 /\ f.received > 0
      /\ \A o \in {f.new, f.old} : o.got >= AmountToReceive(o, o.sold)

(***************************************************************************)
(* An operation trades with an order only if it trades with every order     *)
(* ahead of it: one with a better price or, at the same price, an older     *)
(* one.                                                                     *)
(***************************************************************************)
PriceTimePriority ==
    [][\A f \in fills' : \A k \in DOMAIN book :
         Accepts(f.new, book[k]) /\ Better(book, k, f.key) =>
           \E g \in fills' : g.key = k /\ g.old.forSale = 0]_vars
=============================================================================
