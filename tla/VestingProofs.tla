--------------------------- MODULE VestingProofs ---------------------------
(***************************************************************************)
(* Vesting shares for every set of accounts, every amount, every percentage *)
(* of a route and every number of intervals: shares are never used twice,   *)
(* the counters of delegations and the totals of the fund are the sums they *)
(* stand for, and a share never loses worth.                                *)
(***************************************************************************)
EXTENDS Vesting, Induction

-----------------------------------------------------------------------------
(***************************************************************************)
(* The price of a share.                                                    *)
(***************************************************************************)
Fund == [fund : Nat, shares : Nat]

\* There are no shares without a fund.
Priced(t) == t.fund = 0 => t.shares = 0

\* A share of u is worth no less than a share of t.
Worth(t, u) == ~NoPrice(t) => u.fund * t.shares >= t.fund * u.shares

\* The clock of a block before the last is one before the next.
LEMMA NextInstant ==
    ASSUME NEW last \in Nat, NEW n \in 0..last, n < last
    PROVE  n + 1 \in 0..last
OBVIOUS

\* Nothing is less than nothing.
LEMMA NoneLeft ==
    ASSUME NEW n \in Nat, NEW m, m = 0, n <= m
    PROVE  n = 0
OBVIOUS

\* What the shares v of an account cover, the shares w after a payment of n cover
\* when the rest of its withdrawal is less by n.
LEMMA StillCovered ==
    ASSUME NEW d \in Int, NEW k \in Int, NEW m \in Int, NEW n \in Int, NEW v \in Int, NEW w \in Int,
           d + m <= v, w >= v - n, k <= m - n
    PROVE  d + k <= w
OBVIOUS

LEMMA CoveredByMore ==
    ASSUME NEW d \in Int, NEW t \in Int, NEW o \in Int, NEW v \in Int, NEW w \in Int,
           d + (t - o) <= v, w >= v
    PROVE  d + (t - o) <= w
OBVIOUS

LEMMA NatDifference ==
    ASSUME NEW t \in Nat, NEW o \in Nat
    PROVE  t \in Int /\ o \in Int /\ t - o \in Int
OBVIOUS

LEMMA WorthSelf ==
    ASSUME NEW t \in Fund
    PROVE  Worth(t, t)
<1>1. t.fund \in Nat /\ t.shares \in Nat
  BY Zenon DEF Fund
<1>2. t.fund * t.shares \in Nat
  BY Zenon, <1>1, MulNat
<1> QED
  BY <1>2 DEF Worth

\* create_vesting: the shares it makes are worth at most the tokens.
LEMMA SharesGood ==
    ASSUME NEW t \in Fund, Priced(t), NEW n \in Nat \ {0}, NEW x, x = ToShares(n, t),
           NEW u, u = [fund |-> t.fund + n, shares |-> t.shares + x]
    PROVE  x \in Nat /\ u \in Fund /\ Priced(u) /\ Worth(t, u)
<1> DEFINE f == t.fund
           s == t.shares
<1>1. f \in Nat /\ s \in Nat /\ SharesPerToken \in Nat
  BY Zenon, ShareAssumption DEF Fund
<1>2. CASE NoPrice(t)
  <2>1. x \in Nat
    BY Zenon, <1>1, <1>2, MulNat DEF ToShares
  <2> QED
    BY <1>1, <1>2, <2>1 DEF Fund, Priced, Worth
<1>3. CASE ~NoPrice(t)
  <2>1. f \in Nat \ {0} /\ s \in Nat \ {0} /\ n * s \in Nat
    BY Zenon, <1>1, <1>3, MulNat DEF NoPrice
  <2>2. x = (n * s) \div f
    BY Zenon, <1>3 DEF ToShares
  <2>3. x \in Nat /\ x * f <= n * s
    BY Zenon, <2>1, <2>2, DivFacts
  <2>4. u.fund = f + n /\ u.shares = s + x
    BY Zenon
  <2> HIDE DEF f, s
  <2>5. (f + n) * s >= f * (s + x)
    <3>1. (f + n) * s = f * s + n * s
      BY <2>1
    <3>2. f * (s + x) = f * s + x * f
      BY <2>1, <2>3
    <3>3. f * s \in Nat /\ x * f \in Nat
      BY Zenon, <2>1, <2>3, MulNat
    <3> QED
      BY <2>1, <2>3, <3>1, <3>2, <3>3
  <2>6. Worth(t, u)
    BY Zenon, <2>4, <2>5 DEF Worth, f, s
  <2>7. u \in Fund /\ Priced(u)
    BY <2>1, <2>3, <2>4 DEF Fund, Priced, f, s
  <2> QED
    BY Zenon, <2>3, <2>6, <2>7
<1> QED
  BY Zenon, <1>2, <1>3

\* Shares that leave the fund: they take at most what they are worth.
LEMMA TokensGood ==
    ASSUME NEW t \in Fund, Priced(t), NEW n \in Nat, n <= t.shares, NEW x, x = ToTokens(n, t),
           NEW u, u = [fund |-> t.fund - x, shares |-> t.shares - n]
    PROVE  x \in Nat /\ x <= t.fund /\ u \in Fund /\ Priced(u) /\ Worth(t, u) /\ (NoPrice(t) => u = t)
<1> DEFINE f == t.fund
           s == t.shares
<1>1. f \in Nat /\ s \in Nat /\ SharesPerToken \in Nat \ {0}
  BY Zenon, ShareAssumption DEF Fund
<1>2. CASE NoPrice(t)
  <2>1. s = 0 /\ n = 0
    BY <1>1, <1>2 DEF NoPrice, Priced
  <2>2. x = 0
    BY <1>1, <1>2, <2>1 DEF ToTokens
  <2>3. u = t
    BY <1>1, <2>1, <2>2 DEF Fund
  <2> QED
    BY <1>1, <1>2, <2>2, <2>3 DEF Worth
<1>3. CASE ~NoPrice(t)
  <2>1. f \in Nat \ {0} /\ s \in Nat \ {0} /\ n * f \in Nat
    BY Zenon, <1>1, <1>3, MulNat DEF NoPrice
  <2>2. x = (n * f) \div s
    BY Zenon, <1>3 DEF ToTokens
  <2>3. x \in Nat /\ x * s <= n * f
    BY Zenon, <2>1, <2>2, DivFacts
  <2>4. u.fund = f - x /\ u.shares = s - n /\ u = [fund |-> f - x, shares |-> s - n] /\ n <= s
    BY Zenon
  <2> HIDE DEF f, s
  <2>5. n * f <= s * f /\ s * f = f * s /\ x * s \in Nat
    BY <2>1, <2>3, <2>4, MulMono, MulNat
  <2>6. x <= f
    <3>1. x * s <= f * s
      BY <2>1, <2>3, <2>5, MulNat
    <3> QED
      BY <2>1, <2>3, <3>1, MulCancel
  <2>7. (f - x) * s >= f * (s - n)
    <3>1. (f - x) * s = f * s - x * s
      BY <2>1, <2>3
    <3>2. f * (s - n) = f * s - n * f
      BY <2>1
    <3>3. f * s \in Nat
      BY Zenon, <2>1, MulNat
    <3> QED
      BY <2>1, <2>3, <2>5, <3>1, <3>2, <3>3
  <2>8. f - x = 0 => s - n = 0
    <3> HAVE f - x = 0
    <3>1. x = f
      BY <2>1, <2>3
    <3>2. s * f <= n * f
      BY Zenon, <2>3, <2>5, <3>1
    <3>3. s <= n
      BY <2>1, <3>2, MulCancel
    <3> QED
      BY <2>1, <2>4, <3>3
  <2>9. f - x \in Nat /\ s - n \in Nat
    BY <2>1, <2>3, <2>4, <2>6
  <2>10. u \in Fund /\ Priced(u)
    BY Zenon, <2>4, <2>8, <2>9 DEF Fund, Priced
  <2>11. Worth(t, u)
    BY Zenon, <2>4, <2>7 DEF Worth, f, s
  <2> QED
    BY Zenon, <1>3, <2>3, <2>6, <2>10, <2>11 DEF f
<1> QED
  BY Zenon, <1>2, <1>3

LEMMA WorthTrans ==
    ASSUME NEW t \in Fund, NEW u \in Fund, NEW w \in Fund, Worth(t, u), Worth(u, w),
           NoPrice(u) => w = u
    PROVE  Worth(t, w)
<1> SUFFICES ASSUME ~NoPrice(t) PROVE w.fund * t.shares >= t.fund * w.shares
  BY Zenon DEF Worth
<1> DEFINE a == t.fund
           b == t.shares
           c == u.fund
           d == u.shares
           e == w.fund
           f == w.shares
<1>1. a \in Nat /\ b \in Nat /\ c \in Nat /\ d \in Nat /\ e \in Nat /\ f \in Nat
  BY Zenon DEF Fund
<1>2. c * b >= a * d
  BY Zenon DEF Worth
<1>3. CASE NoPrice(u)
  BY Zenon, <1>2, <1>3
<1>4. CASE ~NoPrice(u)
  <2>1. d \in Nat \ {0} /\ e * d >= c * f
    BY Zenon, <1>1, <1>4 DEF NoPrice, Worth
  <2> HIDE DEF a, b, c, d, e, f
  <2>2. (e * d) * b >= (c * f) * b
    BY <1>1, <2>1, MulMono
  <2>3. (c * b) * f >= (a * d) * f
    BY <1>1, <1>2, MulMono
  <2>4. (c * f) * b = (c * b) * f /\ (e * d) * b = (e * b) * d /\ (a * d) * f = (a * f) * d
    BY <1>1
  <2>5. /\ (c * f) * b \in Nat /\ (e * d) * b \in Nat /\ (a * d) * f \in Nat
        /\ e * b \in Nat /\ a * f \in Nat
    BY Zenon, <1>1, MulNat
  <2>6. (a * f) * d <= (e * b) * d
    BY <2>2, <2>3, <2>4, <2>5
  <2>7. a * f <= e * b
    BY <2>1, <2>5, <2>6, MulCancel
  <2> QED
    BY Zenon, <2>5, <2>7 DEF a, b, c, d, e, f
<1> QED
  BY Zenon, <1>3, <1>4

-----------------------------------------------------------------------------
(***************************************************************************)
(* The balances, the fund and the rewards.                                  *)
(***************************************************************************)
Start == SumOver(OpeningLiquid, Account) + OpeningFund + OpeningRewards

BankOk(v, t, l, r, b) ==
    /\ v \in [Account -> Nat] /\ l \in [Account -> Nat] /\ r \in Nat /\ b \in Nat
    /\ t \in Fund /\ Priced(t)
    /\ t.shares = SumOver(v, Account)
    /\ SumOver(l, Account) + t.fund + r + b = Start

LEMMA AccountFacts ==
    /\ IsFiniteSet(Account) /\ Null \in Account
    /\ \A f \in [Account -> Nat] : IntOn(f, Account) /\ NatOn(f, Account)
    /\ \A f \in [Account -> Int] : IntOn(f, Account)
BY AccountAssumption DEF IntOn, NatOn

LEMMA SumAccount ==
    ASSUME NEW f \in [Account -> Nat], NEW a \in Account
    PROVE  SumOver(f, Account) \in Nat /\ f[a] \in Nat /\ f[a] <= SumOver(f, Account)
<1>1. IsFiniteSet(Account) /\ IntOn(f, Account) /\ NatOn(f, Account)
  BY Zenon, AccountFacts
<1>2. SumOver(f, Account) = f[a] + SumOver(f, Account \ {a})
  BY Zenon, <1>1, SumTake
<1>3. SumOver(f, Account \ {a}) \in Nat
  BY Zenon, <1>1, SumAtLeast
<1> QED
  BY <1>2, <1>3

LEMMA PointSum ==
    ASSUME NEW f \in [Account -> Nat], NEW a \in Account, NEW y \in Nat, NEW g, PutAt(g, f, a, y)
    PROVE  g \in [Account -> Nat] /\ SumOver(g, Account) = SumOver(f, Account) + (y - f[a])
BY AccountFacts, SumPut

\* Tokens that come from a balance or from the rewards become shares.
LEMMA BankVest ==
    ASSUME NEW v, NEW t, NEW l, NEW r, NEW b, BankOk(v, t, l, r, b),
           NEW a \in Account, NEW n \in Nat \ {0}, NEW x, x = ToShares(n, t),
           NEW v2, PutAt(v2, v, a, v[a] + x),
           NEW t2, t2 = [fund |-> t.fund + n, shares |-> t.shares + x],
           NEW l2 \in [Account -> Nat], NEW r2 \in Nat,
           SumOver(l2, Account) + r2 = (SumOver(l, Account) + r) - n
    PROVE  BankOk(v2, t2, l2, r2, b) /\ Worth(t, t2) /\ x \in Nat
<1>1. /\ v \in [Account -> Nat] /\ l \in [Account -> Nat] /\ r \in Nat /\ b \in Nat
      /\ t \in Fund /\ Priced(t) /\ t.fund \in Nat
      /\ t.shares = SumOver(v, Account)
      /\ SumOver(l, Account) + t.fund + r + b = Start
  BY Zenon DEF BankOk, Fund
<1>2. x \in Nat /\ t2 \in Fund /\ Priced(t2) /\ Worth(t, t2)
  BY Zenon, <1>1, SharesGood
<1>3. v[a] \in Nat
  BY Zenon, <1>1
<1>4. v2 \in [Account -> Nat] /\ SumOver(v2, Account) = SumOver(v, Account) + x
  <2> DEFINE y == v[a] + x
  <2>1. y \in Nat /\ PutAt(v2, v, a, y) /\ y - v[a] = x
    BY <1>2, <1>3
  <2> HIDE DEF y
  <2>2. v2 \in [Account -> Nat] /\ SumOver(v2, Account) = SumOver(v, Account) + (y - v[a])
    BY <1>1, <2>1, PointSum
  <2> QED
    BY Zenon, <2>1, <2>2
<1>5. t2.shares = SumOver(v2, Account) /\ t2.fund = t.fund + n
  BY Zenon, <1>1, <1>4
<1>6. SumOver(l, Account) \in Nat /\ SumOver(l2, Account) \in Nat
  BY Zenon, <1>1, SumAccount
<1>7. SumOver(l2, Account) + t2.fund + r2 + b = Start
  BY <1>1, <1>5, <1>6
<1> QED
  BY Zenon, <1>1, <1>2, <1>4, <1>5, <1>7 DEF BankOk

\* What the null account has is burnt.
LEMMA BankBurn ==
    ASSUME NEW v, NEW t, NEW l, NEW r, NEW b, BankOk(v, t, l, r, b),
           NEW x, x = ToTokens(v[Null], t),
           NEW v2, PutAt(v2, v, Null, 0),
           NEW t2, t2 = [fund |-> t.fund - x, shares |-> t.shares - v[Null]],
           NEW l2, PutAt(l2, l, Null, 0), NEW b2, b2 = b + x + l[Null]
    PROVE  BankOk(v2, t2, l2, r, b2) /\ Worth(t, t2)
<1>1. /\ v \in [Account -> Nat] /\ l \in [Account -> Nat] /\ r \in Nat /\ b \in Nat
      /\ t \in Fund /\ Priced(t) /\ t.fund \in Nat
      /\ t.shares = SumOver(v, Account)
      /\ SumOver(l, Account) + t.fund + r + b = Start
      /\ Null \in Account
  BY Zenon, AccountFacts DEF BankOk, Fund
<1>2. /\ SumOver(v, Account) \in Nat /\ v[Null] \in Nat /\ v[Null] <= SumOver(v, Account)
      /\ SumOver(l, Account) \in Nat /\ l[Null] \in Nat
  BY Zenon, <1>1, SumAccount
<1>3. x \in Nat /\ x <= t.fund /\ t2 \in Fund /\ Priced(t2) /\ Worth(t, t2)
  BY <1>1, <1>2, TokensGood
<1>4. 0 \in Nat
  BY Zenon
<1>5. v2 \in [Account -> Nat] /\ SumOver(v2, Account) = SumOver(v, Account) + (0 - v[Null])
  BY <1>1, <1>4, PointSum
<1>6. l2 \in [Account -> Nat] /\ SumOver(l2, Account) = SumOver(l, Account) + (0 - l[Null])
  BY <1>1, <1>4, PointSum
<1>7. t2.shares = SumOver(v2, Account) /\ t2.fund = t.fund - x
  BY <1>1, <1>2, <1>5
<1>8. SumOver(l2, Account) + t2.fund + r + b2 = Start /\ b2 \in Nat
  BY <1>1, <1>2, <1>3, <1>6, <1>7
<1> QED
  BY Zenon, <1>1, <1>3, <1>5, <1>6, <1>7, <1>8 DEF BankOk

-----------------------------------------------------------------------------
(***************************************************************************)
(* Delegations.                                                             *)
(***************************************************************************)
\* What is delegated to a, by delegator.
Column(g, a) == [b \in Account |-> g[b][a]]

\* DelegationsMatch of the counters d and r, the delegations g and the returns q.
LendOk(d, r, g, q) ==
    /\ d \in [Account -> Nat] /\ r \in [Account -> Nat]
    /\ g \in [Account -> [Account -> Nat]] /\ q \in [Account -> [Time -> Nat]]
    /\ \A a \in Account : d[a] = SumOver(g[a], Account) + SumOver(q[a], Time)
    /\ \A a \in Account : r[a] = SumOver(Column(g, a), Account)

\* g2 is g but at b of a, where it is n.
PutIn(g2, g, a, b, n) == g2 = [g EXCEPT ![a][b] = n]

LEMMA TimeFinite == IsFiniteSet(Time) /\ 0 \in Time
<1>1. MaxTime + CashoutWindow + DelegationTime \in Nat
  BY ShareAssumption
<1> QED
  BY <1>1, FiniteInterval DEF Time

LEMMA LendParts ==
    ASSUME NEW d, NEW r, NEW g, NEW q, LendOk(d, r, g, q), NEW a \in Account
    PROVE  /\ \A b \in Account : g[a][b] \in Nat /\ g[a][b] <= d[a] /\ g[a][b] <= r[b]
           /\ \A x \in Time : q[a][x] \in Nat /\ q[a][x] <= d[a]
<1>1. /\ g[a] \in [Account -> Nat] /\ q[a] \in [Time -> Nat] /\ d[a] \in Nat
      /\ d[a] = SumOver(g[a], Account) + SumOver(q[a], Time)
      /\ IsFiniteSet(Time) /\ NatOn(q[a], Time) /\ IntOn(q[a], Time)
  BY TimeFinite DEF LendOk, NatOn, IntOn
<1>2. SumOver(q[a], Time) \in Nat
  BY Zenon, <1>1, SumNat
<1>3. ASSUME NEW b \in Account PROVE g[a][b] \in Nat /\ g[a][b] <= d[a] /\ g[a][b] <= r[b]
  <2>1. g[a][b] \in Nat /\ SumOver(g[a], Account) \in Nat /\ g[a][b] <= SumOver(g[a], Account)
    BY Zenon, <1>1, SumAccount
  <2> DEFINE c == Column(g, b)
  <2>2. c \in [Account -> Nat] /\ c[a] = g[a][b] /\ r[b] = SumOver(c, Account)
    BY Zenon DEF LendOk, Column
  <2> HIDE DEF c
  <2>3. c[a] <= SumOver(c, Account)
    BY Zenon, <2>2, SumAccount
  <2> QED
    BY <1>1, <1>2, <2>1, <2>2, <2>3
<1>4. ASSUME NEW x \in Time PROVE q[a][x] \in Nat /\ q[a][x] <= d[a]
  <2>1. SumOver(g[a], Account) \in Nat
    BY Zenon, <1>1, AccountFacts, SumNat
  <2>2. SumOver(q[a], Time) = q[a][x] + SumOver(q[a], Time \ {x})
    BY Zenon, <1>1, SumTake
  <2>3. SumOver(q[a], Time \ {x}) \in Nat
    BY Zenon, <1>1, SumAtLeast
  <2> QED
    BY <1>1, <2>1, <2>2, <2>3
<1> QED
  BY Zenon, <1>3, <1>4

\* A delegation from f to t changes to n, and both counters with it.
LEMMA LendMove ==
    ASSUME NEW d, NEW r, NEW g, NEW q, LendOk(d, r, g, q), NEW f \in Account, NEW t \in Account,
           NEW n \in Nat, NEW g2, PutIn(g2, g, f, t, n),
           NEW d2, PutAt(d2, d, f, d[f] + (n - g[f][t])),
           NEW r2, PutAt(r2, r, t, r[t] + (n - g[f][t]))
    PROVE  LendOk(d2, r2, g2, q)
<1>1. /\ d \in [Account -> Nat] /\ r \in [Account -> Nat]
      /\ g \in [Account -> [Account -> Nat]] /\ q \in [Account -> [Time -> Nat]]
      /\ \A a \in Account : d[a] = SumOver(g[a], Account) + SumOver(q[a], Time)
      /\ \A a \in Account : r[a] = SumOver(Column(g, a), Account)
  BY Zenon DEF LendOk
<1>2. g[f][t] \in Nat /\ g[f][t] <= d[f] /\ g[f][t] <= r[t]
  BY Zenon, LendParts
<1>3. g2 \in [Account -> [Account -> Nat]] /\ PutAt(g2[f], g[f], t, n) /\ \A a \in Account \ {f} : g2[a] = g[a]
  BY Zenon, <1>1 DEF PutIn, PutAt
<1>4. d2 \in [Account -> Nat] /\ d2[f] = d[f] + (n - g[f][t]) /\ \A a \in Account \ {f} : d2[a] = d[a]
  BY <1>1, <1>2 DEF PutAt
<1>5. r2 \in [Account -> Nat] /\ r2[t] = r[t] + (n - g[f][t]) /\ \A a \in Account \ {t} : r2[a] = r[a]
  BY <1>1, <1>2 DEF PutAt
<1>6. ASSUME NEW a \in Account PROVE d2[a] = SumOver(g2[a], Account) + SumOver(q[a], Time)
  <2>1. CASE a # f
    BY Zenon, <1>1, <1>3, <1>4, <2>1
  <2>2. CASE a = f
    <3>1. g[f] \in [Account -> Nat]
      BY Zenon, <1>1
    <3>2. SumOver(g2[f], Account) = SumOver(g[f], Account) + (n - g[f][t])
      BY <1>3, <3>1, PointSum
    <3>3. SumOver(g[f], Account) \in Nat
      BY Zenon, <3>1, AccountFacts, SumNat
    <3>4. IsFiniteSet(Time) /\ IntOn(q[f], Time)
      BY <1>1, TimeFinite DEF IntOn
    <3>5. SumOver(q[f], Time) \in Int
      BY Zenon, <3>4, SumInt
    <3> QED
      BY <1>1, <1>2, <1>4, <2>2, <3>2, <3>3, <3>5
  <2> QED
    BY Zenon, <2>1, <2>2
<1>7. ASSUME NEW a \in Account PROVE r2[a] = SumOver(Column(g2, a), Account)
  <2>1. CASE a # t
    <3>1. Column(g2, a) = Column(g, a)
      BY Zenon, <1>1, <2>1 DEF Column, PutIn
    <3> QED
      BY Zenon, <1>1, <1>5, <2>1, <3>1
  <2>2. CASE a = t
    <3> DEFINE c == Column(g, t)
               c2 == Column(g2, t)
    <3>1. c \in [Account -> Nat] /\ PutAt(c2, c, f, n) /\ c[f] = g[f][t] /\ r[t] = SumOver(c, Account)
      BY Zenon, <1>1 DEF Column, PutIn, PutAt
    <3> HIDE DEF c, c2
    <3>2. SumOver(c2, Account) = SumOver(c, Account) + (n - c[f])
      BY Zenon, <3>1, PointSum
    <3> QED
      BY Zenon, <1>5, <2>2, <3>1, <3>2 DEF c2
  <2> QED
    BY Zenon, <2>1, <2>2
<1> QED
  BY Zenon, <1>1, <1>3, <1>4, <1>5, <1>6, <1>7 DEF LendOk

\* What returns to f at a time x changes to n, and the counter of f with it.
LEMMA ReturnMove ==
    ASSUME NEW d, NEW r, NEW g, NEW q, LendOk(d, r, g, q), NEW f \in Account, NEW x \in Time,
           NEW n \in Nat, NEW q2, PutIn(q2, q, f, x, n),
           NEW d2, PutAt(d2, d, f, d[f] + (n - q[f][x]))
    PROVE  LendOk(d2, r, g, q2)
<1>1. /\ d \in [Account -> Nat] /\ r \in [Account -> Nat]
      /\ g \in [Account -> [Account -> Nat]] /\ q \in [Account -> [Time -> Nat]]
      /\ \A a \in Account : d[a] = SumOver(g[a], Account) + SumOver(q[a], Time)
      /\ \A a \in Account : r[a] = SumOver(Column(g, a), Account)
  BY Zenon DEF LendOk
<1>2. q[f][x] \in Nat /\ q[f][x] <= d[f]
  BY Zenon, LendParts
<1>3. q2 \in [Account -> [Time -> Nat]] /\ PutAt(q2[f], q[f], x, n) /\ \A a \in Account \ {f} : q2[a] = q[a]
  BY Zenon, <1>1 DEF PutIn, PutAt
<1>4. d2 \in [Account -> Nat] /\ d2[f] = d[f] + (n - q[f][x]) /\ \A a \in Account \ {f} : d2[a] = d[a]
  BY <1>1, <1>2 DEF PutAt
<1>5. ASSUME NEW a \in Account PROVE d2[a] = SumOver(g[a], Account) + SumOver(q2[a], Time)
  <2>1. CASE a # f
    BY Zenon, <1>1, <1>3, <1>4, <2>1
  <2>2. CASE a = f
    <3>1. q[f] \in [Time -> Nat] /\ g[f] \in [Account -> Nat] /\ IsFiniteSet(Time)
      BY Zenon, <1>1, TimeFinite
    <3>2. SumOver(q2[f], Time) = SumOver(q[f], Time) + (n - q[f][x])
      BY <1>3, <3>1, SumPut
    <3>3. SumOver(g[f], Account) \in Nat
      BY Zenon, <3>1, AccountFacts, SumNat
    <3>4. IntOn(q[f], Time)
      BY <3>1 DEF IntOn
    <3>5. SumOver(q[f], Time) \in Int
      BY Zenon, <3>1, <3>4, SumInt
    <3> QED
      BY <1>1, <1>2, <1>4, <2>2, <3>2, <3>3, <3>5
  <2> QED
    BY Zenon, <2>1, <2>2
<1> QED
  BY Zenon, <1>1, <1>3, <1>4, <1>5 DEF LendOk

-----------------------------------------------------------------------------
(***************************************************************************)
(* The tokens of a withdrawal.                                              *)
(***************************************************************************)
Pot == [totals : Fund, liquid : [Account -> Nat]]

Tokened(s) == SumOver(s.liquid, Account) + s.totals.fund

LEMMA ConvertGood ==
    ASSUME NEW s \in Pot, Priced(s.totals), NEW to \in Account, NEW n \in Nat, n <= s.totals.shares,
           NEW u, u = Convert(s, to, n)
    PROVE  /\ u \in Pot /\ Priced(u.totals) /\ u.totals.shares = s.totals.shares - n
           /\ Tokened(u) = Tokened(s)
           /\ Worth(s.totals, u.totals) /\ (NoPrice(s.totals) => u.totals = s.totals)
<1> DEFINE t == s.totals
           l == s.liquid
           x == ToTokens(n, t)
           t2 == [fund |-> t.fund - x, shares |-> t.shares - n]
           l2 == [l EXCEPT ![to] = l[to] + x]
<1>1. t \in Fund /\ l \in [Account -> Nat] /\ Priced(t) /\ n <= t.shares
  BY Zenon DEF Pot
<1>2. u = [totals |-> t2, liquid |-> l2]
  BY Zenon DEF Convert
<1>3. x \in Nat /\ x <= t.fund /\ t2 \in Fund /\ Priced(t2) /\ Worth(t, t2) /\ (NoPrice(t) => t2 = t)
  <2> HIDE DEF t
  <2> QED
    BY <1>1, TokensGood
<1>4. t.fund \in Nat /\ t2.fund = t.fund - x /\ t2.shares = t.shares - n
  BY Zenon, <1>1 DEF Fund
<1>5. PutAt(l2, l, to, l[to] + x) /\ l[to] + x \in Nat
  BY <1>1, <1>3 DEF PutAt
<1> HIDE DEF t, l, x, t2, l2
<1>6. l2 \in [Account -> Nat] /\ SumOver(l2, Account) = SumOver(l, Account) + ((l[to] + x) - l[to])
  <2> DEFINE y == l[to] + x
  <2>1. y \in Nat /\ PutAt(l2, l, to, y)
    BY Zenon, <1>5
  <2> HIDE DEF y
  <2>2. l2 \in [Account -> Nat] /\ SumOver(l2, Account) = SumOver(l, Account) + (y - l[to])
    BY Zenon, <1>1, <2>1, PointSum
  <2> QED
    BY Zenon, <2>2 DEF y
<1>7. SumOver(l, Account) \in Nat /\ l[to] \in Nat
  BY Zenon, <1>1, SumAccount
<1>8. SumOver(l2, Account) + t2.fund = SumOver(l, Account) + t.fund
  BY <1>3, <1>4, <1>6, <1>7
<1>9. u \in Pot /\ u.totals = t2 /\ u.liquid = l2
  BY <1>2, <1>3, <1>6 DEF Pot
<1> QED
  BY Zenon, <1>3, <1>4, <1>8, <1>9 DEF Tokened, t, l

\* The pot after the routes T of a withdrawal that pays R along them.
PotOk(s, T, R, base) ==
    /\ s \in Pot /\ Priced(s.totals)
    /\ s.totals.shares = base.totals.shares - SumOver(R, T)
    /\ Tokened(s) = Tokened(base)
    /\ Worth(base.totals, s.totals)

LEMMA PotStep ==
    ASSUME NEW base \in Pot, NEW R \in [Account -> Nat], NEW T, T \subseteq Account, NEW x \in T,
           SumOver(R, T) <= base.totals.shares,
           NEW s, PotOk(s, T \ {x}, R, base), NEW u, u = Convert(s, x, R[x])
    PROVE  PotOk(u, T, R, base)
<1>1. IsFiniteSet(T) /\ IntOn(R, T) /\ NatOn(R, T)
  BY Zenon, AccountFacts, FiniteSubset DEF IntOn, NatOn
<1>2. SumOver(R, T) = R[x] + SumOver(R, T \ {x})
  BY Zenon, <1>1, SumTake
<1>3. SumOver(R, T \ {x}) \in Nat
  BY Zenon, <1>1, SumAtLeast
<1>4. /\ s \in Pot /\ Priced(s.totals) /\ s.totals.shares = base.totals.shares - SumOver(R, T \ {x})
      /\ Tokened(s) = Tokened(base) /\ Worth(base.totals, s.totals)
  BY Zenon DEF PotOk
<1>5. base.totals.shares \in Nat /\ base.totals \in Fund /\ s.totals \in Fund
  BY Zenon, <1>4 DEF Pot, Fund
<1>6. R[x] \in Nat /\ R[x] <= s.totals.shares /\ x \in Account
  BY <1>2, <1>3, <1>4, <1>5
<1>7. /\ u \in Pot /\ Priced(u.totals) /\ u.totals.shares = s.totals.shares - R[x]
      /\ Tokened(u) = Tokened(s)
      /\ Worth(s.totals, u.totals) /\ (NoPrice(s.totals) => u.totals = s.totals)
  BY <1>4, <1>6, ConvertGood
<1>8. u.totals \in Fund
  BY Zenon, <1>7 DEF Pot
<1>9. Worth(base.totals, u.totals)
  BY Zenon, <1>4, <1>5, <1>7, <1>8, WorthTrans
<1>10. u.totals.shares = base.totals.shares - SumOver(R, T)
  BY <1>2, <1>3, <1>4, <1>5, <1>6, <1>7
<1> QED
  BY Zenon, <1>4, <1>7, <1>9, <1>10 DEF PotOk

\* The largest element of a set of accounts.
Last(S) == [T \in SUBSET S |-> CHOOSE x \in T : \A y \in T : x >= y]

LEMMA LastIn ==
    ASSUME NEW S, S \subseteq Nat, IsFiniteSet(S)
    PROVE  Chooses(Last(S), S)
<1> SUFFICES ASSUME NEW T \in SUBSET S, T # {} PROVE \E x \in T : \A y \in T : x >= y
  BY Zenon DEF Last, Chooses
<1> DEFINE P == {U \in SUBSET T : U = {} \/ \E x \in U : \A y \in U : x >= y}
<1>0. P \in SUBSET SUBSET T
  BY Zenon
<1>1. {} \in P
  BY Zenon
<1>2. ASSUME NEW U \in P, NEW x \in T \ U PROVE U \cup {x} \in P
  <2>1. x \in Nat /\ U \subseteq Nat /\ U \cup {x} \in SUBSET T
    BY Zenon
  <2>2. CASE U = {}
    BY <2>1, <2>2
  <2>3. CASE U # {}
    <3>1. PICK m \in U : \A y \in U : m >= y
      BY Zenon, <2>3
    <3>2. CASE x >= m
      <4>1. \A y \in U \cup {x} : x >= y
        BY <2>1, <3>1, <3>2
      <4> QED
        BY Zenon, <2>1, <4>1
    <3>3. CASE ~ (x >= m)
      <4>1. \A y \in U \cup {x} : m >= y
        BY <2>1, <3>1, <3>3
      <4> QED
        BY Zenon, <2>1, <4>1
    <3> QED
      BY Zenon, <3>2, <3>3
  <2> QED
    BY Zenon, <2>2, <2>3
<1>3. IsFiniteSet(T)
  BY Zenon, FiniteSubset
<1> HIDE DEF P
<1>4. T \in P
  BY Zenon, <1>0, <1>1, <1>2, <1>3, SubsetInduction
<1> QED
  BY Zenon, <1>4 DEF P

\* A table of pots: each, if the one before it is right, is made from that.
PotSteps(it, S, R, base) ==
    /\ it[{}] = base
    /\ \A T \in SUBSET S : T # {} /\ PotOk(it[T \ {Last(S)[T]}], T \ {Last(S)[T]}, R, base)
         => it[T] = Convert(it[T \ {Last(S)[T]}], Last(S)[T], R[Last(S)[T]])

LEMMA PotAll ==
    ASSUME NEW base \in Pot, Priced(base.totals), NEW R \in [Account -> Nat],
           SumOver(R, Account) <= base.totals.shares,
           NEW S, S \subseteq Account, NEW it, PotSteps(it, S, R, base)
    PROVE  \A T \in SUBSET S : PotOk(it[T], T, R, base)
<1> DEFINE P == {T \in SUBSET S : PotOk(it[T], T, R, base)}
           ch == Last(S)
<1>1. IsFiniteSet(S) /\ S \subseteq Nat
  BY Zenon, AccountAssumption, FiniteSubset
<1>2. Chooses(ch, S)
  BY Zenon, <1>1, LastIn
<1>3. {} \in P
  <2>1. base.totals \in Fund /\ base.totals.shares \in Nat
    BY Zenon DEF Pot, Fund
  <2>2. Worth(base.totals, base.totals)
    BY Zenon, <2>1, WorthSelf
  <2> QED
    BY <2>1, <2>2, SumEmpty DEF PotOk, PotSteps
<1>4. ASSUME NEW T \in SUBSET S, T # {}, T \ {ch[T]} \in P PROVE T \in P
  <2>1. ch[T] \in T /\ T \subseteq Account
    BY Zenon, <1>2, <1>4 DEF Chooses
  <2>2. PotOk(it[T \ {ch[T]}], T \ {ch[T]}, R, base)
    BY Zenon, <1>4
  <2>3. it[T] = Convert(it[T \ {ch[T]}], ch[T], R[ch[T]])
    BY Zenon, <1>4, <2>2 DEF PotSteps
  <2>4. SumOver(R, T) <= base.totals.shares
    <3>1. SumOver(R, T) \in Nat /\ SumOver(R, T) <= SumOver(R, Account) /\ SumOver(R, Account) \in Nat
      BY Zenon, <2>1, AccountFacts, SumAtLeast, SumNat
    <3>2. base.totals.shares \in Nat
      BY Zenon DEF Pot, Fund
    <3> QED
      BY <3>1, <3>2
  <2>5. PotOk(it[T], T, R, base)
    <3> DEFINE x == ch[T]
               s == it[T \ {x}]
    <3>1. x \in T /\ PotOk(s, T \ {x}, R, base) /\ it[T] = Convert(s, x, R[x])
      BY Zenon, <2>1, <2>2, <2>3
    <3> HIDE DEF x, s
    <3> QED
      BY Zenon, <2>1, <2>4, <3>1, PotStep
  <2> QED
    BY Zenon, <2>5
<1>5. \A T \in SUBSET S : T \in P
  <2> HIDE DEF P, ch
  <2>1. ClosedAlong(P, S, ch)
    BY Zenon, <1>4 DEF ClosedAlong
  <2>2. SUBSET S \subseteq P
    BY Zenon, <1>1, <1>2, <1>3, <2>1, ChoiceClosed
  <2> QED
    BY Zenon, <2>2
<1> QED
  BY Zenon, <1>5

\* The shares each route gets of n.
Along(a, n) == [to \in Account |-> Routed(a, to, n)]

Before == [totals |-> totals, liquid |-> liquid]

\* The equation of the fold over the routes of a that are paid in tokens.
PotTable(it, a, n) ==
    it = [T \in SUBSET PaidRoutes(a) |->
            IF T = {} THEN [totals |-> totals, liquid |-> liquid]
            ELSE Convert(it[T \ {CHOOSE x \in T : \A y \in T : x >= y}],
                         CHOOSE x \in T : \A y \in T : x >= y,
                         Routed(a, CHOOSE x \in T : \A y \in T : x >= y, n))]

LEMMA PaidGood ==
    ASSUME NEW a, NEW n, Before \in Pot, Priced(totals), Along(a, n) \in [Account -> Nat],
           SumOver(Along(a, n), Account) <= totals.shares
    PROVE  \E p : /\ PotOk(p, PaidRoutes(a), Along(a, n), Before)
                  /\ Converted(a, n) = Convert(p, a, n - SumOver(Along(a, n), Account))
<1> DEFINE S == PaidRoutes(a)
           R == Along(a, n)
           base == Before
           ch == Last(S)
           Step(v, x) == Convert(v, x, R[x])
           G == [x \in S |-> [v \in Pot |-> IF Step(v, x) \in Pot THEN Step(v, x) ELSE v]]
<1>1. S \subseteq Account /\ IsFiniteSet(S) /\ S \subseteq Nat
  <2>1. S \subseteq Account
    BY Zenon DEF PaidRoutes
  <2> QED
    BY Zenon, <2>1, AccountAssumption, FiniteSubset
<1>2. Chooses(ch, S)
  <2> HIDE DEF S
  <2> QED
    BY Zenon, <1>1, LastIn
<1>3. /\ base \in Pot /\ Priced(base.totals) /\ R \in [Account -> Nat]
      /\ SumOver(R, Account) <= base.totals.shares
  BY Zenon DEF Before
<1>4. G \in [S -> [Pot -> Pot]]
  BY Zenon
<1>5. PICK it : FoldTable(it, S, Pot, base, ch, G)
  <2> HIDE DEF S, R, base, ch, G
  <2> QED
    BY Zenon, <1>1, <1>2, <1>3, <1>4, FoldExists
<1>6. ASSUME NEW T \in SUBSET S, T # {}
      PROVE  /\ ch[T] \in T /\ T \ {ch[T]} \in SUBSET S /\ it[T \ {ch[T]}] \in Pot
             /\ it[T] = G[ch[T]][it[T \ {ch[T]}]]
  BY Zenon, <1>2, <1>5, <1>6 DEF FoldTable, Chooses
<1>7. ASSUME NEW T \in SUBSET S, T # {}, PotOk(it[T \ {ch[T]}], T \ {ch[T]}, R, base)
      PROVE  it[T] = Step(it[T \ {ch[T]}], ch[T])
  <2> DEFINE x == ch[T]
             s == it[T \ {x}]
             u == Step(s, x)
  <2>1. /\ x \in T /\ T \subseteq Account /\ PotOk(s, T \ {x}, R, base) /\ s \in Pot
        /\ u = Convert(s, x, R[x]) /\ it[T] = G[x][s] /\ x \in S
    BY Zenon, <1>1, <1>6, <1>7
  <2>2. SumOver(R, T) <= base.totals.shares
    <3>1. SumOver(R, T) \in Nat /\ SumOver(R, T) <= SumOver(R, Account) /\ SumOver(R, Account) \in Nat
      <4> HIDE DEF R
      <4> QED
        BY Zenon, <1>3, <2>1, AccountFacts, SumAtLeast, SumNat
    <3>2. base.totals.shares \in Nat
      BY Zenon, <1>3 DEF Pot, Fund
    <3> HIDE DEF R, base
    <3> QED
      BY <1>3, <3>1, <3>2
  <2>3. PotOk(u, T, R, base)
    <3> HIDE DEF x, s, u, R, base
    <3> QED
      BY Zenon, <1>3, <2>1, <2>2, PotStep
  <2>4. u \in Pot
    BY Zenon, <2>3 DEF PotOk
  <2>5. G[x][s] = IF Step(s, x) \in Pot THEN Step(s, x) ELSE s
    <3> HIDE DEF Step, S, x, s
    <3> QED
      BY Zenon, <2>1
  <2> HIDE DEF Step, G
  <2> QED
    BY Zenon, <2>1, <2>4, <2>5
<1>8. it[{}] = base
  BY Zenon, <1>5 DEF FoldTable
<1>9. PotSteps(it, S, R, base)
  <2> HIDE DEF S, R, base
  <2> QED
    BY Zenon, <1>7, <1>8 DEF PotSteps
<1>10. \A T \in SUBSET S : PotOk(it[T], T, R, base)
  <2> HIDE DEF S, R, base
  <2> QED
    BY Zenon, <1>1, <1>3, <1>9, PotAll
<1>11. ASSUME NEW T \in SUBSET S, T # {}
       PROVE  /\ ch[T] = CHOOSE x \in T : \A y \in T : x >= y
              /\ it[T] = Convert(it[T \ {ch[T]}], ch[T], Routed(a, ch[T], n))
  <2>1. ch[T] = CHOOSE x \in T : \A y \in T : x >= y
    BY Zenon DEF Last
  <2>2. ch[T] \in Account /\ it[T] = Step(it[T \ {ch[T]}], ch[T])
    BY Zenon, <1>1, <1>6, <1>7, <1>10, <1>11
  <2>3. R[ch[T]] = Routed(a, ch[T], n)
    <3> HIDE DEF ch
    <3> QED
      BY Zenon, <2>2 DEF Along
  <2> HIDE DEF ch, R
  <2> QED
    BY Zenon, <2>1, <2>2, <2>3
<1>12. PotTable(it, a, n)
  <2>1. it = [T \in SUBSET S |-> it[T]]
    BY Zenon, <1>5 DEF FoldTable
  <2>2. ASSUME NEW T \in SUBSET S
        PROVE  it[T] = IF T = {} THEN [totals |-> totals, liquid |-> liquid]
            ELSE Convert(it[T \ {CHOOSE x \in T : \A y \in T : x >= y}],
                         CHOOSE x \in T : \A y \in T : x >= y,
                         Routed(a, CHOOSE x \in T : \A y \in T : x >= y, n))
    <3>1. CASE T = {}
      BY Zenon, <1>8, <3>1 DEF Before
    <3>2. CASE T # {}
      <4> HIDE DEF ch
      <4> QED
        BY Zenon, <1>11, <3>2
    <3> QED
      BY Zenon, <3>1, <3>2
  <2> QED
    BY Zenon, <2>1, <2>2 DEF PotTable
<1> DEFINE jt == CHOOSE jt : PotTable(jt, a, n)
<1>13. PotTable(jt, a, n)
  BY Zenon, <1>12
<1>14. Converted(a, n) = Convert(jt[S], a, n - SumOver(R, Account))
  BY Zenon DEF Converted, MapThenFoldSet, Max, PotTable, Along
<1> HIDE DEF jt
<1>15. PotSteps(jt, S, R, base)
  <2>1. jt[{}] = base
    BY Zenon, <1>13 DEF PotTable, Before
  <2>2. ASSUME NEW T \in SUBSET S, T # {}
        PROVE  jt[T] = Convert(jt[T \ {ch[T]}], ch[T], R[ch[T]])
    <3>1. ch[T] = CHOOSE x \in T : \A y \in T : x >= y
      BY Zenon DEF Last
    <3>2. jt[T] = Convert(jt[T \ {ch[T]}], ch[T], Routed(a, ch[T], n))
      <4> HIDE DEF ch
      <4> QED
        BY Zenon, <1>13, <2>2, <3>1 DEF PotTable
    <3>3. ch[T] \in Account
      BY Zenon, <1>1, <1>2, <2>2 DEF Chooses
    <3>4. R[ch[T]] = Routed(a, ch[T], n)
      <4> HIDE DEF ch
      <4> QED
        BY Zenon, <3>3 DEF Along
    <3> HIDE DEF ch, R
    <3> QED
      BY Zenon, <3>2, <3>4
  <2> HIDE DEF S, R, base
  <2> QED
    BY Zenon, <2>1, <2>2 DEF PotSteps
<1>16. PotOk(jt[S], S, R, base)
  <2>1. S \in SUBSET S
    BY Zenon
  <2> HIDE DEF S, R, base
  <2> QED
    BY Zenon, <1>1, <1>3, <1>15, <2>1, PotAll
<1> QED
  BY Zenon, <1>14, <1>16

\* The routes together get no more than there is: their percentages are at most all.
LEMMA AlongGood ==
    ASSUME NEW a \in Account, NEW n \in Nat, percent[a] \in [Account -> Nat],
           SumOver(percent[a], Account) <= FullPercent
    PROVE  /\ Along(a, n) \in [Account -> Nat]
           /\ SumOver(Along(a, n), Account) \in Nat /\ SumOver(Along(a, n), Account) <= n
<1> DEFINE w == percent[a]
           R == Along(a, n)
           m == FullPercent
<1>1. m \in Nat \ {0} /\ w \in [Account -> Nat]
  BY Zenon, ShareAssumption
<1>2. ASSUME NEW x \in Account
      PROVE  R[x] = (n * w[x]) \div m /\ R[x] \in Nat /\ R[x] * m <= n * w[x]
  <2>1. w[x] \in Nat /\ n * w[x] \in Nat
    BY Zenon, <1>1, MulNat
  <2>2. R[x] = (n * w[x]) \div m
    BY Zenon DEF Along, Routed
  <2> DEFINE z == n * w[x]
  <2> HIDE DEF m, R, w, z
  <2>3. z \in Nat /\ R[x] = z \div m
    BY Zenon, <2>1, <2>2 DEF z
  <2>4. z \div m \in Nat /\ (z \div m) * m <= z
    BY Zenon, <1>1, <2>3, DivFacts
  <2> QED
    BY Zenon, <2>2, <2>3, <2>4 DEF z
<1>3. R \in [Account -> Nat]
  BY Zenon, <1>2 DEF Along
<1>4. BoundOn(R, m, n, w, Account) /\ m \in Nat
  BY Zenon, <1>1, <1>2 DEF BoundOn
<1> HIDE DEF R, m, w
<1>5. SumOver(R, Account) * m <= n * SumOver(w, Account)
  BY Zenon, <1>1, <1>3, <1>4, AccountFacts, SumBound
<1>6. SumOver(R, Account) \in Nat /\ SumOver(w, Account) \in Nat
  BY Zenon, <1>1, <1>3, AccountFacts, SumNat
<1>7. SumOver(w, Account) * n <= m * n
  <2>1. SumOver(w, Account) <= m
    BY Zenon DEF w, m
  <2> QED
    BY <1>1, <1>6, <2>1, MulMono
<1>8. SumOver(R, Account) * m <= n * m
  <2>1. n * SumOver(w, Account) = SumOver(w, Account) * n /\ m * n = n * m
    BY <1>1, <1>6
  <2>2. SumOver(w, Account) * n \in Nat /\ n * m \in Nat /\ SumOver(R, Account) * m \in Nat
    BY Zenon, <1>1, <1>6, MulNat
  <2> QED
    BY <1>5, <1>7, <2>1, <2>2
<1>9. SumOver(R, Account) <= n
  BY <1>1, <1>6, <1>8, MulCancel
<1> QED
  BY Zenon, <1>3, <1>6, <1>9 DEF R

\* What stays vested along a route.
Kept(a, n) == [x \in Account |-> KeptVested(a, x, n)]

LEMMA KeptGood ==
    ASSUME NEW a \in Account, NEW n \in Nat, percent[a] \in [Account -> Nat],
           autoVest[a] \in [Account -> BOOLEAN], Along(a, n) \in [Account -> Nat]
    PROVE  /\ Kept(a, n) \in [Account -> Nat]
           /\ SumOver(Along(a, n), Account) = SumOver(Kept(a, n), Account) + SumOver(Along(a, n), PaidRoutes(a))
<1> DEFINE S == PaidRoutes(a)
           R == Along(a, n)
           K == Kept(a, n)
           W == Account \ S
<1>1. \A x \in Account : R[x] = Routed(a, x, n) /\ R[x] \in Nat
  BY Zenon DEF Along
<1>2. \A x \in Account : K[x] = IF autoVest[a][x] THEN R[x] ELSE 0
  BY Zenon, <1>1 DEF Kept, KeptVested
<1>3. K \in [Account -> Nat]
  BY <1>1, <1>2 DEF Kept
<1>4. S \subseteq Account /\ IsFiniteSet(S) /\ IsFiniteSet(W) /\ W \subseteq Account
  BY Zenon, AccountFacts, FiniteSubset DEF PaidRoutes
<1>5. ConstOn(K, 0, S)
  BY Zenon, <1>2 DEF ConstOn, PaidRoutes
<1>6. AgreeOn(R, K, W)
  <2> SUFFICES ASSUME NEW x \in W PROVE R[x] = K[x]
    BY Zenon DEF AgreeOn
  <2>1. CASE autoVest[a][x]
    BY Zenon, <1>2, <2>1
  <2>2. CASE ~autoVest[a][x]
    <3>1. percent[a][x] = 0
      BY <2>2 DEF PaidRoutes
    <3>2. FullPercent \in Nat \ {0}
      BY Zenon, ShareAssumption
    <3>3. Routed(a, x, n) = 0 \div FullPercent
      BY <3>1 DEF Routed
    <3>4. 0 \div FullPercent = 0
      BY <3>2
    <3> QED
      BY Zenon, <1>1, <1>2, <2>2, <3>3, <3>4
  <2> QED
    BY Zenon, <2>1, <2>2
<1> HIDE DEF S, R, K, W
<1>7. IntOn(K, Account) /\ IntOn(R, Account) /\ IntOn(R, W) /\ IsFiniteSet(Account)
  BY <1>1, <1>3, <1>4, AccountFacts DEF IntOn
<1>8. SumOver(K, Account) = SumOver(K, S) + SumOver(K, W) /\ SumOver(R, Account) = SumOver(R, S) + SumOver(R, W)
  <2>1. SumOver(K, Account) = SumOver(K, S) + SumOver(K, Account \ S)
    BY Zenon, <1>4, <1>7, SumMinus
  <2>2. SumOver(R, Account) = SumOver(R, S) + SumOver(R, Account \ S)
    BY Zenon, <1>4, <1>7, SumMinus
  <2> QED
    BY Zenon, <2>1, <2>2 DEF W
<1>9. SumOver(K, S) = 0
  <2>1. SumOver(K, S) = 0 * Cardinality(S)
    BY <1>4, <1>5, SumSteady
  <2>2. Cardinality(S) \in Nat
    BY Zenon, <1>4, CardinalityNat
  <2> QED
    BY <2>1, <2>2
<1>10. SumOver(R, W) = SumOver(K, W) /\ SumOver(R, W) \in Int
  BY Zenon, <1>4, <1>6, <1>7, SumCong, SumInt
<1>11. SumOver(R, S) \in Int
  <2>1. IntOn(R, S)
    BY Zenon, <1>4, <1>7 DEF IntOn
  <2> QED
    BY Zenon, <1>4, <2>1, SumInt
<1>12. SumOver(R, Account) = SumOver(K, Account) + SumOver(R, S)
  BY <1>8, <1>9, <1>10, <1>11
<1> QED
  BY Zenon, <1>3, <1>12 DEF K, R, S

\* The shares after a withdrawal of n from a.
Settled(v2, a, n) == v2 = [x \in Account |-> vesting[x] + KeptVested(a, x, n) - (IF x = a THEN n ELSE 0)]

\* A withdrawal keeps the totals of the fund and every token.
LEMMA BankWithdraw ==
    ASSUME BankOk(vesting, totals, liquid, rewards, burnt), NEW a \in Account, NEW n \in Nat, n <= vesting[a],
           percent[a] \in [Account -> Nat], autoVest[a] \in [Account -> BOOLEAN],
           SumOver(percent[a], Account) <= FullPercent,
           NEW v2, Settled(v2, a, n), NEW s, s = Converted(a, n)
    PROVE  /\ BankOk(v2, s.totals, s.liquid, rewards, burnt) /\ Worth(totals, s.totals)
           /\ \A x \in Account : x # a => v2[x] >= vesting[x]
           /\ v2[a] >= vesting[a] - n
<1> DEFINE R == Along(a, n)
           K == Kept(a, n)
           S == PaidRoutes(a)
           base == Before
           w == [x \in Account |-> vesting[x] + K[x]]
           rest == n - SumOver(R, Account)
<1>1. /\ vesting \in [Account -> Nat] /\ liquid \in [Account -> Nat] /\ rewards \in Nat /\ burnt \in Nat
      /\ totals \in Fund /\ Priced(totals) /\ totals.fund \in Nat /\ totals.shares \in Nat
      /\ totals.shares = SumOver(vesting, Account)
      /\ SumOver(liquid, Account) + totals.fund + rewards + burnt = Start
  BY Zenon DEF BankOk, Fund
<1>2. R \in [Account -> Nat] /\ SumOver(R, Account) \in Nat /\ SumOver(R, Account) <= n
  BY Zenon, AlongGood
<1>3. vesting[a] \in Nat /\ vesting[a] <= totals.shares
  BY Zenon, <1>1, SumAccount
<1>4. K \in [Account -> Nat] /\ SumOver(R, Account) = SumOver(K, Account) + SumOver(R, S)
  BY Zenon, <1>2, KeptGood
<1>5. PICK p : PotOk(p, S, R, base) /\ s = Convert(p, a, rest)
  <2>1. Before \in Pot /\ SumOver(Along(a, n), Account) <= totals.shares
    BY <1>1, <1>2, <1>3 DEF Before, Pot
  <2> QED
    BY Zenon, <1>1, <1>2, <2>1, PaidGood
<1>6. /\ p \in Pot /\ Priced(p.totals) /\ p.totals \in Fund /\ p.totals.shares = totals.shares - SumOver(R, S)
      /\ Tokened(p) = Tokened(base) /\ Worth(totals, p.totals)
  BY Zenon, <1>5 DEF PotOk, Pot, Before
<1>7. SumOver(K, Account) \in Nat /\ SumOver(R, S) \in Nat
  <2>1. S \subseteq Account
    BY Zenon DEF PaidRoutes
  <2> HIDE DEF K, R, S
  <2> QED
    BY Zenon, <1>2, <1>4, <2>1, AccountFacts, SumNat, SumAtLeast
<1>8. rest \in Nat /\ rest <= p.totals.shares
  <2>1. p.totals.shares = totals.shares - SumOver(R, S) /\ totals.shares \in Nat
    BY Zenon, <1>1, <1>6
  <2> HIDE DEF K, R, S
  <2> QED
    BY SMT, <1>2, <1>3, <1>4, <1>7, <2>1
<1>9. /\ s \in Pot /\ Priced(s.totals) /\ s.totals.shares = p.totals.shares - rest
      /\ Tokened(s) = Tokened(p)
      /\ Worth(p.totals, s.totals) /\ (NoPrice(p.totals) => s.totals = p.totals)
  <2> HIDE DEF rest, R, S, K, base
  <2> QED
    BY SMTT(20), <1>5, <1>6, <1>8, ConvertGood
<1>10. s.totals \in Fund /\ s.liquid \in [Account -> Nat] /\ s.totals.fund \in Nat
  BY Zenon, <1>9 DEF Pot, Fund
<1>11. Worth(totals, s.totals)
  BY Zenon, <1>1, <1>6, <1>9, <1>10, WorthTrans
<1>12. SumOver(s.liquid, Account) + s.totals.fund = SumOver(liquid, Account) + totals.fund
  BY Zenon, <1>6, <1>9 DEF Tokened, Before
<1>13. w \in [Account -> Nat] /\ SumOver(w, Account) = SumOver(vesting, Account) + SumOver(K, Account)
  <2>1. w \in [Account -> Nat] /\ AddsOn(w, vesting, K, Account)
    <3>1. vesting \in [Account -> Nat] /\ K \in [Account -> Nat]
      BY Zenon, <1>1, <1>4
    <3> HIDE DEF K
    <3> QED
      BY SMT, <3>1 DEF AddsOn
  <2>2. IntOn(vesting, Account) /\ IntOn(K, Account)
    <3>1. vesting \in [Account -> Nat] /\ K \in [Account -> Nat]
      BY Zenon, <1>1, <1>4
    <3> HIDE DEF K
    <3> QED
      BY SMT, <3>1 DEF IntOn
  <2> HIDE DEF w, K
  <2> QED
    BY Zenon, <2>1, <2>2, AccountFacts, SumPlus
<1>14. PutAt(v2, w, a, w[a] - n) /\ w[a] - n \in Nat
  <2>1. \A x \in Account : K[x] = KeptVested(a, x, n) /\ K[x] \in Nat
    BY Zenon, <1>4 DEF Kept
  <2> HIDE DEF K
  <2>2. w[a] - n \in Nat
    BY <1>1, <1>3, <2>1
  <2>3. ASSUME NEW x \in Account PROVE v2[x] = IF x = a THEN w[a] - n ELSE w[x]
    BY <1>1, <2>1 DEF Settled
  <2>4. w = [x \in Account |-> w[x]] /\ v2 = [x \in Account |-> v2[x]]
    BY Zenon DEF Settled
  <2> HIDE DEF w
  <2> QED
    BY Zenon, <2>2, <2>3, <2>4 DEF PutAt
<1>15. v2 \in [Account -> Nat] /\ SumOver(v2, Account) = SumOver(w, Account) - n
  <2> DEFINE y == w[a] - n
  <2>1. y \in Nat /\ PutAt(v2, w, a, y) /\ w[a] \in Nat
    BY Zenon, <1>13, <1>14
  <2>2. SumOver(w, Account) \in Nat
    <3> HIDE DEF w
    <3> QED
      BY Zenon, <1>13, SumAccount
  <2> HIDE DEF y
  <2>3. v2 \in [Account -> Nat] /\ SumOver(v2, Account) = SumOver(w, Account) + (y - w[a])
    <3> HIDE DEF w
    <3> QED
      BY Zenon, <1>13, <2>1, PointSum
  <2> HIDE DEF w
  <2> QED
    BY SMT, <2>1, <2>2, <2>3 DEF y
<1>16. \A x \in Account : v2[x] >= IF x = a THEN vesting[a] - n ELSE vesting[x]
  <2>1. \A x \in Account : K[x] = KeptVested(a, x, n) /\ K[x] \in Nat /\ vesting[x] \in Nat
    BY Zenon, <1>1, <1>4 DEF Kept
  <2> HIDE DEF K
  <2> QED
    BY SMT, <2>1 DEF Settled
<1>17. s.totals.shares = SumOver(v2, Account)
  <2>1. /\ SumOver(vesting, Account) \in Nat /\ totals.shares = SumOver(vesting, Account)
        /\ p.totals.shares = totals.shares - SumOver(R, S)
        /\ s.totals.shares = p.totals.shares - rest
        /\ SumOver(w, Account) = SumOver(vesting, Account) + SumOver(K, Account)
        /\ SumOver(v2, Account) = SumOver(w, Account) - n
    BY Zenon, <1>1, <1>6, <1>9, <1>13, <1>15
  <2> HIDE DEF K, R, S, w
  <2> QED
    BY SMT, <1>2, <1>4, <1>7, <2>1
<1>18. SumOver(s.liquid, Account) + s.totals.fund + rewards + burnt = Start
  BY Zenon, <1>1, <1>12
<1> QED
  BY Zenon, <1>1, <1>9, <1>10, <1>11, <1>15, <1>16, <1>17, <1>18 DEF BankOk

-----------------------------------------------------------------------------
(***************************************************************************)
(* Routes.                                                                  *)
(***************************************************************************)
\* One for each route that there is.
InUse(w) == [b \in Account |-> IF w[b] = 0 THEN 0 ELSE 1]

RoutingOk(p, au, c) ==
    /\ p \in [Account -> [Account -> Nat]] /\ au \in [Account -> [Account -> BOOLEAN]]
    /\ c \in [Account -> Nat]
    /\ \A a \in Account : SumOver(p[a], Account) <= FullPercent
    /\ \A a \in Account : c[a] = SumOver(InUse(p[a]), Account)

Moved(c2, c, p, f, t, n) ==
    c2 = [c EXCEPT ![f] = IF p[f][t] = 0 THEN c[f] + 1 ELSE IF n = 0 THEN c[f] - 1 ELSE c[f]]

LEMMA RouteMove ==
    ASSUME NEW p, NEW au, NEW c, RoutingOk(p, au, c), NEW f \in Account, NEW t \in Account,
           NEW n \in Nat, p[f][t] = 0 => n # 0, NEW auto \in BOOLEAN,
           NEW p2, PutIn(p2, p, f, t, n), NEW au2, PutIn(au2, au, f, t, auto),
           NEW c2, Moved(c2, c, p, f, t, n),
           SumOver(p2[f], Account) <= FullPercent
    PROVE  RoutingOk(p2, au2, c2)
<1>1. /\ p \in [Account -> [Account -> Nat]] /\ au \in [Account -> [Account -> BOOLEAN]]
      /\ c \in [Account -> Nat]
      /\ \A a \in Account : SumOver(p[a], Account) <= FullPercent
      /\ \A a \in Account : c[a] = SumOver(InUse(p[a]), Account)
  BY Zenon DEF RoutingOk
<1>2. p2 \in [Account -> [Account -> Nat]] /\ PutAt(p2[f], p[f], t, n) /\ \A a \in Account \ {f} : p2[a] = p[a]
  BY Zenon, <1>1 DEF PutIn, PutAt
<1>3. au2 \in [Account -> [Account -> BOOLEAN]]
  BY Zenon, <1>1 DEF PutIn
<1> DEFINE u == InUse(p[f])
           u2 == InUse(p2[f])
           y == IF n = 0 THEN 0 ELSE 1
<1>4. u \in [Account -> Nat] /\ u[t] = (IF p[f][t] = 0 THEN 0 ELSE 1) /\ PutAt(u2, u, t, y) /\ y \in Nat
  <2>1. p[f] \in [Account -> Nat] /\ p2[f] = [p[f] EXCEPT ![t] = n]
    BY Zenon, <1>1, <1>2 DEF PutAt
  <2>2. u = [b \in Account |-> IF p[f][b] = 0 THEN 0 ELSE 1]
    BY Zenon DEF InUse
  <2>3. u2 = [b \in Account |-> IF p2[f][b] = 0 THEN 0 ELSE 1]
    BY Zenon DEF InUse
  <2>4. u \in [Account -> Nat] /\ u[t] = (IF p[f][t] = 0 THEN 0 ELSE 1) /\ y \in Nat
    BY SMT, <2>2
  <2> HIDE DEF u, u2
  <2>5. u2 = [u EXCEPT ![t] = y]
    BY SMT, <2>1, <2>2, <2>3
  <2> QED
    BY Zenon, <2>4, <2>5 DEF PutAt
<1>5. p[f][t] \in Nat /\ c[f] \in Nat /\ c[f] = SumOver(u, Account)
  BY Zenon, <1>1
<1> HIDE DEF u, u2, y
<1>6. SumOver(u2, Account) = SumOver(u, Account) + (y - u[t]) /\ u[t] <= SumOver(u, Account)
  BY Zenon, <1>4, PointSum, SumAccount
<1>7. c2 = [c EXCEPT ![f] = c[f] + (y - u[t])] /\ c[f] + (y - u[t]) \in Nat
  <2> DEFINE z == IF p[f][t] = 0 THEN c[f] + 1 ELSE IF n = 0 THEN c[f] - 1 ELSE c[f]
  <2>1. z = c[f] + (y - u[t]) /\ c[f] + (y - u[t]) \in Nat
    <3>1. u[t] = (IF p[f][t] = 0 THEN 0 ELSE 1)
      BY Zenon, <1>4
    <3> QED
      BY SMT, <1>5, <1>6, <3>1 DEF y
  <2>2. c2 = [c EXCEPT ![f] = z]
    BY Zenon DEF Moved
  <2> HIDE DEF z
  <2> QED
    BY Zenon, <2>1, <2>2
<1>8. c2 \in [Account -> Nat] /\ c2[f] = SumOver(u2, Account) /\ \A a \in Account \ {f} : c2[a] = c[a]
  BY Zenon, <1>1, <1>5, <1>6, <1>7
<1>9. \A a \in Account : c2[a] = SumOver(InUse(p2[a]), Account)
  BY Zenon, <1>1, <1>2, <1>8 DEF u2
<1>10. \A a \in Account : SumOver(p2[a], Account) <= FullPercent
  BY Zenon, <1>1, <1>2
<1> QED
  BY Zenon, <1>2, <1>3, <1>8, <1>9, <1>10 DEF RoutingOk

-----------------------------------------------------------------------------
(***************************************************************************)
(* Withdrawals.                                                             *)
(***************************************************************************)
Power == [rate : Nat, next : Nat, total : Nat, done : Nat]

\* A withdrawal that runs has paid whole rates: then the modulus that
\* process_vesting_withdrawals takes for the last payment is what is left.
Steady(p) ==
    /\ p \in Power /\ p.done <= p.total
    /\ p = Idle \/ (p.rate > 0 /\ \E k \in Nat : p.done = k * p.rate)

LEMMA IdleSteady == Steady(Idle) /\ Idle.next = Never /\ Idle.total - Idle.done = 0 /\ Never \in Nat /\ Never > MaxTime
BY ShareAssumption DEF Steady, Idle, Power, Never

\* What a step of a withdrawal pays, and how the withdrawal goes on.
LEMMA PaymentGood ==
    ASSUME NEW a \in Account, Steady(power[a]), power[a] # Idle, vesting[a] \in Nat,
           power[a].total - power[a].done <= vesting[a]
    PROVE  /\ Payment(a) \in Nat /\ Payment(a) <= power[a].total - power[a].done
           /\ \A rest : LET p == Advance(power[a], Payment(a), rest)
                        IN  Steady(p) /\ (p = Idle \/ p.total - p.done = power[a].total - power[a].done - Payment(a))
<1> DEFINE p == power[a]
           n == Payment(a)
           left == p.total - p.done
<1>1. /\ p \in Power /\ p.done \in Nat /\ p.total \in Nat /\ p.rate \in Nat \ {0} /\ p.next \in Nat
      /\ p.done <= p.total /\ left \in Nat /\ left <= vesting[a]
  BY DEF Steady, Power
<1>2. PICK k \in Nat : p.done = k * p.rate
  BY Zenon DEF Steady
<1>3. n = IF left < p.rate THEN left ELSE p.rate
  <2>1. CASE left < p.rate
    <3>1. p.total - k * p.rate \in 0..(p.rate - 1)
      BY <1>1, <1>2, <2>1
    <3>2. p.total % p.rate = p.total - k * p.rate
      BY Zenon, <1>1, <3>1, ModUnique
    <3>3. p.total % p.rate = left
      BY Zenon, <1>2, <3>2
    <3> HIDE DEF left
    <3>4. n = AtMost(vesting[a], left)
      BY Zenon, <2>1, <3>3 DEF Payment, left
    <3> QED
      BY <1>1, <2>1, <3>4 DEF AtMost
  <2>2. CASE ~ (left < p.rate)
    BY <1>1, <2>2 DEF Payment, AtMost
  <2> QED
    BY Zenon, <2>1, <2>2
<1>4. n \in Nat /\ n <= left
  BY <1>1, <1>3
<1>5. ASSUME NEW rest PROVE LET q == Advance(p, n, rest) IN Steady(q) /\ (q = Idle \/ q.total - q.done = left - n)
  <2>1. CASE p.done + n >= p.total \/ rest = 0
    <3>1. Advance(p, n, rest) = Idle
      BY Zenon, <2>1 DEF Advance
    <3> QED
      BY Zenon, <3>1, IdleSteady
  <2>2. CASE ~ (p.done + n >= p.total \/ rest = 0)
    <3> DEFINE q == [p EXCEPT !.done = p.done + n, !.next = p.next + Interval]
    <3>1. Advance(p, n, rest) = q
      BY Zenon, <2>2 DEF Advance
    <3>2. n = p.rate
      BY <1>1, <1>3, <1>4, <2>2
    <3>3. Interval \in Nat
      BY Zenon, ShareAssumption
    <3>4. q \in Power /\ q.total = p.total /\ q.done = p.done + n /\ q.rate = p.rate
      <4> HIDE DEF p, n, left
      <4>1. q.total = p.total /\ q.done = p.done + n /\ q.rate = p.rate /\ q.next = p.next + Interval
        BY Zenon, <1>1 DEF Power
      <4>2. p.done + n \in Nat /\ p.next + Interval \in Nat
        BY <1>1, <1>4, <3>3
      <4>3. q \in Power
        BY Zenon, <1>1, <4>2 DEF Power
      <4> QED
        BY Zenon, <4>1, <4>3
    <3>5. q.done = (k + 1) * q.rate /\ k + 1 \in Nat
      <4>1. (k + 1) * p.rate = k * p.rate + p.rate
        BY <1>1
      <4> QED
        BY <1>2, <3>2, <3>4, <4>1
    <3> HIDE DEF q, n, p
    <3>6. Steady(q)
      BY <1>1, <1>4, <2>2, <3>4, <3>5 DEF Steady
    <3>7. q.total - q.done = left - n
      BY <1>1, <1>4, <3>4
    <3> QED
      BY Zenon, <3>1, <3>6, <3>7
  <2> QED
    BY Zenon, <2>1, <2>2
<1> QED
  BY Zenon, <1>4, <1>5

-----------------------------------------------------------------------------
(***************************************************************************)
(* The inductive invariant.                                                 *)
(***************************************************************************)
Bank == BankOk(vesting, totals, liquid, rewards, burnt)

\* An account that does not exist has received nothing.
Lending ==
    /\ created \subseteq Account
    /\ LendOk(delegated, received, delegation, returning)
    /\ minTime \in [Account -> [Account -> 0..(MaxTime + DelegationTime)]]
    /\ \A a \in Account \ created : received[a] = 0

\* The null account, whose shares are burnt, has nothing to cover with them.
Withdrawing ==
    /\ power \in [Account -> Power] /\ \A a \in Account : Steady(power[a])
    /\ power[Null] = Idle /\ delegated[Null] = 0

Routing == RoutingOk(percent, autoVest, routes)

Clock == now \in 0..MaxTime /\ phase \in {"operations", "expire", "cashout", "withdraw"}

VInv == Clock /\ Bank /\ Lending /\ Withdrawing /\ Routing /\ Backed

\* What a step has to keep.
After == VInv' /\ Worth(totals, totals')

LEMMA InvParts ==
    ASSUME VInv
    PROVE  /\ now \in 0..MaxTime /\ created \subseteq Account
           /\ liquid \in [Account -> Nat] /\ vesting \in [Account -> Nat] /\ rewards \in Nat /\ burnt \in Nat
           /\ totals \in Fund /\ Priced(totals)
           /\ delegated \in [Account -> Nat] /\ received \in [Account -> Nat]
           /\ delegation \in [Account -> [Account -> Nat]] /\ returning \in [Account -> [Time -> Nat]]
           /\ power \in [Account -> Power]
           /\ \A a \in Account : power[a].total \in Nat /\ power[a].done \in Nat /\ power[a].done <= power[a].total
           /\ \A a \in Account : delegated[a] + (power[a].total - power[a].done) <= vesting[a]
BY Zenon DEF VInv, Clock, Bank, BankOk, Lending, LendOk, Withdrawing, Backed, Steady, Power

LEMMA KeepBank ==
    ASSUME Bank, UNCHANGED <<vesting, money>>
    PROVE  Bank' /\ Worth(totals, totals')
<1>1. totals \in Fund
  BY Zenon DEF Bank, BankOk
<1>2. vesting' = vesting /\ totals' = totals /\ liquid' = liquid /\ rewards' = rewards /\ burnt' = burnt
  BY Zenon DEF money
<1> QED
  BY Zenon, <1>1, <1>2, WorthSelf DEF Bank

LEMMA KeepLending ==
    ASSUME Lending, UNCHANGED <<created, lent>>
    PROVE  Lending'
BY Zenon DEF Lending, lent

LEMMA KeepRouting ==
    ASSUME Routing, UNCHANGED routing
    PROVE  Routing'
BY Zenon DEF Routing, routing

LEMMA KeepWithdrawing ==
    ASSUME Withdrawing, UNCHANGED <<power, delegated>>
    PROVE  Withdrawing'
BY Zenon DEF Withdrawing

\* create_vesting, with tokens from a balance or from the rewards.
LEMMA VestBank ==
    ASSUME Bank, NEW a \in Account, NEW n \in Nat \ {0}, CreateVesting(a, n),
           liquid' \in [Account -> Nat], rewards' \in Nat, burnt' = burnt,
           SumOver(liquid', Account) + rewards' = (SumOver(liquid, Account) + rewards) - n
    PROVE  /\ Bank' /\ Worth(totals, totals')
           /\ ToShares(n, totals) \in Nat /\ vesting' = [vesting EXCEPT ![a] = vesting[a] + ToShares(n, totals)]
<1> DEFINE x == ToShares(n, totals)
           v2 == vesting'
           t2 == totals'
           l2 == liquid'
           r2 == rewards'
<1>1. v2 = [vesting EXCEPT ![a] = vesting[a] + x] /\ t2 = [fund |-> totals.fund + n, shares |-> totals.shares + x]
  BY Zenon DEF CreateVesting
<1>2. BankOk(vesting, totals, liquid, rewards, burnt) /\ PutAt(v2, vesting, a, vesting[a] + x)
  BY Zenon, <1>1 DEF Bank, PutAt
<1>3. l2 \in [Account -> Nat] /\ r2 \in Nat /\ SumOver(l2, Account) + r2 = (SumOver(liquid, Account) + rewards) - n
  BY Zenon
<1> HIDE DEF v2, t2, l2, r2
<1>4. BankOk(v2, t2, l2, r2, burnt) /\ Worth(totals, t2) /\ x \in Nat
  BY <1>1, <1>2, <1>3, BankVest
<1> QED
  BY Zenon, <1>1, <1>4 DEF Bank, v2, t2, l2, r2

LEMMA SpendSum ==
    ASSUME NEW l \in [Account -> Nat], NEW a \in Account, NEW n \in Nat, n <= l[a],
           NEW l2, l2 = [l EXCEPT ![a] = l[a] - n]
    PROVE  l2 \in [Account -> Nat] /\ SumOver(l2, Account) = SumOver(l, Account) - n
<1> DEFINE y == l[a] - n
<1>1. y \in Nat /\ PutAt(l2, l, a, y) /\ l[a] \in Nat
  BY DEF PutAt
<1>2. SumOver(l, Account) \in Nat
  BY Zenon, SumAccount
<1> HIDE DEF y
<1>3. l2 \in [Account -> Nat] /\ SumOver(l2, Account) = SumOver(l, Account) + (y - l[a])
  BY Zenon, <1>1, PointSum
<1> QED
  BY <1>1, <1>2, <1>3 DEF y

LEMMA TransferGood ==
    ASSUME VInv, NEW p \in VestPairs, NEW n \in Tokens, TransferToVesting(p[1], p[2], n)
    PROVE  After
<1> DEFINE from == p[1]
           to == p[2]
<1>1. from \in Account /\ to \in Account /\ n \in Nat \ {0}
  BY Zenon, AccountAssumption, ShareAssumption
<1>2. /\ n <= liquid[from] /\ liquid' = [liquid EXCEPT ![from] = liquid[from] - n] /\ CreateVesting(to, n)
      /\ UNCHANGED <<now, phase>> /\ UNCHANGED <<created, rewards, burnt, lent, power, routing>>
  BY Zenon DEF TransferToVesting, Operation
<1>3. Clock /\ Bank /\ Lending /\ Withdrawing /\ Routing /\ Backed
  BY Zenon DEF VInv
<1> HIDE DEF from, to
<1>4. liquid' \in [Account -> Nat] /\ SumOver(liquid', Account) = SumOver(liquid, Account) - n
  <2>1. liquid \in [Account -> Nat]
    BY Zenon, InvParts
  <2> DEFINE l2 == liquid'
  <2>2. l2 = [liquid EXCEPT ![from] = liquid[from] - n]
    BY Zenon, <1>2
  <2> HIDE DEF l2
  <2>3. l2 \in [Account -> Nat] /\ SumOver(l2, Account) = SumOver(liquid, Account) - n
    BY Zenon, <1>1, <1>2, <2>1, <2>2, SpendSum
  <2> QED
    BY Zenon, <2>3 DEF l2
<1>5. rewards' \in Nat /\ burnt' = burnt /\ SumOver(liquid', Account) + rewards' = (SumOver(liquid, Account) + rewards) - n
  <2>1. liquid \in [Account -> Nat] /\ rewards \in Nat
    BY Zenon, InvParts
  <2>2. SumOver(liquid, Account) \in Nat
    BY Zenon, <1>1, <2>1, SumAccount
  <2> QED
    BY <1>1, <1>2, <1>4, <2>1, <2>2
<1>6. /\ Bank' /\ Worth(totals, totals')
      /\ ToShares(n, totals) \in Nat /\ vesting' = [vesting EXCEPT ![to] = vesting[to] + ToShares(n, totals)]
  BY Zenon, <1>1, <1>2, <1>3, <1>4, <1>5, VestBank
<1>7. Lending' /\ Routing' /\ Withdrawing' /\ Clock'
  BY Zenon, <1>2, <1>3, KeepLending, KeepRouting, KeepWithdrawing DEF Clock, lent
<1>8. Backed'
  BY <1>1, <1>2, <1>6, InvParts DEF Backed, lent
<1> QED
  BY Zenon, <1>6, <1>7, <1>8 DEF After, VInv

LEMMA StopGood ==
    ASSUME VInv, NEW a \in Account, StopWithdrawal(a)
    PROVE  After
<1>1. /\ power' = [power EXCEPT ![a] = Idle] /\ UNCHANGED <<now, phase>> /\ a # Null
      /\ UNCHANGED <<created, vesting, money, lent, routing>>
  BY Zenon DEF StopWithdrawal, Operation, Signs
<1>2. Clock /\ Bank /\ Lending /\ Withdrawing /\ Routing /\ Backed
  BY Zenon DEF VInv
<1>3. Bank' /\ Worth(totals, totals') /\ Lending' /\ Routing' /\ Clock'
  BY Zenon, <1>1, <1>2, KeepBank, KeepLending, KeepRouting DEF Clock
<1>4. Withdrawing'
  <2>1. Idle \in Power /\ Null \in Account
    BY Zenon, IdleSteady, AccountFacts DEF Steady
  <2> QED
    BY Zenon, <1>1, <1>2, <2>1, IdleSteady DEF Withdrawing, lent
<1>5. Backed'
  BY <1>1, InvParts, IdleSteady DEF Backed, lent
<1> QED
  BY Zenon, <1>3, <1>4, <1>5 DEF After, VInv

LEMMA WithdrawGood ==
    ASSUME VInv, NEW a \in Account, NEW n \in Shares, WithdrawVesting(a, n)
    PROVE  After
<1> DEFINE p == [rate |-> WithdrawRate(n), next |-> now + Interval, total |-> n, done |-> 0]
<1>1. /\ power' = [power EXCEPT ![a] = p] /\ UNCHANGED <<now, phase>> /\ a # Null
      /\ n > 0 /\ n <= vesting[a] - delegated[a]
      /\ UNCHANGED <<created, vesting, money, lent, routing>>
  BY Zenon DEF WithdrawVesting, Operation, Signs, Having
<1>2. Clock /\ Bank /\ Lending /\ Withdrawing /\ Routing /\ Backed
  BY Zenon DEF VInv
<1>3. Bank' /\ Worth(totals, totals') /\ Lending' /\ Routing' /\ Clock'
  BY Zenon, <1>1, <1>2, KeepBank, KeepLending, KeepRouting DEF Clock
<1>4. Steady(p) /\ p \in Power /\ p.total = n /\ p.done = 0
  <2>1. n \in Nat /\ Intervals \in Nat \ {0} /\ Interval \in Nat /\ now \in Nat
    BY <1>2, ShareAssumption DEF Clock
  <2>2. n \div Intervals \in Nat
    BY Zenon, <2>1, DivFacts
  <2>3. WithdrawRate(n) \in Nat \ {0}
    BY <2>2 DEF WithdrawRate
  <2>4. p \in Power /\ p.total = n /\ p.done = 0 /\ p.rate = WithdrawRate(n)
    BY <2>1, <2>3 DEF Power
  <2>5. 0 = 0 * WithdrawRate(n) /\ 0 \in Nat
    BY <2>3
  <2>6. p.rate > 0 /\ p.done <= p.total
    BY <2>1, <2>3, <2>4
  <2> HIDE DEF p
  <2> QED
    BY Zenon, <2>4, <2>5, <2>6 DEF Steady
<1> HIDE DEF p
<1>5. Withdrawing'
  BY Zenon, <1>1, <1>2, <1>4, AccountFacts DEF Withdrawing, lent
<1>6. Backed'
  <2>1. n \in Nat
    BY Zenon, ShareAssumption
  <2> QED
    BY <1>1, <1>4, <2>1, InvParts DEF Backed, lent
<1> QED
  BY Zenon, <1>3, <1>5, <1>6 DEF After, VInv

LEMMA RouteGood ==
    ASSUME VInv, NEW q \in RoutePairs, NEW n \in Percents \cup {0}, NEW auto \in BOOLEAN,
           SetWithdrawVestingRoute(q[1], q[2], n, auto)
    PROVE  After
<1> DEFINE from == q[1]
           to == q[2]
<1>1. from \in Account /\ to \in Account /\ n \in Nat
  BY AccountAssumption, ShareAssumption
<1>2. /\ percent[from][to] = 0 => n # 0
      /\ percent' = [percent EXCEPT ![from][to] = n]
      /\ autoVest' = [autoVest EXCEPT ![from][to] = auto /\ n # 0]
      /\ routes' = [routes EXCEPT ![from] = RouteCount(from, to, n)]
      /\ SumOver(percent'[from], Account) <= FullPercent
      /\ UNCHANGED <<now, phase>> /\ UNCHANGED <<created, vesting, money, lent, power>>
  BY Zenon DEF SetWithdrawVestingRoute, Operation
<1>3. Clock /\ Bank /\ Lending /\ Withdrawing /\ Routing /\ Backed
  BY Zenon DEF VInv
<1> HIDE DEF from, to
<1>4. Bank' /\ Worth(totals, totals') /\ Lending' /\ Withdrawing' /\ Clock'
  BY Zenon, <1>2, <1>3, KeepBank, KeepLending, KeepWithdrawing DEF Clock, lent
<1>5. Routing'
  <2> DEFINE p2 == percent'
             au2 == autoVest'
             c2 == routes'
             b == auto /\ n # 0
  <2>1. /\ PutIn(p2, percent, from, to, n) /\ PutIn(au2, autoVest, from, to, b) /\ b \in BOOLEAN
        /\ Moved(c2, routes, percent, from, to, n)
        /\ SumOver(p2[from], Account) <= FullPercent
    BY Zenon, <1>2 DEF PutIn, Moved, RouteCount
  <2> HIDE DEF p2, au2, c2, b
  <2>2. RoutingOk(percent, autoVest, routes)
    BY Zenon, <1>3 DEF Routing
  <2>3. RoutingOk(p2, au2, c2)
    BY Zenon, <1>1, <1>2, <2>1, <2>2, RouteMove
  <2> QED
    BY Zenon, <2>3 DEF Routing, p2, au2, c2
<1>6. Backed'
  BY Zenon, <1>2, <1>3 DEF Backed, lent
<1> QED
  BY Zenon, <1>4, <1>5, <1>6 DEF After, VInv

\* What is taken back from t returns to f at the time x.
LEMMA TakeBack ==
    ASSUME NEW d, NEW r, NEW g, NEW q, LendOk(d, r, g, q), NEW f \in Account, NEW t \in Account,
           NEW x \in Time, NEW n \in Nat, n <= g[f][t],
           NEW g2, PutIn(g2, g, f, t, n), NEW r2, PutAt(r2, r, t, r[t] - (g[f][t] - n)),
           NEW q2, PutIn(q2, q, f, x, q[f][x] + (g[f][t] - n))
    PROVE  LendOk(d, r2, g2, q2)
<1> DEFINE k == g[f][t] - n
           d1 == [d EXCEPT ![f] = d[f] + (n - g[f][t])]
           m == q[f][x] + k
<1>1. /\ d \in [Account -> Nat] /\ r \in [Account -> Nat] /\ d[f] \in Nat /\ r[t] \in Nat
      /\ g[f][t] \in Nat /\ q[f][x] \in Nat
  BY Zenon DEF LendOk
<1>2. PutAt(d1, d, f, d[f] + (n - g[f][t])) /\ PutAt(r2, r, t, r[t] + (n - g[f][t]))
  <2>1. r[t] - (g[f][t] - n) = r[t] + (n - g[f][t])
    BY <1>1
  <2> QED
    BY Zenon, <2>1 DEF PutAt
<1>3. d1[f] = d[f] + (n - g[f][t]) /\ d1 = [a \in Account |-> IF a = f THEN d1[f] ELSE d[a]]
  BY Zenon, <1>1
<1> HIDE DEF d1
<1>4. LendOk(d1, r2, g2, q)
  BY Zenon, <1>2, LendMove
<1>5. m \in Nat /\ PutIn(q2, q, f, x, m) /\ d1[f] + (m - q[f][x]) = d[f]
  BY <1>1, <1>3
<1>6. PutAt(d, d1, f, d1[f] + (m - q[f][x]))
  <2>1. d = [d1 EXCEPT ![f] = d[f]]
    BY Zenon, <1>1, <1>3
  <2> QED
    BY Zenon, <1>5, <2>1 DEF PutAt
<1> HIDE DEF m
<1> QED
  BY Zenon, <1>4, <1>5, <1>6, ReturnMove

LEMMA ReturnTime ==
    ASSUME VInv, NEW f \in Account, NEW t \in Account
    PROVE  Later(now + CashoutWindow, minTime[f][t]) \in Time
<1>1. /\ now \in 0..MaxTime /\ minTime[f][t] \in 0..(MaxTime + DelegationTime)
      /\ MaxTime \in Nat /\ CashoutWindow \in Nat /\ DelegationTime \in Nat
  BY Zenon, ShareAssumption DEF VInv, Clock, Lending
<1> QED
  BY <1>1 DEF Later, Time

LEMMA DelegateMoreGood ==
    ASSUME VInv, NEW p \in LendPairs, NEW n \in Shares, DelegateMore(p[1], p[2], n)
    PROVE  After
<1> DEFINE from == p[1]
           to == p[2]
           delta == n - delegation[from][to]
<1>1. from \in Account /\ to \in Account /\ n \in Nat
  BY Zenon, AccountAssumption, ShareAssumption
<1>2. /\ from # Null /\ to \in created /\ delta > 0
      /\ delta <= vesting[from] - delegated[from] - (power[from].total - power[from].done)
      /\ delegated' = [delegated EXCEPT ![from] = delegated[from] + delta]
      /\ received' = [received EXCEPT ![to] = received[to] + delta]
      /\ delegation' = [delegation EXCEPT ![from][to] = n]
      /\ minTime' = IF delegation[from][to] = 0 THEN [minTime EXCEPT ![from][to] = now] ELSE minTime
      /\ UNCHANGED <<now, phase>> /\ UNCHANGED <<created, vesting, money, returning, power, routing>>
  BY Zenon DEF DelegateMore, Operation, Signs, Available
<1>3. Clock /\ Bank /\ Lending /\ Withdrawing /\ Routing /\ Backed
  BY Zenon DEF VInv
<1> HIDE DEF from, to
<1>4. Bank' /\ Worth(totals, totals') /\ Routing' /\ Clock'
  BY Zenon, <1>2, <1>3, KeepBank, KeepRouting DEF Clock
<1>5. LendOk(delegated', received', delegation', returning')
  <2> DEFINE d2 == delegated'
             r2 == received'
             g2 == delegation'
  <2>1. /\ LendOk(delegated, received, delegation, returning)
        /\ PutIn(g2, delegation, from, to, n)
        /\ PutAt(d2, delegated, from, delegated[from] + (n - delegation[from][to]))
        /\ PutAt(r2, received, to, received[to] + (n - delegation[from][to]))
    BY Zenon, <1>2, <1>3 DEF Lending, PutAt, PutIn
  <2> HIDE DEF d2, r2, g2
  <2>2. LendOk(d2, r2, g2, returning)
    BY Zenon, <1>1, <2>1, LendMove
  <2> QED
    BY Zenon, <1>2, <2>2 DEF d2, r2, g2
<1>6. minTime' \in [Account -> [Account -> 0..(MaxTime + DelegationTime)]]
  <2>1. now \in 0..(MaxTime + DelegationTime)
    BY <1>3, ShareAssumption DEF Clock
  <2> QED
    BY Zenon, <1>1, <1>2, <1>3, <2>1 DEF Lending
<1>7. \A a \in Account \ created' : received'[a] = 0
  BY Zenon, <1>1, <1>2, <1>3, InvParts DEF Lending
<1>8. Lending'
  BY Zenon, <1>2, <1>3, <1>5, <1>6, <1>7 DEF Lending
<1>9. Withdrawing'
  BY Zenon, <1>1, <1>2, <1>3, AccountFacts, InvParts DEF Withdrawing
<1>10. Backed'
  <2>1. delegation[from][to] \in Nat
    BY <1>1, InvParts
  <2> QED
    BY <1>1, <1>2, <2>1, InvParts DEF Backed
<1> QED
  BY Zenon, <1>4, <1>8, <1>9, <1>10 DEF After, VInv

\* A delegation that shrinks to n: DelegateLess, and RejectVestingSharesDelegation to 0.
LEMMA ShrinkGood ==
    ASSUME VInv, NEW from \in Account, NEW to \in Account, NEW n \in Nat, n < delegation[from][to],
           returning' = Returns(from, to, delegation[from][to] - n),
           received' = [received EXCEPT ![to] = received[to] - (delegation[from][to] - n)],
           delegation' = [delegation EXCEPT ![from][to] = n],
           minTime' = IF n = 0 THEN [minTime EXCEPT ![from][to] = 0] ELSE minTime,
           UNCHANGED <<now, phase>>, UNCHANGED <<created, vesting, money, delegated, power, routing>>
    PROVE  After
<1> DEFINE x == Later(now + CashoutWindow, minTime[from][to])
<1>1. Clock /\ Bank /\ Lending /\ Withdrawing /\ Routing /\ Backed
  BY Zenon DEF VInv
<1>2. Bank' /\ Worth(totals, totals') /\ Routing' /\ Clock' /\ Withdrawing' /\ Backed'
  BY Zenon, <1>1, KeepBank, KeepRouting, KeepWithdrawing DEF Clock, Backed
<1>3. x \in Time /\ returning' = [returning EXCEPT ![from][x] = returning[from][x] + (delegation[from][to] - n)]
  BY Zenon, ReturnTime DEF Returns
<1> HIDE DEF x
<1>4. /\ LendOk(delegated, received, delegation, returning) /\ delegation[from][to] \in Nat
      /\ delegation[from][to] <= received[to] /\ received \in [Account -> Nat]
  BY Zenon, <1>1, LendParts, InvParts DEF Lending
<1>5. LendOk(delegated', received', delegation', returning')
  <2> DEFINE r2 == received'
             g2 == delegation'
             q2 == returning'
  <2>0. n <= delegation[from][to]
    BY <1>4
  <2>1. /\ PutIn(g2, delegation, from, to, n)
        /\ PutAt(r2, received, to, received[to] - (delegation[from][to] - n))
        /\ PutIn(q2, returning, from, x, returning[from][x] + (delegation[from][to] - n))
    BY Zenon, <1>3 DEF PutAt, PutIn
  <2> HIDE DEF r2, g2, q2
  <2>2. LendOk(delegated, r2, g2, q2)
    BY Zenon, <1>3, <1>4, <2>0, <2>1, TakeBack
  <2> QED
    BY Zenon, <2>2 DEF r2, g2, q2
<1>6. minTime' \in [Account -> [Account -> 0..(MaxTime + DelegationTime)]]
  <2>1. 0 \in 0..(MaxTime + DelegationTime)
    BY ShareAssumption
  <2> QED
    BY Zenon, <1>1, <2>1 DEF Lending
<1>7. \A a \in Account \ created' : received'[a] = 0
  BY <1>1, <1>4 DEF Lending
<1>8. Lending'
  BY Zenon, <1>1, <1>5, <1>6, <1>7 DEF Lending
<1> QED
  BY Zenon, <1>2, <1>8 DEF After, VInv

LEMMA DelegateLessGood ==
    ASSUME VInv, NEW p \in LendPairs, NEW n \in Shares, DelegateLess(p[1], p[2], n)
    PROVE  After
<1> DEFINE from == p[1]
           to == p[2]
<1>1. from \in Account /\ to \in Account /\ n \in Nat
  BY Zenon, AccountAssumption, ShareAssumption
<1>2. delegation[from][to] \in Nat
  BY <1>1, InvParts
<1>3. n < delegation[from][to]
  BY <1>1, <1>2 DEF DelegateLess
<1>4. /\ returning' = Returns(from, to, delegation[from][to] - n)
      /\ received' = [received EXCEPT ![to] = received[to] - (delegation[from][to] - n)]
      /\ delegation' = [delegation EXCEPT ![from][to] = n]
      /\ minTime' = IF n = 0 THEN [minTime EXCEPT ![from][to] = 0] ELSE minTime
      /\ UNCHANGED <<now, phase>> /\ UNCHANGED <<created, vesting, money, delegated, power, routing>>
  BY Zenon DEF DelegateLess, Operation
<1> HIDE DEF from, to
<1> QED
  BY Zenon, <1>1, <1>3, <1>4, ShrinkGood

LEMMA RejectGood ==
    ASSUME VInv, NEW p \in LendPairs, RejectVestingSharesDelegation(p[1], p[2])
    PROVE  After
<1> DEFINE from == p[1]
           to == p[2]
<1>1. from \in Account /\ to \in Account
  BY Zenon, AccountAssumption
<1>2. delegation[from][to] \in Nat /\ delegation[from][to] - 0 = delegation[from][to] /\ 0 \in Nat
  BY <1>1, InvParts
<1>3. 0 < delegation[from][to]
  BY Zenon, <1>1, <1>2 DEF RejectVestingSharesDelegation
<1>4. /\ returning' = Returns(from, to, delegation[from][to] - 0)
      /\ received' = [received EXCEPT ![to] = received[to] - (delegation[from][to] - 0)]
      /\ delegation' = [delegation EXCEPT ![from][to] = 0]
      /\ minTime' = IF 0 = 0 THEN [minTime EXCEPT ![from][to] = 0] ELSE minTime
      /\ UNCHANGED <<now, phase>> /\ UNCHANGED <<created, vesting, money, delegated, power, routing>>
  BY Zenon, <1>2 DEF RejectVestingSharesDelegation, Operation
<1> DEFINE z == 0
<1>5. /\ returning' = Returns(from, to, delegation[from][to] - z)
      /\ received' = [received EXCEPT ![to] = received[to] - (delegation[from][to] - z)]
      /\ delegation' = [delegation EXCEPT ![from][to] = z]
      /\ minTime' = IF z = 0 THEN [minTime EXCEPT ![from][to] = 0] ELSE minTime
      /\ z \in Nat /\ z < delegation[from][to]
  BY Zenon, <1>2, <1>3, <1>4
<1> HIDE DEF from, to, z
<1> QED
  BY Zenon, <1>1, <1>4, <1>5, ShrinkGood

LEMMA CreateGood ==
    ASSUME VInv, NEW p \in LendPairs, NEW fee \in Tokens, NEW n \in Shares,
           AccountCreateWithDelegation(p[1], p[2], fee, n)
    PROVE  After
<1> DEFINE from == p[1]
           to == p[2]
<1>1. from \in Account /\ to \in Account /\ n \in Nat /\ fee \in Nat \ {0}
  BY Zenon, AccountAssumption, ShareAssumption
<1>2. /\ from \in created /\ from # Null /\ to \notin created /\ fee <= liquid[from]
      /\ n <= vesting[from] - delegated[from] - (power[from].total - power[from].done)
      /\ created' = created \cup {to}
      /\ liquid' = [liquid EXCEPT ![from] = liquid[from] - fee]
      /\ delegated' = [delegated EXCEPT ![from] = delegated[from] + n]
      /\ received' = [received EXCEPT ![to] = n]
      /\ delegation' = [delegation EXCEPT ![from][to] = n]
      /\ minTime' = [minTime EXCEPT ![from][to] = IF n > 0 THEN now + DelegationTime ELSE 0]
      /\ CreateVesting(to, fee)
      /\ UNCHANGED <<now, phase>> /\ UNCHANGED <<rewards, burnt, returning, power, routing>>
  BY Zenon DEF AccountCreateWithDelegation, Operation, Signs, Available
<1>3. Clock /\ Bank /\ Lending /\ Withdrawing /\ Routing /\ Backed
  BY Zenon DEF VInv
<1> HIDE DEF from, to
<1>4. liquid' \in [Account -> Nat] /\ SumOver(liquid', Account) = SumOver(liquid, Account) - fee
  <2>1. liquid \in [Account -> Nat]
    BY Zenon, InvParts
  <2> DEFINE l2 == liquid'
  <2>2. l2 = [liquid EXCEPT ![from] = liquid[from] - fee]
    BY Zenon, <1>2
  <2> HIDE DEF l2
  <2>3. l2 \in [Account -> Nat] /\ SumOver(l2, Account) = SumOver(liquid, Account) - fee
    BY Zenon, <1>1, <1>2, <2>1, <2>2, SpendSum
  <2> QED
    BY Zenon, <2>3 DEF l2
<1>5. rewards' \in Nat /\ burnt' = burnt /\ SumOver(liquid', Account) + rewards' = (SumOver(liquid, Account) + rewards) - fee
  <2>1. liquid \in [Account -> Nat] /\ rewards \in Nat
    BY Zenon, InvParts
  <2>2. SumOver(liquid, Account) \in Nat
    BY Zenon, <1>1, <2>1, SumAccount
  <2> QED
    BY <1>1, <1>2, <1>4, <2>1, <2>2
<1>6. /\ Bank' /\ Worth(totals, totals')
      /\ ToShares(fee, totals) \in Nat /\ vesting' = [vesting EXCEPT ![to] = vesting[to] + ToShares(fee, totals)]
  BY Zenon, <1>1, <1>2, <1>3, <1>4, <1>5, VestBank
<1>7. Routing' /\ Clock'
  BY Zenon, <1>2, <1>3, KeepRouting DEF Clock
<1>8. received[to] = 0 /\ delegation[from][to] = 0
  <2>1. received[to] = 0
    BY Zenon, <1>1, <1>2, <1>3 DEF Lending
  <2>2. delegation[from][to] \in Nat /\ delegation[from][to] <= received[to]
    BY Zenon, <1>1, <1>3, LendParts DEF Lending
  <2> QED
    BY Zenon, <2>1, <2>2, NoneLeft
<1>9. LendOk(delegated', received', delegation', returning')
  <2> DEFINE d2 == delegated'
             r2 == received'
             g2 == delegation'
  <2>1. n - delegation[from][to] = n /\ received[to] + (n - delegation[from][to]) = n
    BY <1>1, <1>8
  <2>2. /\ LendOk(delegated, received, delegation, returning)
        /\ PutIn(g2, delegation, from, to, n)
        /\ PutAt(d2, delegated, from, delegated[from] + (n - delegation[from][to]))
        /\ PutAt(r2, received, to, received[to] + (n - delegation[from][to]))
    BY Zenon, <1>2, <1>3, <2>1 DEF Lending, PutAt, PutIn
  <2> HIDE DEF d2, r2, g2
  <2>3. LendOk(d2, r2, g2, returning)
    BY Zenon, <1>1, <2>2, LendMove
  <2> QED
    BY Zenon, <1>2, <2>3 DEF d2, r2, g2
<1>10. minTime' \in [Account -> [Account -> 0..(MaxTime + DelegationTime)]]
  <2>1. (IF n > 0 THEN now + DelegationTime ELSE 0) \in 0..(MaxTime + DelegationTime)
    BY <1>3, ShareAssumption DEF Clock
  <2> QED
    BY Zenon, <1>1, <1>2, <1>3, <2>1 DEF Lending
<1>11. \A a \in Account \ created' : received'[a] = 0
  BY Zenon, <1>1, <1>2, <1>3, InvParts DEF Lending
<1>12. Lending'
  BY Zenon, <1>1, <1>2, <1>3, <1>9, <1>10, <1>11 DEF Lending
<1>13. Withdrawing'
  BY Zenon, <1>1, <1>2, <1>3, AccountFacts, InvParts DEF Withdrawing
<1>14. Backed'
  BY <1>1, <1>2, <1>6, InvParts DEF Backed
<1> QED
  BY Zenon, <1>6, <1>7, <1>12, <1>13, <1>14 DEF After, VInv

LEMMA ExpireGood ==
    ASSUME VInv, NEW a \in Account, NEW t \in Time, ExpireDelegation(a, t)
    PROVE  After
<1>1. /\ delegated' = [delegated EXCEPT ![a] = delegated[a] - returning[a][t]]
      /\ returning' = [returning EXCEPT ![a][t] = 0]
      /\ returning[a][t] > 0
      /\ UNCHANGED <<now, phase, created, vesting, money, received, delegation, minTime, power, routing>>
  BY Zenon DEF ExpireDelegation
<1>2. Clock /\ Bank /\ Lending /\ Withdrawing /\ Routing /\ Backed
  BY Zenon DEF VInv
<1>3. Bank' /\ Worth(totals, totals') /\ Routing' /\ Clock'
  BY Zenon, <1>1, <1>2, KeepBank, KeepRouting DEF Clock
<1>4. LendOk(delegated, received, delegation, returning)
  BY Zenon, <1>2 DEF Lending
<1>5. returning[a][t] \in Nat /\ returning[a][t] <= delegated[a]
  BY Zenon, <1>4, LendParts
<1>6. LendOk(delegated', received', delegation', returning')
  <2> DEFINE d2 == delegated'
             q2 == returning'
             z == 0
  <2>1. delegated[a] - returning[a][t] = delegated[a] + (z - returning[a][t]) /\ z \in Nat
    BY <1>5, InvParts
  <2>2. PutIn(q2, returning, a, t, z) /\ PutAt(d2, delegated, a, delegated[a] + (z - returning[a][t]))
    BY Zenon, <1>1, <2>1 DEF PutIn, PutAt
  <2> HIDE DEF d2, q2, z
  <2>3. LendOk(d2, received, delegation, q2)
    BY Zenon, <1>4, <2>1, <2>2, ReturnMove
  <2> QED
    BY Zenon, <1>1, <2>3 DEF d2, q2
<1>7. Lending'
  BY Zenon, <1>1, <1>2, <1>6 DEF Lending
<1>8. Withdrawing'
  <2>1. a # Null
    <3> SUFFICES ASSUME a = Null PROVE FALSE
      BY Zenon
    <3>1. delegated[a] = 0
      BY Zenon, <1>2 DEF Withdrawing
    <3>2. returning[a][t] = 0
      BY Zenon, <1>5, <3>1, NoneLeft
    <3> QED
      BY <1>1, <3>2
  <2> QED
    BY Zenon, <1>1, <1>2, <2>1, AccountFacts, InvParts DEF Withdrawing
<1>9. Backed'
  BY <1>1, <1>5, InvParts DEF Backed
<1> QED
  BY Zenon, <1>3, <1>7, <1>8, <1>9 DEF After, VInv

LEMMA ClearGood ==
    ASSUME VInv, ClearNullAccountBalance
    PROVE  After
<1> DEFINE x == ToTokens(vesting[Null], totals)
<1>1. /\ phase' = "cashout"
      /\ totals' = [fund |-> totals.fund - x, shares |-> totals.shares - vesting[Null]]
      /\ burnt' = burnt + x + liquid[Null]
      /\ vesting' = [vesting EXCEPT ![Null] = 0]
      /\ liquid' = [liquid EXCEPT ![Null] = 0]
      /\ UNCHANGED <<now, created, rewards, lent, power, routing>>
  BY Zenon DEF ClearNullAccountBalance
<1>2. Clock /\ Bank /\ Lending /\ Withdrawing /\ Routing /\ Backed
  BY Zenon DEF VInv
<1>3. Lending' /\ Routing' /\ Withdrawing' /\ Clock'
  BY Zenon, <1>1, <1>2, KeepLending, KeepRouting, KeepWithdrawing DEF Clock, lent
<1>4. Bank' /\ Worth(totals, totals')
  <2> DEFINE v2 == vesting'
             t2 == totals'
             l2 == liquid'
             b2 == burnt'
  <2>1. /\ BankOk(vesting, totals, liquid, rewards, burnt)
        /\ t2 = [fund |-> totals.fund - x, shares |-> totals.shares - vesting[Null]]
        /\ b2 = burnt + x + liquid[Null]
        /\ PutAt(v2, vesting, Null, 0) /\ PutAt(l2, liquid, Null, 0)
        /\ x = ToTokens(vesting[Null], totals)
    BY Zenon, <1>1, <1>2 DEF Bank, PutAt
  <2> HIDE DEF v2, t2, l2, b2, x
  <2>2. BankOk(v2, t2, l2, rewards, b2) /\ Worth(totals, t2)
    BY <2>1, BankBurn
  <2> QED
    BY Zenon, <1>1, <2>2 DEF Bank, v2, t2, l2, b2
<1>5. Backed'
  <2>1. Null \in Account /\ delegated[Null] = 0 /\ power[Null] = Idle
    BY Zenon, <1>2, AccountFacts DEF Withdrawing
  <2> QED
    BY <1>1, <2>1, InvParts, IdleSteady DEF Backed, lent
<1> QED
  BY Zenon, <1>3, <1>4, <1>5 DEF After, VInv

LEMMA PayDelegatorGood ==
    ASSUME VInv, NEW p \in LendPairs, NEW n \in Tokens, NEW join \in BOOLEAN, PayDelegator(p[1], p[2], n, join)
    PROVE  After
<1> DEFINE from == p[1]
           to == p[2]
           x == ToShares(n, totals)
           k == IF join /\ delegation[from][to] > 0 THEN x ELSE 0
           m == delegation[from][to] + k
<1>1. from \in Account /\ to \in Account /\ n \in Nat \ {0}
  BY Zenon, AccountAssumption, ShareAssumption
<1>2. /\ n <= rewards /\ to \in created /\ rewards' = rewards - n /\ CreateVesting(from, n)
      /\ delegated' = [delegated EXCEPT ![from] = delegated[from] + k]
      /\ received' = [received EXCEPT ![to] = received[to] + k]
      /\ delegation' = [delegation EXCEPT ![from][to] = delegation[from][to] + k]
      /\ UNCHANGED <<now, phase, created, liquid, burnt, minTime, returning, power, routing>>
  BY Zenon DEF PayDelegator
<1>3. Clock /\ Bank /\ Lending /\ Withdrawing /\ Routing /\ Backed
  BY Zenon DEF VInv
<1> HIDE DEF from, to
<1>4. /\ liquid' \in [Account -> Nat] /\ rewards' \in Nat /\ burnt' = burnt
      /\ SumOver(liquid', Account) + rewards' = (SumOver(liquid, Account) + rewards) - n
  <2>1. liquid \in [Account -> Nat] /\ rewards \in Nat
    BY Zenon, InvParts
  <2>2. SumOver(liquid, Account) \in Nat
    BY Zenon, <1>1, <2>1, SumAccount
  <2> QED
    BY <1>1, <1>2, <2>1, <2>2
<1>5. Bank' /\ Worth(totals, totals') /\ x \in Nat /\ vesting' = [vesting EXCEPT ![from] = vesting[from] + x]
  BY Zenon, <1>1, <1>2, <1>3, <1>4, VestBank
<1>6. Routing' /\ Clock'
  BY Zenon, <1>2, <1>3, KeepRouting DEF Clock
<1>7. /\ LendOk(delegated, received, delegation, returning) /\ delegation[from][to] \in Nat
      /\ delegation[from][to] <= delegated[from]
  BY Zenon, <1>1, <1>3, LendParts DEF Lending
<1> HIDE DEF x
<1>8. k \in Nat /\ m \in Nat /\ m - delegation[from][to] = k /\ k <= x /\ (from = Null => k = 0)
  <2>1. delegated[Null] = 0
    BY Zenon, <1>3 DEF Withdrawing
  <2>2. x \in Nat
    BY Zenon, <1>5
  <2>3. k \in Nat /\ k <= x /\ (k # 0 => delegation[from][to] > 0)
    BY SMT, <2>2
  <2> HIDE DEF k
  <2>4. from = Null => k = 0
    BY SMT, <1>7, <2>1, <2>3
  <2> QED
    BY SMT, <1>7, <2>3, <2>4
<1>9. LendOk(delegated', received', delegation', returning')
  <2> DEFINE d2 == delegated'
             r2 == received'
             g2 == delegation'
  <2>1. /\ PutIn(g2, delegation, from, to, m)
        /\ PutAt(d2, delegated, from, delegated[from] + k)
        /\ PutAt(r2, received, to, received[to] + k)
    BY Zenon, <1>2 DEF PutAt, PutIn
  <2> HIDE DEF d2, r2, g2, k, m
  <2>2. /\ PutAt(d2, delegated, from, delegated[from] + (m - delegation[from][to]))
        /\ PutAt(r2, received, to, received[to] + (m - delegation[from][to]))
    BY Zenon, <1>8, <2>1
  <2>3. LendOk(d2, r2, g2, returning)
    BY Zenon, <1>1, <1>7, <1>8, <2>1, <2>2, LendMove
  <2> QED
    BY Zenon, <1>2, <2>3 DEF d2, r2, g2
<1> HIDE DEF k, m
<1>10. \A a \in Account \ created' : received'[a] = 0
  BY Zenon, <1>1, <1>2, <1>3, InvParts DEF Lending
<1>11. Lending'
  BY Zenon, <1>2, <1>3, <1>9, <1>10 DEF Lending
<1>12. Withdrawing'
  <2>1. /\ power \in [Account -> Power] /\ \A a \in Account : Steady(power[a])
        /\ power[Null] = Idle /\ delegated[Null] = 0
    BY Zenon, <1>3 DEF Withdrawing
  <2>2. delegated'[Null] = 0
    <3>1. delegated \in [Account -> Nat] /\ Null \in Account
      BY Zenon, AccountFacts, InvParts
    <3>2. CASE from = Null
      BY <1>2, <1>8, <2>1, <3>1, <3>2
    <3>3. CASE from # Null
      BY Zenon, <1>2, <2>1, <3>1, <3>3
    <3> QED
      BY Zenon, <3>2, <3>3
  <2> QED
    BY Zenon, <1>2, <2>1, <2>2 DEF Withdrawing
<1>13. Backed'
  BY <1>1, <1>2, <1>5, <1>8, InvParts DEF Backed
<1> QED
  BY Zenon, <1>5, <1>6, <1>11, <1>12, <1>13 DEF After, VInv

LEMMA ProcessGood ==
    ASSUME VInv, NEW a \in Account, ProcessVestingWithdrawal(a)
    PROVE  After
<1> DEFINE n == Payment(a)
           p == power[a]
<1>1. /\ p.next <= now
      /\ vesting' = [x \in Account |-> vesting[x] + KeptVested(a, x, n) - (IF x = a THEN n ELSE 0)]
      /\ totals' = Converted(a, n).totals /\ liquid' = Converted(a, n).liquid
      /\ power' = [power EXCEPT ![a] = Advance(p, n, vesting'[a])]
      /\ UNCHANGED <<now, phase, created, rewards, burnt, lent, routing>>
  BY Zenon DEF ProcessVestingWithdrawal, Due
<1>2. Clock /\ Bank /\ Lending /\ Withdrawing /\ Routing /\ Backed
  BY Zenon DEF VInv
<1>3. Lending' /\ Routing' /\ Clock'
  BY Zenon, <1>1, <1>2, KeepLending, KeepRouting DEF Clock
<1>4. p # Idle
  <2>1. p.next <= now
    BY Zenon, <1>1
  <2>2. now \in 0..MaxTime /\ MaxTime \in Nat
    BY Zenon, <1>2, ShareAssumption DEF Clock
  <2>3. Idle.next = Never /\ Never \in Nat /\ Never > MaxTime
    BY Zenon, IdleSteady
  <2> HIDE DEF p
  <2> QED
    BY SMT, <2>1, <2>2, <2>3
<1>5. Steady(p) /\ vesting[a] \in Nat /\ delegated[a] \in Nat /\ delegated[a] + (p.total - p.done) <= vesting[a]
  BY Zenon, <1>2, InvParts DEF Withdrawing
<1>6. p.total \in Nat /\ p.done \in Nat /\ p.done <= p.total
  BY Zenon, InvParts
<1>7. /\ n \in Nat /\ n <= p.total - p.done
      /\ \A rest : /\ Steady(Advance(p, n, rest))
                   /\ \/ Advance(p, n, rest) = Idle
                      \/ Advance(p, n, rest).total - Advance(p, n, rest).done = (p.total - p.done) - n
  <2>1. p.total - p.done <= vesting[a]
    <3> HIDE DEF p, n
    <3> QED
      BY SMT, <1>5, <1>6
  <2> QED
    BY Zenon, <1>4, <1>5, <2>1, PaymentGood
<1> HIDE DEF n
<1>8. /\ percent[a] \in [Account -> Nat] /\ autoVest[a] \in [Account -> BOOLEAN]
      /\ SumOver(percent[a], Account) <= FullPercent
  BY Zenon, <1>2 DEF Routing, RoutingOk
<1>9. /\ Bank' /\ Worth(totals, totals')
      /\ \A x \in Account : x # a => vesting'[x] >= vesting[x]
      /\ vesting'[a] >= vesting[a] - n
  <2> DEFINE v2 == vesting'
             s == Converted(a, n)
  <2>1. Settled(v2, a, n)
    BY Zenon, <1>1 DEF Settled
  <2>6. n \in Nat /\ n <= p.total - p.done
    BY Zenon, <1>7
  <2>2. BankOk(vesting, totals, liquid, rewards, burnt) /\ n <= vesting[a]
    <3>1. BankOk(vesting, totals, liquid, rewards, burnt)
      BY Zenon, <1>2 DEF Bank
    <3> HIDE DEF p
    <3> QED
      BY SMT, <1>5, <1>6, <2>6, <3>1
  <2> HIDE DEF v2, s, p
  <2>3. s = Converted(a, n)
    BY Zenon DEF s
  <2>4. /\ BankOk(v2, s.totals, s.liquid, rewards, burnt) /\ Worth(totals, s.totals)
        /\ \A x \in Account : x # a => v2[x] >= vesting[x]
        /\ v2[a] >= vesting[a] - n
    BY Zenon, <1>7, <1>8, <2>1, <2>2, <2>3, BankWithdraw
  <2>5. totals' = s.totals /\ liquid' = s.liquid /\ rewards' = rewards /\ burnt' = burnt /\ vesting' = v2
    BY Zenon, <1>1 DEF s, v2
  <2> QED
    BY Zenon, <2>4, <2>5 DEF Bank
<1> DEFINE q == Advance(p, n, vesting'[a])
<1>10. /\ Steady(q) /\ q \in Power /\ q.total \in Nat /\ q.done \in Nat
       /\ q = Idle \/ q.total - q.done = (p.total - p.done) - n
  <2>1. Steady(q) /\ (q = Idle \/ q.total - q.done = (p.total - p.done) - n)
    BY Zenon, <1>7
  <2> HIDE DEF q
  <2> QED
    BY Zenon, <2>1 DEF Steady, Power
<1>11. power' = [power EXCEPT ![a] = q] /\ delegated' = delegated
  BY Zenon, <1>1 DEF lent
<1> HIDE DEF q
<1>12. Withdrawing'
  <2>1. a # Null
    BY Zenon, <1>2, <1>4 DEF Withdrawing
  <2> QED
    BY Zenon, <1>2, <1>10, <1>11, <2>1, AccountFacts DEF Withdrawing
<1>13. Backed'
  <2> SUFFICES ASSUME NEW b \in Account
               PROVE  delegated'[b] + (power'[b].total - power'[b].done) <= vesting'[b]
    BY Zenon DEF Backed
  <2>1. vesting' \in [Account -> Nat]
    BY Zenon, <1>9 DEF Bank, BankOk
  <2>2. vesting'[b] \in Nat /\ vesting[b] \in Nat /\ delegated[b] \in Nat
    BY Zenon, <2>1, InvParts
  <2>3. CASE b # a
    <3>1. power'[b] = power[b]
      BY <1>11, <2>3
    <3>2. delegated[b] + (power[b].total - power[b].done) <= vesting[b] /\ power[b].total \in Nat /\ power[b].done \in Nat
      BY Zenon, InvParts
    <3>3. vesting'[b] >= vesting[b] /\ delegated'[b] = delegated[b]
      BY Zenon, <1>9, <1>11, <2>3
    <3>4. delegated[b] + (power[b].total - power[b].done) <= vesting'[b]
      BY Zenon, <2>2, <3>2, <3>3, NatDifference, CoveredByMore
    <3> QED
      BY Zenon, <3>1, <3>3, <3>4
  <2>4. CASE b = a
    <3>1. power'[b] = q
      BY Zenon, <1>11, <2>4, InvParts
    <3>4. n \in Nat /\ n <= p.total - p.done
      BY Zenon, <1>7
    <3>2. q.total - q.done <= (p.total - p.done) - n
      <4>1. q = Idle => q.total - q.done = 0
        BY Zenon, IdleSteady
      <4> HIDE DEF p
      <4> QED
        BY SMT, <1>6, <1>10, <3>4, <4>1
    <3>3. vesting'[b] >= vesting[b] - n /\ delegated'[b] = delegated[b]
      BY Zenon, <1>9, <1>11, <2>4
    <3>5. delegated[b] + (p.total - p.done) <= vesting[b]
      BY Zenon, <1>5, <2>4
    <3>6. q.total \in Nat /\ q.done \in Nat
      BY Zenon, <1>10
    <3>7. p.total \in Nat /\ p.done \in Nat
      BY Zenon, <1>6
    <3> HIDE DEF p
    <3>8. delegated[b] + (q.total - q.done) <= vesting'[b]
      BY Zenon, <2>2, <3>2, <3>3, <3>4, <3>5, <3>6, <3>7, NatDifference, StillCovered
    <3> QED
      BY Zenon, <3>1, <3>3, <3>8
  <2> QED
    BY Zenon, <2>3, <2>4
<1> QED
  BY Zenon, <1>3, <1>9, <1>12, <1>13 DEF After, VInv

\* The steps from one part of a block's end to the next.
LEMMA PhaseGood ==
    ASSUME VInv, BeginBlock \/ EndCashout \/ EndBlock
    PROVE  After
<1>1. UNCHANGED <<created, vesting, money, lent, power, routing>>
  BY Zenon DEF BeginBlock, EndCashout, EndBlock
<1>2. Clock /\ Bank /\ Lending /\ Withdrawing /\ Routing /\ Backed
  BY Zenon DEF VInv
<1>3. Bank' /\ Worth(totals, totals') /\ Lending' /\ Routing' /\ Withdrawing' /\ Backed'
  BY Zenon, <1>1, <1>2, KeepBank, KeepLending, KeepRouting, KeepWithdrawing DEF lent, Backed
<1>4. Clock'
  <2>1. MaxTime \in Nat
    BY Zenon, ShareAssumption
  <2>2. CASE BeginBlock
    <3>1. now' = now + 1 /\ now < MaxTime /\ phase' = "expire"
      BY Zenon, <2>2 DEF BeginBlock
    <3>2. now + 1 \in 0..MaxTime
      BY Zenon, <1>2, <2>1, <3>1, NextInstant DEF Clock
    <3> QED
      BY Zenon, <3>1, <3>2 DEF Clock
  <2>3. CASE EndCashout
    BY Zenon, <1>2, <2>3 DEF Clock, EndCashout
  <2>4. CASE EndBlock
    BY Zenon, <1>2, <2>4 DEF Clock, EndBlock
  <2> QED
    BY Zenon, <2>2, <2>3, <2>4
<1> QED
  BY Zenon, <1>3, <1>4 DEF After, VInv

LEMMA IdleStep ==
    ASSUME VInv, UNCHANGED vars
    PROVE  After
<1>1. UNCHANGED <<now, phase>> /\ UNCHANGED <<created, vesting, money, lent, power, routing>>
  BY Zenon DEF vars
<1>2. Clock /\ Bank /\ Lending /\ Withdrawing /\ Routing /\ Backed
  BY Zenon DEF VInv
<1>3. Bank' /\ Worth(totals, totals') /\ Lending' /\ Routing' /\ Withdrawing' /\ Backed' /\ Clock'
  BY Zenon, <1>1, <1>2, KeepBank, KeepLending, KeepRouting, KeepWithdrawing DEF lent, Backed, Clock
<1> QED
  BY Zenon, <1>3 DEF After, VInv

LEMMA VestingNext ==
    ASSUME VInv, [Next]_vars
    PROVE  After
<1>1. ASSUME NEW p \in VestPairs, NEW n \in Tokens, TransferToVesting(p[1], p[2], n) PROVE After
  BY Zenon, <1>1, TransferGood
<1>2. ASSUME NEW a \in Account, StopWithdrawal(a) PROVE After
  BY Zenon, <1>2, StopGood
<1>3. ASSUME NEW a \in Account, NEW n \in Shares, WithdrawVesting(a, n) PROVE After
  BY Zenon, <1>3, WithdrawGood
<1>4. ASSUME NEW p \in RoutePairs, NEW n \in Percents \cup {0}, NEW auto \in BOOLEAN,
             SetWithdrawVestingRoute(p[1], p[2], n, auto)
      PROVE  After
  BY Zenon, <1>4, RouteGood
<1>5. ASSUME NEW p \in LendPairs, NEW n \in Shares, DelegateMore(p[1], p[2], n) PROVE After
  BY Zenon, <1>5, DelegateMoreGood
<1>6. ASSUME NEW p \in LendPairs, NEW n \in Shares, DelegateLess(p[1], p[2], n) PROVE After
  BY Zenon, <1>6, DelegateLessGood
<1>7. ASSUME NEW p \in LendPairs, RejectVestingSharesDelegation(p[1], p[2]) PROVE After
  BY Zenon, <1>7, RejectGood
<1>8. ASSUME NEW p \in LendPairs, NEW fee \in Tokens, NEW n \in Shares,
             AccountCreateWithDelegation(p[1], p[2], fee, n)
      PROVE  After
  BY Zenon, <1>8, CreateGood
<1>9. ASSUME NEW a \in Account, NEW t \in Time, ExpireDelegation(a, t) PROVE After
  BY Zenon, <1>9, ExpireGood
<1>10. ASSUME NEW p \in LendPairs, NEW n \in Tokens, NEW join \in BOOLEAN, PayDelegator(p[1], p[2], n, join)
       PROVE  After
  BY Zenon, <1>10, PayDelegatorGood
<1>11. ASSUME NEW a \in Account, ProcessVestingWithdrawal(a) PROVE After
  BY Zenon, <1>11, ProcessGood
<1>12. CASE BeginBlock \/ EndCashout \/ EndBlock
  BY Zenon, <1>12, PhaseGood
<1>13. CASE ClearNullAccountBalance
  BY Zenon, <1>13, ClearGood
<1>14. CASE UNCHANGED vars
  BY Zenon, <1>14, IdleStep
<1> QED
  BY Zenon, <1>1, <1>2, <1>3, <1>4, <1>5, <1>6, <1>7, <1>8, <1>9, <1>10, <1>11, <1>12, <1>13, <1>14 DEF Next

LEMMA SumZero ==
    ASSUME NEW S, IsFiniteSet(S), NEW f, f = [x \in S |-> 0]
    PROVE  SumOver(f, S) = 0
<1>1. ConstOn(f, 0, S) /\ 0 \in Int
  BY DEF ConstOn
<1>2. SumOver(f, S) = 0 * Cardinality(S)
  BY Zenon, <1>1, SumSteady
<1>3. Cardinality(S) \in Nat
  BY Zenon, CardinalityNat
<1> QED
  BY <1>2, <1>3

LEMMA VestingInit ==
    ASSUME Init
    PROVE  VInv
<1> DEFINE zero == [b \in Account |-> 0]
           zeros == [t \in Time |-> 0]
<1>1. SumOver(zero, Account) = 0 /\ SumOver(zeros, Time) = 0
  BY Zenon, AccountFacts, TimeFinite, SumZero
<1>2. Clock
  <2>1. now = 0 /\ phase = "operations"
    BY Zenon DEF Init
  <2> QED
    BY <2>1, ShareAssumption DEF Clock
<1>3. Bank
  <2>1. SumOver(OpeningShares, Account) \in Nat /\ SumOver(OpeningLiquid, Account) \in Nat
    BY Zenon, ShareAssumption, AccountFacts, SumNat
  <2>2. OpeningFund \in Nat /\ OpeningRewards \in Nat
    BY Zenon, ShareAssumption
  <2>3. OpeningFund = 0 => SumOver(OpeningShares, Account) = 0
    BY Zenon, <1>1, OpeningAssumption
  <2>4. totals \in Fund /\ Priced(totals) /\ totals.fund = OpeningFund /\ totals.shares = SumOver(OpeningShares, Account)
    BY Zenon, <2>1, <2>2, <2>3 DEF Init, Fund, Priced
  <2>5. SumOver(liquid, Account) + totals.fund + rewards + burnt = Start
    BY <2>1, <2>2, <2>4 DEF Init, Start
  <2> QED
    BY Zenon, <2>4, <2>5, ShareAssumption DEF Init, Bank, BankOk
<1>4. Lending
  <2>1. \A a \in Account : delegation[a] = zero /\ returning[a] = zeros /\ Column(delegation, a) = zero
    BY Zenon DEF Init, Column
  <2>2. /\ delegated \in [Account -> Nat] /\ received \in [Account -> Nat]
        /\ delegation \in [Account -> [Account -> Nat]] /\ returning \in [Account -> [Time -> Nat]]
        /\ \A a \in Account : delegated[a] = 0 /\ received[a] = 0
    BY Zenon DEF Init
  <2>3. LendOk(delegated, received, delegation, returning)
    <3> HIDE DEF zero, zeros
    <3> QED
      BY <1>1, <2>1, <2>2 DEF LendOk
  <2>4. 0 \in 0..(MaxTime + DelegationTime)
    BY ShareAssumption
  <2>5. minTime \in [Account -> [Account -> 0..(MaxTime + DelegationTime)]] /\ created \subseteq Account
    BY Zenon, <2>4, AccountAssumption DEF Init
  <2> QED
    BY Zenon, <2>2, <2>3, <2>5 DEF Lending
<1>5. Withdrawing /\ Backed
  <2>1. Idle \in Power /\ Steady(Idle) /\ Idle.total - Idle.done = 0 /\ Null \in Account
    BY Zenon, IdleSteady, AccountFacts DEF Steady
  <2>2. power = [a \in Account |-> Idle] /\ delegated = [a \in Account |-> 0] /\ vesting \in [Account -> Nat]
    BY Zenon, ShareAssumption DEF Init
  <2> QED
    BY <2>1, <2>2 DEF Withdrawing, Backed
<1>6. Routing
  <2>1. \A a \in Account : percent[a] = zero /\ InUse(percent[a]) = zero
    BY Zenon DEF Init, InUse
  <2>2. /\ percent \in [Account -> [Account -> Nat]] /\ autoVest \in [Account -> [Account -> BOOLEAN]]
        /\ routes \in [Account -> Nat] /\ \A a \in Account : routes[a] = 0
    BY Zenon DEF Init
  <2>3. 0 <= FullPercent
    BY ShareAssumption
  <2> HIDE DEF zero
  <2> QED
    BY Zenon, <1>1, <2>1, <2>2, <2>3 DEF Routing, RoutingOk
<1> QED
  BY Zenon, <1>2, <1>3, <1>4, <1>5, <1>6 DEF VInv

LEMMA VestingInductive == Spec => []VInv
<1>1. Init => VInv
  BY Zenon, VestingInit
<1>2. VInv /\ [Next]_vars => VInv'
  BY VestingNext DEF After
<1> QED
  BY <1>1, <1>2, PTL DEF Spec

-----------------------------------------------------------------------------
\* Whatever delegations, powerdowns, rewards, returns and payments interleave, the
\* shares of every account cover what it delegates and what it still withdraws.
THEOREM SharesBacked == Spec => []Backed
<1>1. VInv => Backed
  BY DEF VInv
<1> QED
  BY <1>1, VestingInductive, PTL

\* delegated_vesting_shares and received_vesting_shares are the sums of the delegations
\* and of the returns under way, for any number of accounts and any times.
THEOREM CountersMatch == Spec => []DelegationsMatch
<1>1. VInv => DelegationsMatch
  BY DEF VInv, Lending, LendOk, DelegationsMatch, Column
<1> QED
  BY <1>1, VestingInductive, PTL

\* total_vesting_shares is the sum of all shares, and no step makes or loses a token,
\* along any number of routes and however the conversions round.
THEOREM FundMatching == Spec => []FundMatches
<1>1. VInv => FundMatches
  BY Zenon DEF VInv, Bank, BankOk, FundMatches, Start
<1> QED
  BY <1>1, VestingInductive, PTL

\* No step lets a vesting share lose worth.
THEOREM WorthKept == Spec => WorthNeverDrops
<1>1. VInv /\ [Next]_vars => [~NoPrice(totals) => totals'.fund * totals.shares >= totals.fund * totals'.shares]_vars
  BY Zenon, VestingNext DEF After, Worth
<1> QED
  BY <1>1, VestingInductive, PTL DEF Spec, WorthNeverDrops

\* Every variable keeps its type: no balance, counter or withdrawal goes negative.
THEOREM VestingTyped == Spec => []TypeOK
<1>1. VInv => TypeOK
  <2> SUFFICES ASSUME VInv PROVE TypeOK
    BY Zenon
  <2>1. minTime \in [Account -> [Account -> Nat]]
    <3>1. 0..(MaxTime + DelegationTime) \subseteq Nat
      BY ShareAssumption
    <3>2. minTime \in [Account -> [Account -> 0..(MaxTime + DelegationTime)]]
      BY Zenon DEF VInv, Lending
    <3> QED
      BY Zenon, <3>1, <3>2
  <2>2. /\ percent \in [Account -> [Account -> Nat]] /\ autoVest \in [Account -> [Account -> BOOLEAN]]
        /\ routes \in [Account -> Nat]
    BY Zenon DEF VInv, Routing, RoutingOk
  <2>3. phase \in {"operations", "expire", "cashout", "withdraw"}
    BY Zenon DEF VInv, Clock
  <2> QED
    BY <2>1, <2>2, <2>3, InvParts DEF TypeOK, Fund, Power
<1> QED
  BY <1>1, VestingInductive, PTL
=============================================================================
