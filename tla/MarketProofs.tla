---------------------------- MODULE MarketProofs ----------------------------
(***************************************************************************)
(* The market for every set of accounts and orders, every price and every   *)
(* amount: rounding creates and loses nothing, the book is never left       *)
(* crossed, orders get their price, and better and older orders trade       *)
(* first.                                                                   *)
(***************************************************************************)
EXTENDS Market, Induction

(***************************************************************************)
(* Prices.  An order with base b and quote q asks q for every b; the other  *)
(* order, with B and Q, offers at least that when B * b >= q * Q.           *)
(***************************************************************************)

\* A quotient is the greatest number that fits.
LEMMA DivGreatest ==
    ASSUME NEW a \in Nat, NEW b \in Nat \ {0}, NEW d \in Nat, d * b <= a
    PROVE  d <= a \div b
<1> DEFINE m == a \div b
<1>1. m \in Nat /\ a < m * b + b
  BY Zenon, DivFacts
<1> HIDE DEF m
<1>2. ~(d >= m + 1)
  <2> SUFFICES ASSUME d >= m + 1 PROVE FALSE
    BY Zenon
  <2>1. (m + 1) * b <= d * b
    BY <1>1, MulMono
  <2>2. (m + 1) * b = m * b + b /\ m * b \in Nat /\ d * b \in Nat
    BY <1>1, MulNat
  <2> QED
    BY <1>1, <2>1, <2>2
<1> QED
  BY <1>1, <1>2 DEF m

\* The product of three numbers in the orders it is needed in.
LEMMA MulSwap ==
    ASSUME NEW a \in Nat, NEW b \in Nat, NEW c \in Nat
    PROVE  (a * b) * c \in Nat /\ (a * b) * c = (a * c) * b /\ (a * b) * c = a * (b * c) /\ (a * b) * c = (b * a) * c
OBVIOUS

\* The new order is used up: the old order pays no more than it has.
LEMMA PaysAtMost ==
    ASSUME NEW n \in Nat, NEW F \in Nat, NEW B \in Nat \ {0}, NEW Q \in Nat \ {0}, n <= (F * Q) \div B
    PROVE  (n * B) \div Q \in Nat /\ (n * B) \div Q <= F
<1> DEFINE w == (F * Q) \div B
           m == (n * B) \div Q
<1>1. F * Q \in Nat /\ n * B \in Nat
  BY Zenon, MulNat
<1>2. w \in Nat /\ w * B <= F * Q /\ m \in Nat /\ m * Q <= n * B
  BY Zenon, <1>1, DivFacts
<1>3. n <= w
  BY Zenon
<1> HIDE DEF w, m
<1>4. n * B <= w * B
  BY <1>2, <1>3, MulMono
<1>5. m * Q \in Nat /\ w * B \in Nat
  BY Zenon, <1>2, MulNat
<1>6. m * Q <= F * Q
  BY <1>1, <1>2, <1>4, <1>5
<1>7. m <= F
  BY <1>2, <1>6, MulCancel
<1> QED
  BY Zenon, <1>2, <1>7 DEF m

\* The new order is used up: it gets its price, rounded down.
LEMMA NewRounded ==
    ASSUME NEW n \in Nat, NEW B \in Nat \ {0}, NEW Q \in Nat \ {0}, NEW b \in Nat \ {0}, NEW q \in Nat \ {0},
           B * b >= q * Q
    PROVE  (n * q) \div b <= (n * B) \div Q
<1> DEFINE d == (n * q) \div b
<1>1. n * q \in Nat /\ n * B \in Nat /\ B * b \in Nat /\ q * Q \in Nat
  BY Zenon, MulNat
<1>2. d \in Nat /\ d * b <= n * q
  BY Zenon, <1>1, DivFacts
<1> HIDE DEF d
<1>3. (d * b) * Q <= (n * q) * Q
  BY <1>1, <1>2, MulNat, MulMono
<1>4. (q * Q) * n <= (B * b) * n
  BY <1>1, MulMono
<1>5. (d * b) * Q = (d * Q) * b /\ (d * b) * Q \in Nat
  BY <1>2, MulSwap
<1>6. (n * q) * Q = n * (q * Q) /\ n * (q * Q) = (q * Q) * n /\ (n * q) * Q \in Nat
  BY <1>1, MulSwap
<1>7. (B * b) * n = (B * n) * b /\ B * n = n * B /\ (B * b) * n \in Nat
  BY <1>1, MulSwap
<1>8. (d * Q) * b <= (n * B) * b
  BY <1>3, <1>4, <1>5, <1>6, <1>7
<1>9. d * Q \in Nat
  BY Zenon, <1>2, MulNat
<1>10. d * Q <= n * B
  BY <1>1, <1>8, <1>9, MulCancel
<1>11. d <= (n * B) \div Q
  BY Zenon, <1>1, <1>2, <1>10, DivGreatest
<1> QED
  BY Zenon, <1>11 DEF d

\* The old order is used up: the new one gets its price in full.
LEMMA NewExact ==
    ASSUME NEW F \in Nat, NEW B \in Nat \ {0}, NEW Q \in Nat \ {0}, NEW b \in Nat \ {0}, NEW q \in Nat \ {0},
           B * b >= q * Q, NEW w \in Nat, w * B <= F * Q
    PROVE  F * b >= w * q
<1>1. F * Q \in Nat /\ w * B \in Nat /\ B * b \in Nat /\ q * Q \in Nat /\ w * q \in Nat /\ F * b \in Nat
  BY Zenon, MulNat
<1>2. (w * B) * q <= (F * Q) * q
  BY <1>1, MulMono
<1>3. (q * Q) * F <= (B * b) * F
  BY <1>1, MulMono
<1>4. (w * B) * q = (w * q) * B /\ (w * B) * q \in Nat
  BY MulSwap
<1>5. (F * Q) * q = F * (Q * q) /\ Q * q = q * Q /\ F * (q * Q) = (q * Q) * F /\ (F * Q) * q \in Nat
  BY <1>1, MulSwap
<1>6. (B * b) * F = (F * b) * B /\ (B * b) * F \in Nat
  <2>1. (B * b) * F = (b * B) * F /\ (b * B) * F = (b * F) * B /\ b * F = F * b
    BY MulSwap
  <2> QED
    BY Zenon, <1>1, <2>1, MulNat
<1>7. (w * q) * B <= (F * b) * B
  BY <1>2, <1>3, <1>4, <1>5, <1>6
<1> QED
  BY <1>1, <1>7, MulCancel

\* An order that got its price in full so far, and gets it in full again.
LEMMA PriceKept ==
    ASSUME NEW got \in Nat, NEW sold \in Nat, NEW g \in Nat, NEW p \in Nat, NEW b \in Nat, NEW q \in Nat,
           got * b >= sold * q, g * b >= p * q
    PROVE  (got + g) * b >= (sold + p) * q
<1>1. (got + g) * b = got * b + g * b /\ (sold + p) * q = sold * q + p * q
  OBVIOUS
<1>2. got * b \in Nat /\ g * b \in Nat /\ sold * q \in Nat /\ p * q \in Nat
  BY Zenon, MulNat
<1> QED
  BY <1>1, <1>2

\* The price in full is at least the price rounded down.
LEMMA PriceFloor ==
    ASSUME NEW got \in Nat, NEW sold \in Nat, NEW b \in Nat \ {0}, NEW q \in Nat, got * b >= sold * q
    PROVE  got >= (sold * q) \div b
<1> DEFINE d == (sold * q) \div b
<1>1. sold * q \in Nat /\ got * b \in Nat
  BY Zenon, MulNat
<1>2. d \in Nat /\ d * b <= sold * q
  BY Zenon, <1>1, DivFacts
<1> HIDE DEF d
<1>3. d * b \in Nat
  BY Zenon, <1>2, MulNat
<1>4. d * b <= got * b
  BY <1>1, <1>2, <1>3
<1>5. d <= got
  BY <1>2, <1>4, MulCancel
<1> QED
  BY Zenon, <1>5 DEF d

\* An order that got its price in full so far, and rounded down in its last trade.
LEMMA PriceRounded ==
    ASSUME NEW got \in Nat, NEW sold \in Nat, NEW g \in Nat, NEW p \in Nat, NEW b \in Nat \ {0}, NEW q \in Nat,
           got * b >= sold * q, g >= (p * q) \div b
    PROVE  got + g >= ((sold + p) * q) \div b
<1> DEFINE d == ((sold + p) * q) \div b
           e == (p * q) \div b
<1>1. (sold + p) * q = sold * q + p * q /\ sold * q \in Nat /\ p * q \in Nat /\ got * b \in Nat /\ (sold + p) * q \in Nat
  BY MulNat
<1>2. d \in Nat /\ d * b <= (sold + p) * q /\ e \in Nat /\ p * q < e * b + b
  BY Zenon, <1>1, DivFacts
<1>3. e <= g
  BY Zenon
<1> HIDE DEF d, e
<1>4. e * b <= g * b /\ e * b \in Nat /\ g * b \in Nat /\ d * b \in Nat
  BY <1>2, <1>3, MulMono, MulNat
<1>5. ~(d >= got + g + 1)
  <2> SUFFICES ASSUME d >= got + g + 1 PROVE FALSE
    BY Zenon
  <2>1. (got + g + 1) * b <= d * b
    BY <1>2, MulMono
  <2>2. (got + g + 1) * b = got * b + g * b + b
    OBVIOUS
  <2> QED
    BY <1>1, <1>2, <1>4, <2>1, <2>2
<1>6. d <= got + g
  BY <1>2, <1>5
<1> QED
  BY Zenon, <1>6 DEF d

(***************************************************************************)
(* The order in which apply_order walks: Better is total and transitive, so *)
(* among some orders there is one that it meets last.                       *)
(***************************************************************************)
\* The prices B1 for Q1 and B2 for Q2, compared by cross multiplication.
LEMMA CrossMul ==
    ASSUME NEW B1 \in Nat \ {0}, NEW Q1 \in Nat \ {0}, NEW B2 \in Nat \ {0}, NEW Q2 \in Nat \ {0},
           NEW B3 \in Nat \ {0}, NEW Q3 \in Nat \ {0}, B1 * Q2 >= B2 * Q1, B2 * Q3 >= B3 * Q2
    PROVE  /\ B1 * Q3 >= B3 * Q1
           /\ B1 * Q3 = B3 * Q1 => B1 * Q2 = B2 * Q1 /\ B2 * Q3 = B3 * Q2
<1>1. /\ B1 * Q2 \in Nat /\ B2 * Q1 \in Nat /\ B2 * Q3 \in Nat /\ B3 * Q2 \in Nat
      /\ B1 * Q3 \in Nat /\ B3 * Q1 \in Nat
  BY Zenon, MulNat
<1>2. (B2 * Q1) * Q3 <= (B1 * Q2) * Q3
  BY <1>1, MulMono
<1>3. (B3 * Q2) * Q1 <= (B2 * Q3) * Q1
  BY <1>1, MulMono
<1>4. (B2 * Q1) * Q3 = (B2 * Q3) * Q1 /\ (B1 * Q2) * Q3 = (B1 * Q3) * Q2 /\ (B3 * Q2) * Q1 = (B3 * Q1) * Q2
  BY MulSwap
<1>5. /\ (B2 * Q3) * Q1 \in Nat /\ (B1 * Q2) * Q3 \in Nat /\ (B3 * Q2) * Q1 \in Nat
      /\ (B1 * Q3) * Q2 \in Nat /\ (B3 * Q1) * Q2 \in Nat /\ (B2 * Q1) * Q3 \in Nat
  BY Zenon, <1>1, MulNat
<1>6. (B3 * Q1) * Q2 <= (B1 * Q3) * Q2
  BY <1>2, <1>3, <1>4, <1>5
<1>7. B3 * Q1 <= B1 * Q3
  BY <1>1, <1>6, MulCancel
<1>8. ASSUME B1 * Q3 = B3 * Q1 PROVE B1 * Q2 = B2 * Q1 /\ B2 * Q3 = B3 * Q2
  <2>1. (B3 * Q1) * Q2 = (B1 * Q3) * Q2
    BY Zenon, <1>8
  <2>2. (B1 * Q2) * Q3 <= (B2 * Q1) * Q3 /\ (B2 * Q3) * Q1 <= (B3 * Q2) * Q1
    BY Zenon, <1>2, <1>3, <1>4, <1>5, <2>1
  <2>3. B1 * Q2 <= B2 * Q1 /\ B2 * Q3 <= B3 * Q2
    BY <1>1, <2>2, MulCancel
  <2> QED
    BY <1>1, <2>3
<1> QED
  BY Zenon, <1>7, <1>8

\* The orders of a book that can be compared.
Priced(b, S) == S \subseteq Nat /\ \A k \in S : b[k].base \in Nat \ {0} /\ b[k].quote \in Nat \ {0}

LEMMA BetterFacts ==
    ASSUME NEW b, NEW S, Priced(b, S), NEW i \in S, NEW j \in S
    PROVE  /\ ~(Better(b, i, j) /\ Better(b, j, i))
           /\ i # j => Better(b, i, j) \/ Better(b, j, i)
<1>1. /\ i \in Nat /\ j \in Nat
      /\ b[i].base \in Nat /\ b[i].quote \in Nat /\ b[j].base \in Nat /\ b[j].quote \in Nat
  BY Zenon DEF Priced
<1> DEFINE x == b[i].base * b[j].quote
           y == b[j].base * b[i].quote
<1>2. x \in Nat /\ y \in Nat
  BY Zenon, <1>1, MulNat
<1>3. /\ Better(b, i, j) <=> x > y \/ (x = y /\ i < j)
      /\ Better(b, j, i) <=> y > x \/ (y = x /\ j < i)
  BY Zenon DEF Better
<1> HIDE DEF x, y
<1> QED
  BY <1>1, <1>2, <1>3

LEMMA BetterTransitive ==
    ASSUME NEW b, NEW S, Priced(b, S), NEW i \in S, NEW j \in S, NEW k \in S,
           Better(b, i, j), Better(b, j, k)
    PROVE  Better(b, i, k)
<1> DEFINE B1 == b[i].base
           Q1 == b[i].quote
           B2 == b[j].base
           Q2 == b[j].quote
           B3 == b[k].base
           Q3 == b[k].quote
<1>1. /\ i \in Nat /\ j \in Nat /\ k \in Nat
      /\ B1 \in Nat \ {0} /\ Q1 \in Nat \ {0} /\ B2 \in Nat \ {0} /\ Q2 \in Nat \ {0}
      /\ B3 \in Nat \ {0} /\ Q3 \in Nat \ {0}
  BY Zenon DEF Priced
<1>2. /\ B1 * Q2 > B2 * Q1 \/ (B1 * Q2 = B2 * Q1 /\ i < j)
      /\ B2 * Q3 > B3 * Q2 \/ (B2 * Q3 = B3 * Q2 /\ j < k)
      /\ Better(b, i, k) <=> B1 * Q3 > B3 * Q1 \/ (B1 * Q3 = B3 * Q1 /\ i < k)
  BY Zenon DEF Better
<1> HIDE DEF B1, Q1, B2, Q2, B3, Q3
<1>3. /\ B1 * Q2 \in Nat /\ B2 * Q1 \in Nat /\ B2 * Q3 \in Nat /\ B3 * Q2 \in Nat
      /\ B1 * Q3 \in Nat /\ B3 * Q1 \in Nat
  BY Zenon, <1>1, MulNat
<1>4. B1 * Q2 >= B2 * Q1 /\ B2 * Q3 >= B3 * Q2
  BY <1>2, <1>3
<1>5. /\ B1 * Q3 >= B3 * Q1
      /\ B1 * Q3 = B3 * Q1 => B1 * Q2 = B2 * Q1 /\ B2 * Q3 = B3 * Q2
  BY <1>1, <1>4, CrossMul
<1> QED
  BY <1>1, <1>2, <1>3, <1>5

Last(b, S, j) == j \in S /\ \A i \in S \ {j} : Better(b, i, j)

LEMMA HindmostLast ==
    ASSUME NEW b, NEW S, IsFiniteSet(S), Priced(b, S), NEW T \in SUBSET S, T # {}
    PROVE  Last(b, T, Hindmost(b, T))
<1> DEFINE P == {U \in SUBSET T : U # {} => \E j : Last(b, U, j)}
<1>0. IsFiniteSet(T)
  BY Zenon, FiniteSubset
<1>1. P \in SUBSET SUBSET T /\ {} \in P
  BY Zenon
<1>2. ASSUME NEW U \in P, NEW x \in T \ U PROVE U \cup {x} \in P
  <2>1. U \cup {x} \in SUBSET T /\ U \subseteq S /\ x \in S /\ x \notin U
    BY Zenon
  <2>2. CASE U = {}
    <3>1. Last(b, U \cup {x}, x)
      BY Zenon, <2>2 DEF Last
    <3> QED
      BY Zenon, <2>1, <3>1
  <2>3. CASE U # {}
    <3>1. PICK j : Last(b, U, j)
      BY Zenon, <2>3
    <3>2. j \in U /\ j \in S /\ j # x
      BY Zenon, <2>1, <3>1 DEF Last
    <3>3. CASE Better(b, x, j)
      <4>1. Last(b, U \cup {x}, j)
        BY Zenon, <3>1, <3>2, <3>3 DEF Last
      <4> QED
        BY Zenon, <2>1, <4>1
    <3>4. CASE Better(b, j, x)
      <4>1. ASSUME NEW i \in U PROVE Better(b, i, x)
        <5>1. CASE i = j
          BY Zenon, <3>4, <5>1
        <5>2. CASE i # j
          <6>1. Better(b, i, j) /\ i \in S
            BY Zenon, <2>1, <3>1, <5>2 DEF Last
          <6> QED
            BY Zenon, <2>1, <3>2, <3>4, <6>1, BetterTransitive
        <5> QED
          BY Zenon, <5>1, <5>2
      <4>2. Last(b, U \cup {x}, x)
        BY Zenon, <4>1 DEF Last
      <4> QED
        BY Zenon, <2>1, <4>2
    <3> QED
      BY Zenon, <2>1, <3>2, <3>3, <3>4, BetterFacts
  <2> QED
    BY Zenon, <2>2, <2>3
<1>3. T \in P
  <2> HIDE DEF P
  <2> QED
    BY Zenon, <1>0, <1>1, <1>2, SubsetInduction
<1>4. \E j \in T : \A i \in T \ {j} : Better(b, i, j)
  BY Zenon, <1>3 DEF Last
<1> QED
  BY Zenon, <1>4 DEF Last, Hindmost

(***************************************************************************)
(* Balances.                                                                *)
(***************************************************************************)
Balances == [Account -> [Symbol -> Nat]]

In(bal, s) == [a \in Account |-> bal[a][s]]

LEMMA HeldNat ==
    ASSUME NEW bal \in Balances, NEW s \in Symbol
    PROVE  In(bal, s) \in [Account -> Nat] /\ Held(bal, s) = SumOver(In(bal, s), Account) /\ Held(bal, s) \in Nat
<1>1. In(bal, s) \in [Account -> Nat] /\ Held(bal, s) = SumOver(In(bal, s), Account)
  BY Zenon DEF In, Balances, Held
<1>2. NatOn(In(bal, s), Account)
  BY Zenon, <1>1 DEF NatOn
<1>3. IsFiniteSet(Account)
  BY Zenon, MarketAssumption
<1>4. SumOver(In(bal, s), Account) \in Nat
  BY Zenon, <1>2, <1>3, SumNat
<1> QED
  BY Zenon, <1>1, <1>4

\* An account's balance in one token is set.
Sets(bal2, bal, a, s, n) == bal2 = [bal EXCEPT ![a][s] = n]

LEMMA BalanceSet ==
    ASSUME NEW bal \in Balances, NEW a \in Account, NEW s \in Symbol, NEW n \in Nat, NEW bal2,
           Sets(bal2, bal, a, s, n)
    PROVE  /\ bal2 \in Balances
           /\ Held(bal2, s) = Held(bal, s) + (n - bal[a][s])
           /\ \A t \in Symbol \ {s} : Held(bal2, t) = Held(bal, t)
<1>1. bal2 \in Balances
  BY Zenon DEF Sets, Balances
<1>2. PutAt(In(bal2, s), In(bal, s), a, n)
  BY Zenon, <1>1 DEF PutAt, In, Sets, Balances
<1>3. \A t \in Symbol \ {s} : In(bal2, t) = In(bal, t)
  BY Zenon, <1>1 DEF In, Sets, Balances
<1>4. In(bal, s) \in [Account -> Nat] /\ IsFiniteSet(Account) /\ In(bal, s)[a] = bal[a][s]
  BY Zenon, HeldNat, MarketAssumption DEF In
<1>5. SumOver(In(bal2, s), Account) = SumOver(In(bal, s), Account) + (n - In(bal, s)[a])
  BY <1>2, <1>4, SumPut
<1>6. \A t \in Symbol : Held(bal, t) = SumOver(In(bal, t), Account) /\ Held(bal2, t) = SumOver(In(bal2, t), Account)
  BY Zenon, <1>1, HeldNat
<1>7. Held(bal2, s) = Held(bal, s) + (n - bal[a][s])
  BY Zenon, <1>4, <1>5, <1>6
<1>8. \A t \in Symbol \ {s} : Held(bal2, t) = Held(bal, t)
  BY Zenon, <1>3, <1>6
<1> QED
  BY Zenon, <1>1, <1>7, <1>8

Gains(bal2, bal, s, n) ==
    /\ bal2 \in Balances
    /\ Held(bal2, s) = Held(bal, s) + n
    /\ \A t \in Symbol \ {s} : Held(bal2, t) = Held(bal, t)

LEMMA Credited ==
    ASSUME NEW bal \in Balances, NEW a \in Account, NEW s \in Symbol, NEW n \in Nat
    PROVE  Gains(Credit(bal, a, s, n), bal, s, n)
<1> DEFINE c == Credit(bal, a, s, n)
           m == bal[a][s] + n
<1>1. bal[a][s] \in Nat /\ m \in Nat /\ m - bal[a][s] = n
  BY DEF Balances
<1>2. Sets(c, bal, a, s, m)
  BY Zenon DEF Sets, Credit
<1> HIDE DEF c, m
<1>3. /\ c \in Balances
      /\ Held(c, s) = Held(bal, s) + (m - bal[a][s])
      /\ \A t \in Symbol \ {s} : Held(c, t) = Held(bal, t)
  BY <1>1, <1>2, BalanceSet
<1> QED
  BY Zenon, <1>1, <1>3 DEF Gains, c

LEMMA OtherFacts ==
    \A s \in Symbol : Other(s) \in Symbol /\ Other(s) # s /\ Symbol = {s, Other(s)} /\ Other(Other(s)) = s
<1>1. ASSUME NEW s \in Symbol PROVE \E t \in Symbol : t # s
  BY Zenon DEF Symbol
<1>2. \A s \in Symbol : Other(s) \in Symbol /\ Other(s) # s
  BY Zenon, <1>1 DEF Other
<1> QED
  BY Zenon, <1>2 DEF Symbol
-----------------------------------------------------------------------------
(***************************************************************************)
(* The orders of a book.                                                    *)
(***************************************************************************)
\* What the orders of a book offer of a token.
Offered(b, s) == SumOver(ForSale(b, s), DOMAIN b)

LEMMA OfferedNat ==
    ASSUME NEW D, IsFiniteSet(D), NEW b \in [D -> Order], NEW s \in Symbol
    PROVE  /\ ForSale(b, s) \in [D -> Nat] /\ Offered(b, s) = SumOver(ForSale(b, s), D) /\ Offered(b, s) \in Nat
           /\ \A k \in D : ForSale(b, s)[k] = IF b[k].sells = s THEN b[k].forSale ELSE 0
<1>1. /\ ForSale(b, s) \in [D -> Nat] /\ Offered(b, s) = SumOver(ForSale(b, s), D)
      /\ \A k \in D : ForSale(b, s)[k] = IF b[k].sells = s THEN b[k].forSale ELSE 0
  BY Zenon DEF ForSale, Offered, Order
<1>2. NatOn(ForSale(b, s), D)
  BY Zenon, <1>1 DEF NatOn
<1>3. SumOver(ForSale(b, s), D) \in Nat
  BY Zenon, <1>2, SumNat
<1> QED
  BY Zenon, <1>1, <1>3

\* An order is replaced by one that sells the same token.
LEMMA OfferedPut ==
    ASSUME NEW D, IsFiniteSet(D), NEW b \in [D -> Order], NEW k \in D, NEW o \in Order, o.sells = b[k].sells,
           NEW c, PutAt(c, b, k, o)
    PROVE  /\ c \in [D -> Order]
           /\ Offered(c, o.sells) = Offered(b, o.sells) + (o.forSale - b[k].forSale)
           /\ \A t \in Symbol \ {o.sells} : Offered(c, t) = Offered(b, t)
<1>1. c \in [D -> Order] /\ c[k] = o /\ \A j \in D \ {k} : c[j] = b[j]
  BY Zenon DEF PutAt
<1>2. o.sells \in Symbol /\ o.forSale \in Nat
  BY Zenon DEF Order
<1>3. PutAt(ForSale(c, o.sells), ForSale(b, o.sells), k, o.forSale)
  <2>1. DOMAIN c = D /\ DOMAIN b = D
    BY Zenon, <1>1
  <2> QED
    BY Zenon, <1>1, <2>1 DEF PutAt, ForSale
<1>4. \A t \in Symbol \ {o.sells} : ForSale(c, t) = ForSale(b, t)
  BY Zenon, <1>1 DEF ForSale
<1>5. /\ \A t \in Symbol : Offered(b, t) = SumOver(ForSale(b, t), D) /\ Offered(c, t) = SumOver(ForSale(c, t), D)
      /\ ForSale(b, o.sells) \in [D -> Nat] /\ ForSale(b, o.sells)[k] = b[k].forSale
  BY <1>1, <1>2, OfferedNat
<1>6. SumOver(ForSale(c, o.sells), D) = SumOver(ForSale(b, o.sells), D) + (o.forSale - ForSale(b, o.sells)[k])
  BY <1>2, <1>3, <1>5, SumPut
<1>7. Offered(c, o.sells) = Offered(b, o.sells) + (o.forSale - b[k].forSale)
  BY Zenon, <1>2, <1>5, <1>6
<1>8. \A t \in Symbol \ {o.sells} : Offered(c, t) = Offered(b, t)
  BY Zenon, <1>4, <1>5
<1> QED
  BY Zenon, <1>1, <1>7, <1>8

-----------------------------------------------------------------------------
(***************************************************************************)
(* fill_order, for one of the two orders of a trade.                        *)
(***************************************************************************)
Fill == [key : Nat, new : Order, old : Order, paid : Nat, received : Nat]

\* The states apply_order goes through; D has the ids of the orders.
Stage(D) == [book : [D -> Order], balance : Balances, fills : SUBSET Fill]

\* What there is of a token.
All(s, t) == Held(s.balance, t) + Offered(s.book, t)

\* The orders o and p differ at most in what has been traded.
Alike(o, p) == /\ o.seller = p.seller /\ o.id = p.id /\ o.sells = p.sells
               /\ o.base = p.base /\ o.quote = p.quote /\ o.expiration = p.expiration

\* What stays for sale of a rest.
Kept(o, rest) == IF AmountToReceive(o, rest) = 0 THEN 0 ELSE rest

LEMMA AmountNat ==
    ASSUME NEW o \in Order, NEW n \in Nat
    PROVE  AmountToReceive(o, n) \in Nat /\ AmountToReceive(o, n) * o.base <= n * o.quote /\ AmountToReceive(o, 0) = 0
<1>1. o.base \in Nat \ {0} /\ o.quote \in Nat
  BY Zenon DEF Order
<1>2. n * o.quote \in Nat /\ 0 * o.quote = 0
  BY <1>1, MulNat
<1>3. 0 \div o.base = 0
  BY <1>1
<1> DEFINE m == n * o.quote
<1>4. m \div o.base \in Nat /\ (m \div o.base) * o.base <= m
  <2> HIDE DEF m
  <2> QED
    BY Zenon, <1>1, <1>2, DivFacts DEF m
<1> QED
  BY Zenon, <1>2, <1>3, <1>4 DEF AmountToReceive

Traded(p, o, rest, pays, gets) ==
    /\ p \in Order /\ Alike(p, o)
    /\ p.forSale = rest /\ p.sold = o.sold + pays /\ p.got = o.got + gets

LEMMA FilledFact ==
    ASSUME NEW o \in Order, NEW rest \in Nat, NEW pays \in Nat, NEW gets \in Nat
    PROVE  Traded(Filled(o, rest, pays, gets), o, rest, pays, gets)
<1>1. o.sold + pays \in Nat /\ o.got + gets \in Nat
  BY DEF Order
<1> QED
  BY Zenon, <1>1 DEF Order, Alike, Filled, Traded

Served(t, s, D, k, pays, gets) ==
    /\ t \in Stage(D) /\ t.fills = s.fills
    /\ \A j \in D \ {k} : t.book[j] = s.book[j]
    /\ Alike(t.book[k], s.book[k])
    /\ t.book[k].sold = s.book[k].sold + pays /\ t.book[k].got = s.book[k].got + gets
    /\ t.book[k].forSale = Kept(s.book[k], s.book[k].forSale - pays)
    /\ All(t, s.book[k].sells) = All(s, s.book[k].sells) - pays
    /\ All(t, Other(s.book[k].sells)) = All(s, Other(s.book[k].sells)) + gets

LEMMA OrderServed ==
    ASSUME NEW D, IsFiniteSet(D), NEW s \in Stage(D), NEW k \in D, NEW pays \in Nat, NEW gets \in Nat,
           pays <= s.book[k].forSale
    PROVE  Served(FillOrder(s, k, pays, gets), s, D, k, pays, gets)
<1> DEFINE o == s.book[k]
           rest == o.forSale - pays
           dust == IF AmountToReceive(o, rest) = 0 THEN rest ELSE 0
           p == Filled(o, rest - dust, pays, gets)
           one == Credit(s.balance, o.seller, Other(o.sells), gets)
           two == Credit(one, o.seller, o.sells, dust)
           t == FillOrder(s, k, pays, gets)
<1>1. s.book \in [D -> Order] /\ s.balance \in Balances /\ s.fills \in SUBSET Fill /\ o \in Order
  BY Zenon DEF Stage
<1>2. o.seller \in Account /\ o.sells \in Symbol /\ o.forSale \in Nat
  BY Zenon, <1>1 DEF Order
<1>3. t = [s EXCEPT !.book[k] = p, !.balance = two]
  BY Zenon DEF FillOrder
<1>4. rest \in Nat /\ dust \in Nat /\ rest - dust \in Nat /\ rest - dust = Kept(o, rest)
  BY <1>2 DEF Kept
<1>5. Other(o.sells) \in Symbol /\ Other(o.sells) # o.sells
  BY Zenon, <1>2, OtherFacts
<1> DEFINE r == rest - dust
<1>6. p \in Order /\ Alike(p, o) /\ p.forSale = r /\ p.sold = o.sold + pays /\ p.got = o.got + gets
  <2>1. r \in Nat /\ p = Filled(o, r, pays, gets)
    BY Zenon, <1>4
  <2> HIDE DEF o, rest, dust, r, p
  <2>2. Traded(Filled(o, r, pays, gets), o, r, pays, gets)
    BY Zenon, <1>1, <2>1, FilledFact
  <2> QED
    BY Zenon, <2>1, <2>2 DEF Traded
<1>7. Gains(one, s.balance, Other(o.sells), gets) /\ Gains(two, one, o.sells, dust)
  <2>1. Gains(one, s.balance, Other(o.sells), gets)
    BY Zenon, <1>1, <1>2, <1>5, Credited
  <2>2. one \in Balances
    BY Zenon, <2>1 DEF Gains
  <2> HIDE DEF one, dust
  <2> QED
    BY Zenon, <1>2, <1>4, <2>1, <2>2, Credited
<1>8. r = Kept(o, o.forSale - pays) /\ r - o.forSale = (-pays) - dust
  BY <1>2, <1>4
<1> HIDE DEF o, rest, dust, p, one, two, t, r
<1>9. t \in Stage(D) /\ t.book = [s.book EXCEPT ![k] = p] /\ t.balance = two /\ t.fills = s.fills
  <2>1. two \in Balances
    BY Zenon, <1>7 DEF Gains
  <2> QED
    BY Zenon, <1>1, <1>3, <1>6, <2>1 DEF Stage
<1>10. PutAt(t.book, s.book, k, p) /\ p.sells = o.sells
  BY Zenon, <1>6, <1>9 DEF PutAt, Alike
<1>11. /\ Offered(t.book, o.sells) = Offered(s.book, o.sells) + (r - o.forSale)
       /\ \A u \in Symbol \ {o.sells} : Offered(t.book, u) = Offered(s.book, u)
  <2>1. p.sells = s.book[k].sells /\ s.book[k].forSale = o.forSale
    BY Zenon, <1>10 DEF o
  <2>2. /\ Offered(t.book, p.sells) = Offered(s.book, p.sells) + (p.forSale - s.book[k].forSale)
        /\ \A u \in Symbol \ {p.sells} : Offered(t.book, u) = Offered(s.book, u)
    BY <1>1, <1>6, <1>10, <2>1, OfferedPut
  <2> QED
    BY Zenon, <1>6, <1>10, <2>1, <2>2
<1>12. /\ Offered(s.book, o.sells) \in Nat /\ Held(s.balance, o.sells) \in Nat
       /\ Offered(s.book, Other(o.sells)) \in Nat /\ Held(s.balance, Other(o.sells)) \in Nat
  BY Zenon, <1>1, <1>2, <1>5, OfferedNat, HeldNat
<1>13. /\ Held(two, o.sells) = Held(s.balance, o.sells) + dust
       /\ Held(two, Other(o.sells)) = Held(s.balance, Other(o.sells)) + gets
  BY Zenon, <1>2, <1>5, <1>7 DEF Gains
<1>14. /\ All(t, o.sells) = All(s, o.sells) - pays
       /\ All(t, Other(o.sells)) = All(s, Other(o.sells)) + gets
  <2>1. Offered(t.book, Other(o.sells)) = Offered(s.book, Other(o.sells))
    BY Zenon, <1>5, <1>11
  <2>2. Offered(t.book, o.sells) = Offered(s.book, o.sells) + ((-pays) - dust)
    BY Zenon, <1>8, <1>11
  <2> QED
    BY <1>4, <1>9, <1>12, <1>13, <2>1, <2>2 DEF All
<1>15. t.book[k] = p /\ \A j \in D \ {k} : t.book[j] = s.book[j]
  BY Zenon, <1>1, <1>9
<1> QED
  BY Zenon, <1>6, <1>8, <1>9, <1>14, <1>15 DEF Served, o, t

-----------------------------------------------------------------------------
(***************************************************************************)
(* match, for one order of the other side.                                  *)
(***************************************************************************)
\* An order in the book can be sold for something and has had its price in full so far.
Sound(o) == o.forSale > 0 => /\ AmountToReceive(o, o.forSale) > 0
                             /\ o.got * o.base >= o.sold * o.quote

Fair(o) == o.got >= AmountToReceive(o, o.sold)

\* The new order pays p and gets g, one of the two is used up, and both get what they ask.
Deal(new, old, p, g) ==
    /\ p \in Nat /\ g \in Nat /\ p > 0 /\ g > 0 /\ p <= new.forSale /\ g <= old.forSale
    /\ \/ p = new.forSale /\ p * old.base >= g * old.quote /\ g >= AmountToReceive(new, p)
       \/ g = old.forSale /\ g * new.base >= p * new.quote /\ p >= AmountToReceive(old, g)

LEMMA DealFact ==
    ASSUME NEW new \in Order, NEW old \in Order, Accepts(new, old), new.forSale > 0, old.forSale > 0,
           Sound(new), Sound(old)
    PROVE  Deal(new, old, OldReceives(new, old), NewReceives(new, old))
<1> DEFINE n == new.forSale
           F == old.forSale
           B == old.base
           Q == old.quote
           b == new.base
           q == new.quote
           w == (F * Q) \div B
           m == (n * B) \div Q
<1>1. /\ n \in Nat /\ F \in Nat /\ n > 0 /\ F > 0
      /\ B \in Nat \ {0} /\ Q \in Nat \ {0} /\ b \in Nat \ {0} /\ q \in Nat \ {0}
  BY Zenon DEF Order
<1>2. B * b >= q * Q
  BY Zenon DEF Accepts
<1>3. (n * q) \div b > 0 /\ w > 0
  BY Zenon DEF Sound, AmountToReceive
<1>4. n * B \in Nat /\ F * Q \in Nat /\ n * q \in Nat
  BY Zenon, <1>1, MulNat
<1>5. w \in Nat /\ w * B <= F * Q /\ m \in Nat /\ m * Q <= n * B /\ (n * q) \div b \in Nat
  <2> HIDE DEF n, F, B, Q, b, q
  <2> QED
    BY Zenon, <1>1, <1>4, DivFacts
<1>6. /\ AmountToReceive(old, F) = w /\ AmountToReceive(new, n) = (n * q) \div b
      /\ OldReceives(new, old) = (IF n <= w THEN n ELSE w) /\ NewReceives(new, old) = (IF n <= w THEN m ELSE F)
  BY Zenon DEF AmountToReceive, OldReceives, NewReceives
<1>7. CASE n <= w
  <2>1. m <= F
    <3> HIDE DEF n, F, B, Q, b, q
    <3> QED
      BY Zenon, <1>1, <1>7, PaysAtMost
  <2>2. (n * q) \div b <= m
    <3> HIDE DEF n, F, B, Q, b, q
    <3> QED
      BY Zenon, <1>1, <1>2, NewRounded
  <2>3. m > 0 /\ n <= n
    <3> HIDE DEF n, F, B, Q, b, q, m
    <3> QED
      BY <1>1, <1>3, <1>5, <2>2
  <2>4. n * B >= m * Q /\ m >= (n * q) \div b
    <3> HIDE DEF n, F, B, Q, b, q, m
    <3> QED
      BY Zenon, <1>1, <1>4, <1>5, <2>2
  <2> QED
    BY Zenon, <1>1, <1>5, <1>6, <1>7, <2>1, <2>3, <2>4 DEF Deal
<1>8. CASE ~(n <= w)
  <2>1. F * b >= w * q
    <3> HIDE DEF n, F, B, Q, b, q, w
    <3> QED
      BY Zenon, <1>1, <1>2, <1>5, NewExact
  <2>2. w <= n /\ F <= F /\ w >= w
    <3> HIDE DEF n, F, B, Q, b, q, w
    <3> QED
      BY <1>1, <1>5, <1>8
  <2> QED
    BY Zenon, <1>1, <1>3, <1>5, <1>6, <1>8, <2>1, <2>2 DEF Deal
<1> QED
  BY Zenon, <1>7, <1>8

LEMMA KeptFact ==
    ASSUME NEW o \in Order, NEW r \in Nat
    PROVE  /\ Kept(o, r) \in Nat /\ Kept(o, 0) = 0
           /\ Kept(o, r) > 0 => AmountToReceive(o, Kept(o, r)) > 0
<1>1. AmountToReceive(o, r) \in Nat
  BY Zenon, AmountNat
<1> QED
  BY <1>1 DEF Kept

\* What becomes of an order that pays and gets.
LEMMA Afterwards ==
    ASSUME NEW o \in Order, NEW p \in Order, NEW pays \in Nat, NEW gets \in Nat, pays <= o.forSale, o.forSale > 0,
           Sound(o), Alike(p, o), p.sold = o.sold + pays, p.got = o.got + gets,
           p.forSale = Kept(o, o.forSale - pays)
    PROVE  /\ gets * o.base >= pays * o.quote => Sound(p) /\ Fair(p)
           /\ pays = o.forSale /\ gets >= AmountToReceive(o, pays) => p.forSale = 0 /\ Sound(p) /\ Fair(p)
<1> DEFINE S == o.sold
           G == o.got
           b == o.base
           q == o.quote
<1>1. S \in Nat /\ G \in Nat /\ b \in Nat \ {0} /\ q \in Nat \ {0} /\ o.forSale \in Nat
  BY Zenon DEF Order
<1>2. G * b >= S * q
  BY Zenon DEF Sound
<1>3. p.base = b /\ p.quote = q
  BY Zenon DEF Alike
<1>4. \A n : AmountToReceive(p, n) = AmountToReceive(o, n)
  BY Zenon, <1>3 DEF AmountToReceive
<1>5. /\ Fair(p) <=> G + gets >= ((S + pays) * q) \div b
      /\ Sound(p) <=> (p.forSale > 0 => AmountToReceive(o, p.forSale) > 0 /\ (G + gets) * b >= (S + pays) * q)
  BY Zenon, <1>3, <1>4 DEF Fair, Sound, AmountToReceive
<1>6. ASSUME gets * b >= pays * q
      PROVE  Sound(p) /\ Fair(p)
  <2>1. (G + gets) * b >= (S + pays) * q
    <3> HIDE DEF S, G, b, q
    <3> QED
      BY Zenon, <1>1, <1>2, <1>6, PriceKept
  <2>2. G + gets \in Nat /\ S + pays \in Nat
    BY <1>1
  <2>3. G + gets >= ((S + pays) * q) \div b
    <3> DEFINE g == G + gets
               s == S + pays
    <3>1. g >= (s * q) \div b
      <4>1. g \in Nat /\ s \in Nat /\ g * b >= s * q
        BY Zenon, <2>1, <2>2
      <4> HIDE DEF S, G, b, q, g, s
      <4> QED
        BY Zenon, <1>1, <4>1, PriceFloor
    <3> QED
      BY Zenon, <3>1
  <2>4. p.forSale > 0 => AmountToReceive(o, p.forSale) > 0
    <3>1. o.forSale - pays \in Nat
      BY <1>1
    <3> QED
      BY Zenon, <3>1, KeptFact
  <2> QED
    BY Zenon, <1>5, <2>1, <2>3, <2>4
<1>7. ASSUME pays = o.forSale, gets >= AmountToReceive(o, pays)
      PROVE  p.forSale = 0 /\ Sound(p) /\ Fair(p)
  <2>1. o.forSale - pays = 0
    BY <1>1, <1>7
  <2>2. p.forSale = 0
    BY Zenon, <2>1, KeptFact
  <2>3. gets >= (pays * q) \div b
    BY Zenon, <1>7 DEF AmountToReceive
  <2>4. G + gets >= ((S + pays) * q) \div b
    <3> HIDE DEF S, G, b, q
    <3> QED
      BY Zenon, <1>1, <1>2, <2>3, PriceRounded
  <2>5. ~(p.forSale > 0)
    BY <2>2
  <2> QED
    BY Zenon, <1>5, <2>2, <2>4, <2>5
<1> QED
  BY Zenon, <1>6, <1>7

Met(t, s, D, n, k) ==
    /\ t \in Stage(D)
    /\ \A j \in D \ {n, k} : t.book[j] = s.book[j]
    /\ \A j \in {n, k} : Alike(t.book[j], s.book[j]) /\ Sound(t.book[j])
    /\ t.book[n].forSale = 0 \/ t.book[k].forSale = 0
    /\ \A u \in Symbol : All(t, u) = All(s, u)
    /\ \E f \in Fill : /\ t.fills = s.fills \cup {f} /\ f.key = k
                       /\ f.new = t.book[n] /\ f.old = t.book[k]
                       /\ f.paid > 0 /\ f.received > 0 /\ Fair(f.new) /\ Fair(f.old)

\* The orders n and k, that sell different tokens, meet.
LEMMA TradeFact ==
    ASSUME NEW D \in SUBSET Nat, IsFiniteSet(D), NEW s \in Stage(D), NEW n \in D, NEW k \in D, n # k,
           s.book[k].sells # s.book[n].sells, Sound(s.book[n]), Sound(s.book[k]),
           s.book[n].forSale > 0, s.book[k].forSale > 0,
           NEW p, NEW g, Deal(s.book[n], s.book[k], p, g)
    PROVE  Met(Trade(s, n, k, p, g), s, D, n, k)
<1> DEFINE new == s.book[n]
           old == s.book[k]
           m == FillOrder(s, n, p, g)
           t == FillOrder(m, k, g, p)
           f == [key |-> k, new |-> t.book[n], old |-> t.book[k], paid |-> p, received |-> g]
           r == Trade(s, n, k, p, g)
<1>1. new \in Order /\ old \in Order
  BY Zenon DEF Stage
<1>2. p \in Nat /\ g \in Nat /\ p > 0 /\ g > 0 /\ p <= new.forSale /\ g <= old.forSale
  BY Zenon DEF Deal
<1>3. Served(m, s, D, n, p, g)
  BY Zenon, <1>2, OrderServed
<1> HIDE DEF m
<1>4. m \in Stage(D) /\ m.book[k] = old
  BY Zenon, <1>3 DEF Served
<1>5. Served(t, m, D, k, g, p)
  BY Zenon, <1>2, <1>4, OrderServed
<1> HIDE DEF t
<1>6. r = [t EXCEPT !.fills = @ \cup {f}]
  BY Zenon DEF Trade, m, t
<1>7. t \in Stage(D) /\ t.fills = s.fills
  BY Zenon, <1>3, <1>5 DEF Served
<1>8. t.book[n] = m.book[n] /\ \A j \in D \ {n, k} : t.book[j] = s.book[j]
  BY Zenon, <1>3, <1>5 DEF Served
<1>9. t.book[n] \in Order /\ t.book[k] \in Order
  BY Zenon, <1>7 DEF Stage
<1>10. f \in Fill
  BY Zenon, <1>2, <1>9 DEF Fill
<1> HIDE DEF f
<1>11. r \in Stage(D) /\ r.book = t.book /\ r.balance = t.balance /\ r.fills = s.fills \cup {f}
  BY Zenon, <1>6, <1>7, <1>10 DEF Stage
<1>12. /\ Alike(t.book[n], new) /\ t.book[n].sold = new.sold + p /\ t.book[n].got = new.got + g
       /\ t.book[n].forSale = Kept(new, new.forSale - p)
  BY Zenon, <1>3, <1>8 DEF Served
<1>13. /\ Alike(t.book[k], old) /\ t.book[k].sold = old.sold + g /\ t.book[k].got = old.got + p
       /\ t.book[k].forSale = Kept(old, old.forSale - g)
  BY Zenon, <1>4, <1>5 DEF Served
<1>14. /\ g * new.base >= p * new.quote => Sound(t.book[n]) /\ Fair(t.book[n])
       /\ p = new.forSale /\ g >= AmountToReceive(new, p) =>
            t.book[n].forSale = 0 /\ Sound(t.book[n]) /\ Fair(t.book[n])
  <2> HIDE DEF new
  <2> QED
    BY Zenon, <1>1, <1>2, <1>9, <1>12, Afterwards DEF new
<1>15. /\ p * old.base >= g * old.quote => Sound(t.book[k]) /\ Fair(t.book[k])
       /\ g = old.forSale /\ p >= AmountToReceive(old, g) =>
            t.book[k].forSale = 0 /\ Sound(t.book[k]) /\ Fair(t.book[k])
  <2> HIDE DEF old
  <2> QED
    BY Zenon, <1>1, <1>2, <1>9, <1>13, Afterwards DEF old
<1>16. /\ t.book[n].forSale = 0 \/ t.book[k].forSale = 0
       /\ Sound(t.book[n]) /\ Fair(t.book[n]) /\ Sound(t.book[k]) /\ Fair(t.book[k])
  BY Zenon, <1>14, <1>15 DEF Deal
<1>17. \A u \in Symbol : All(r, u) = All(s, u)
  <2> DEFINE x == new.sells
             y == old.sells
  <2>1. x \in Symbol /\ y \in Symbol /\ x # y
    BY Zenon, <1>1 DEF Order
  <2>2. Other(x) = y /\ Other(y) = x /\ Symbol = {x, y}
    <3>1. Symbol = {x, Other(x)} /\ Other(Other(x)) = x
      BY Zenon, <2>1, OtherFacts
    <3> HIDE DEF x, y
    <3> QED
      BY Zenon, <2>1, <3>1
  <2>3. All(m, x) = All(s, x) - p /\ All(m, y) = All(s, y) + g
    BY Zenon, <1>3, <2>2 DEF Served
  <2>4. All(t, y) = All(m, y) - g /\ All(t, x) = All(m, x) + p
    BY Zenon, <1>4, <1>5, <2>2 DEF Served
  <2>5. All(s, x) \in Nat /\ All(s, y) \in Nat
    <3>1. s.book \in [D -> Order] /\ s.balance \in Balances
      BY Zenon DEF Stage
    <3>2. \A u \in Symbol : Held(s.balance, u) \in Nat /\ Offered(s.book, u) \in Nat
      BY Zenon, <3>1, HeldNat, OfferedNat
    <3> QED
      BY <2>1, <3>2 DEF All
  <2>6. All(t, x) = All(s, x) /\ All(t, y) = All(s, y)
    <3> HIDE DEF x, y
    <3> QED
      BY <1>2, <2>3, <2>4, <2>5
  <2>7. \A u : All(r, u) = All(t, u)
    BY Zenon, <1>11 DEF All
  <2> HIDE DEF x, y
  <2> QED
    BY Zenon, <2>2, <2>6, <2>7
<1>18. f.key = k /\ f.new = r.book[n] /\ f.old = r.book[k] /\ f.paid = p /\ f.received = g
  BY Zenon, <1>11 DEF f
<1> HIDE DEF r
<1>19. \E h \in Fill : /\ r.fills = s.fills \cup {h} /\ h.key = k
                       /\ h.new = r.book[n] /\ h.old = r.book[k]
                       /\ h.paid > 0 /\ h.received > 0 /\ Fair(h.new) /\ Fair(h.old)
  BY Zenon, <1>2, <1>10, <1>11, <1>16, <1>18
<1>20. \A j \in {n, k} : Alike(r.book[j], s.book[j]) /\ Sound(r.book[j])
  BY Zenon, <1>11, <1>12, <1>13, <1>16
<1> QED
  BY Zenon, <1>8, <1>11, <1>16, <1>17, <1>19, <1>20 DEF Met, r

LEMMA MatchFact ==
    ASSUME NEW D \in SUBSET Nat, IsFiniteSet(D), NEW s \in Stage(D), NEW n \in D, NEW k \in D, n # k,
           Accepts(s.book[n], s.book[k]), Sound(s.book[n]), Sound(s.book[k]),
           s.book[n].forSale # 0, s.book[k].forSale # 0
    PROVE  Met(Match(s, n, k), s, D, n, k)
<1> DEFINE new == s.book[n]
           old == s.book[k]
           p == OldReceives(new, old)
           g == NewReceives(new, old)
<1>1. new \in Order /\ old \in Order
  BY Zenon DEF Stage
<1>2. new.forSale > 0 /\ old.forSale > 0
  BY <1>1 DEF Order
<1>3. Deal(new, old, p, g)
  BY Zenon, <1>1, <1>2, DealFact
<1>4. old.sells # new.sells
  BY Zenon DEF Accepts
<1>5. Match(s, n, k) = Trade(s, n, k, p, g)
  BY Zenon DEF Match
<1> HIDE DEF p, g
<1> QED
  BY Zenon, <1>2, <1>3, <1>4, <1>5, TradeFact

-----------------------------------------------------------------------------
(***************************************************************************)
(* apply_order: the walk of the new order n along the orders that it        *)
(* accepts.  Walked says what holds of the state s once the orders of T     *)
(* have been met; b is the book the walk started from.                      *)
(***************************************************************************)
Start(b, bal) == [book |-> b, balance |-> bal, fills |-> {}]

FairFill(f) == f.paid > 0 /\ f.received > 0 /\ Fair(f.new) /\ Fair(f.old)

\* The order k has been sold out.
SoldOut(s, k) == \E g \in s.fills : g.key = k /\ g.old.forSale = 0

Walked(s, T, D, b, bal, n) ==
    /\ s \in Stage(D)
    /\ \A j \in D : Alike(s.book[j], b[j]) /\ Sound(s.book[j])
    /\ \A u \in Symbol : All(s, u) = All(Start(b, bal), u)
    /\ \A f \in s.fills : FairFill(f)
    /\ \A j \in D \ (T \cup {n}) : s.book[j] = b[j]
    /\ s.book[n].forSale # 0 => \A k \in T : s.book[k].forSale = 0 /\ SoldOut(s, k)
    /\ \A f \in s.fills : /\ f.key \in T /\ Alike(f.new, b[n])
                          /\ \A k \in T : Better(b, k, f.key) => SoldOut(s, k)

\* A book of the market with the new order n in it.
Entered(D, b, bal, n) ==
    /\ D \in SUBSET Nat /\ IsFiniteSet(D) /\ b \in [D -> Order] /\ bal \in Balances /\ n \in D
    /\ \A j \in D : Sound(b[j]) /\ b[j].forSale # 0

LEMMA QueueFacts ==
    ASSUME NEW D, NEW b, NEW bal, NEW n, Entered(D, b, bal, n)
    PROVE  /\ Queue(b, n) \subseteq D \ {n} /\ IsFiniteSet(Queue(b, n)) /\ Priced(b, D)
           /\ \A k \in Queue(b, n) : Accepts(b[n], b[k])
<1>1. Queue(b, n) \subseteq D \ {n} /\ \A k \in Queue(b, n) : Accepts(b[n], b[k])
  BY Zenon DEF Entered, Queue, Accepts
<1>2. Priced(b, D)
  BY Zenon DEF Entered, Priced, Order
<1>3. IsFiniteSet(D) /\ Queue(b, n) \subseteq D
  BY Zenon, <1>1 DEF Entered
<1> QED
  BY Zenon, <1>1, <1>2, <1>3, FiniteSubset

LEMMA AlikeFacts ==
    ASSUME NEW o, NEW p, NEW r
    PROVE  Alike(o, o) /\ (Alike(o, p) /\ Alike(p, r) => Alike(o, r))
BY Zenon DEF Alike

LEMMA WalkStart ==
    ASSUME NEW D, NEW b, NEW bal, NEW n, Entered(D, b, bal, n)
    PROVE  Start(b, bal) \in Stage(D) /\ Walked(Start(b, bal), {}, D, b, bal, n)
<1> DEFINE s == Start(b, bal)
<1>1. s \in Stage(D) /\ s.book = b /\ s.fills = {}
  BY Zenon DEF Start, Stage, Entered
<1> HIDE DEF s
<1> QED
  BY Zenon, <1>1, AlikeFacts DEF Walked, Entered, s

\* The hindmost order k of T is met after the others.
LEMMA WalkStep ==
    ASSUME NEW D, NEW b, NEW bal, NEW n, Entered(D, b, bal, n), NEW T \in SUBSET Queue(b, n), NEW k, Last(b, T, k),
           NEW s, Walked(s, T \ {k}, D, b, bal, n)
    PROVE  Walked(Match(s, n, k), T, D, b, bal, n)
<1> DEFINE t == Match(s, n, k)
<1>1. k \in T /\ k \in D /\ n \in D /\ n # k /\ T \subseteq D \ {n} /\ Accepts(b[n], b[k]) /\ Priced(b, D)
  BY Zenon, QueueFacts DEF Last, Entered
<1>2. D \in SUBSET Nat /\ IsFiniteSet(D) /\ s \in Stage(D) /\ b[k].forSale # 0
  BY Zenon, <1>1 DEF Entered, Walked
<1>3. \A j \in T : ~Better(b, k, j)
  <2> TAKE j \in T
  <2>1. j # k => Better(b, j, k)
    BY Zenon DEF Last
  <2> QED
    BY Zenon, <1>1, <2>1, BetterFacts
<1>4. CASE s.book[n].forSale = 0
  <2>1. t = s
    BY Zenon, <1>4 DEF Match
  <2>2. \A f \in s.fills : f.key \in T /\ \A j \in T : Better(b, j, f.key) => SoldOut(s, j)
    BY Zenon, <1>3 DEF Walked
  <2>3. \A j \in D \ (T \cup {n}) : s.book[j] = b[j]
    BY Zenon DEF Walked
  <2> QED
    BY Zenon, <1>4, <2>1, <2>2, <2>3 DEF Walked
<1>5. CASE s.book[n].forSale # 0
  <2>1. s.book[k] = b[k] /\ Sound(s.book[k]) /\ Sound(s.book[n]) /\ Alike(s.book[n], b[n])
    BY Zenon, <1>1 DEF Walked
  <2>2. Accepts(s.book[n], s.book[k])
    BY Zenon, <1>1, <2>1 DEF Accepts, Alike
  <2>3. Met(t, s, D, n, k)
    BY Zenon, <1>1, <1>2, <1>5, <2>1, <2>2, MatchFact
  <2> HIDE DEF t
  <2>4. t \in Stage(D) /\ \A u \in Symbol : All(t, u) = All(Start(b, bal), u)
    BY Zenon, <2>3 DEF Met, Walked
  <2>5. \A j \in D : Alike(t.book[j], b[j]) /\ Sound(t.book[j])
    <3> TAKE j \in D
    <3>1. Alike(s.book[j], b[j]) /\ Sound(s.book[j])
      BY Zenon DEF Walked
    <3>2. CASE j \in {n, k}
      BY Zenon, <2>3, <3>1, <3>2, AlikeFacts DEF Met
    <3>3. CASE j \notin {n, k}
      BY Zenon, <2>3, <3>1, <3>3 DEF Met
    <3> QED
      BY Zenon, <3>2, <3>3
  <2>6. PICK f \in Fill : /\ t.fills = s.fills \cup {f} /\ f.key = k
                          /\ f.new = t.book[n] /\ f.old = t.book[k] /\ FairFill(f)
    BY Zenon, <2>3 DEF Met, FairFill
  <2>7. \A g \in t.fills : FairFill(g)
    BY Zenon, <2>6 DEF Walked
  <2>8. \A j \in D \ (T \cup {n}) : t.book[j] = b[j]
    BY Zenon, <1>1, <2>3 DEF Met, Walked
  <2>9. \A j \in T \ {k} : t.book[j].forSale = 0 /\ SoldOut(t, j)
    <3> TAKE j \in T \ {k}
    <3>1. s.book[j].forSale = 0 /\ SoldOut(s, j)
      BY Zenon, <1>5 DEF Walked
    <3>2. t.book[j] = s.book[j]
      BY Zenon, <1>1, <2>3 DEF Met
    <3> QED
      BY Zenon, <2>6, <3>1, <3>2 DEF SoldOut
  <2>10. t.book[n].forSale # 0 => \A j \in T : t.book[j].forSale = 0 /\ SoldOut(t, j)
    <3>1. t.book[n].forSale # 0 => t.book[k].forSale = 0 /\ SoldOut(t, k)
      BY Zenon, <2>3, <2>6 DEF Met, SoldOut
    <3> QED
      BY Zenon, <2>9, <3>1
  <2>11. \A g \in t.fills : /\ g.key \in T /\ Alike(g.new, b[n])
                            /\ \A j \in T : Better(b, j, g.key) => SoldOut(t, j)
    <3> TAKE g \in t.fills
    <3>1. g.key \in T /\ Alike(g.new, b[n])
      BY Zenon, <1>1, <2>5, <2>6 DEF Walked
    <3>2. \A j \in T : Better(b, j, g.key) => j # k
      BY Zenon, <1>3, <3>1
    <3> QED
      BY Zenon, <2>9, <3>1, <3>2
  <2> QED
    BY Zenon, <2>4, <2>5, <2>7, <2>8, <2>10, <2>11 DEF Walked, t
<1> QED
  BY Zenon, <1>4, <1>5

\* Which order of each set is met last.
LastMet(b, S) == [T \in SUBSET S |-> Hindmost(b, T)]

WalkSteps(it, S, D, b, bal, n) ==
    /\ it[{}] = Start(b, bal)
    /\ \A T \in SUBSET S : T # {} /\ Walked(it[T \ {Hindmost(b, T)}], T \ {Hindmost(b, T)}, D, b, bal, n)
         => it[T] = Match(it[T \ {Hindmost(b, T)}], n, Hindmost(b, T))

LEMMA WalkAll ==
    ASSUME NEW D, NEW b, NEW bal, NEW n, Entered(D, b, bal, n), NEW it, WalkSteps(it, Queue(b, n), D, b, bal, n)
    PROVE  \A T \in SUBSET Queue(b, n) : Walked(it[T], T, D, b, bal, n)
<1> DEFINE S == Queue(b, n)
           ch == LastMet(b, S)
           P == {T \in SUBSET S : Walked(it[T], T, D, b, bal, n)}
<1>1. S \subseteq D /\ IsFiniteSet(S) /\ Priced(b, S)
  BY Zenon, QueueFacts DEF Priced
<1>2. \A T \in SUBSET S : T # {} => Last(b, T, Hindmost(b, T))
  <2> HIDE DEF S
  <2> QED
    BY Zenon, <1>1, HindmostLast
<1>3. Chooses(ch, S)
  <2>1. \A T \in SUBSET S : ch[T] = Hindmost(b, T)
    BY Zenon DEF LastMet
  <2> HIDE DEF ch, S
  <2> QED
    BY Zenon, <1>2, <2>1 DEF Chooses, Last
<1>4. {} \in P
  <2>1. Walked(it[{}], {}, D, b, bal, n)
    BY Zenon, WalkStart DEF WalkSteps
  <2> QED
    BY Zenon, <2>1
<1>5. ASSUME NEW T \in SUBSET S, T # {}, T \ {ch[T]} \in P PROVE T \in P
  <2> DEFINE k == Hindmost(b, T)
             s == it[T \ {k}]
  <2>1. ch[T] = k
    BY Zenon DEF LastMet
  <2>2. Walked(s, T \ {k}, D, b, bal, n)
    <3> HIDE DEF ch, k
    <3> QED
      BY Zenon, <1>5, <2>1
  <2>3. it[T] = Match(s, n, k) /\ Last(b, T, k)
    BY Zenon, <1>2, <1>5, <2>2 DEF WalkSteps
  <2> HIDE DEF k, s
  <2>4. Walked(it[T], T, D, b, bal, n)
    BY Zenon, <2>2, <2>3, WalkStep
  <2> QED
    BY Zenon, <2>4
<1>6. \A T \in SUBSET S : T \in P
  <2> HIDE DEF P, ch, S
  <2> QED
    BY <1>1, <1>3, <1>4, <1>5, ChoiceInduction
<1> QED
  BY Zenon, <1>6

\* The equation of the fold.
WalkTable(it, b, bal, n) ==
    it = [T \in SUBSET Queue(b, n) |->
            IF T = {} THEN [book |-> b, balance |-> bal, fills |-> {}]
            ELSE Match(it[T \ {Hindmost(b, T)}], n, Hindmost(b, T))]

LEMMA Applied ==
    ASSUME NEW D, NEW b, NEW bal, NEW n, Entered(D, b, bal, n)
    PROVE  Walked(ApplyOrder(b, bal, n), Queue(b, n), D, b, bal, n)
<1> DEFINE S == Queue(b, n)
           V == Stage(D)
           base == Start(b, bal)
           ch == LastMet(b, S)
           Step(v, x) == Match(v, n, x)
           G == [x \in S |-> [v \in V |-> IF Step(v, x) \in V THEN Step(v, x) ELSE v]]
<1>1. S \subseteq D /\ IsFiniteSet(S) /\ Priced(b, S)
  BY Zenon, QueueFacts DEF Priced
<1>2. \A T \in SUBSET S : T # {} => Last(b, T, Hindmost(b, T))
  <2> HIDE DEF S
  <2> QED
    BY Zenon, <1>1, HindmostLast
<1>3. \A T \in SUBSET S : ch[T] = Hindmost(b, T)
  BY Zenon DEF LastMet
<1>4. Chooses(ch, S)
  <2> HIDE DEF ch, S
  <2> QED
    BY Zenon, <1>2, <1>3 DEF Chooses, Last
<1>5. G \in [S -> [V -> V]]
  BY Zenon
<1>6. base \in V
  BY Zenon, WalkStart
<1>7. PICK it : FoldTable(it, S, V, base, ch, G)
  <2> HIDE DEF S, V, base, ch, G
  <2> QED
    BY Zenon, <1>1, <1>4, <1>5, <1>6, FoldExists
<1>8. it[{}] = base
  BY Zenon, <1>7 DEF FoldTable
<1>9. ASSUME NEW T \in SUBSET S, T # {}, Walked(it[T \ {Hindmost(b, T)}], T \ {Hindmost(b, T)}, D, b, bal, n)
      PROVE  it[T] = Match(it[T \ {Hindmost(b, T)}], n, Hindmost(b, T))
  <2> DEFINE k == Hindmost(b, T)
             s == it[T \ {k}]
             t == Step(s, k)
  <2>1. Last(b, T, k) /\ k \in S /\ s \in V
    BY Zenon, <1>2, <1>9 DEF Last, Walked
  <2>2. it[T] = G[k][s]
    <3> HIDE DEF G, ch, S, V, base
    <3> QED
      BY Zenon, <1>3, <1>7, <1>9 DEF FoldTable
  <2>3. t \in V
    <3>1. Walked(t, T, D, b, bal, n)
      <4> HIDE DEF k, s
      <4> QED
        BY Zenon, <1>9, <2>1, WalkStep DEF k, s
    <3> QED
      BY Zenon, <3>1 DEF Walked
  <2>4. G[k][s] = IF Step(s, k) \in V THEN Step(s, k) ELSE s
    <3> HIDE DEF Step, S, V, k, s
    <3> QED
      BY Zenon, <2>1
  <2> HIDE DEF G, V
  <2> QED
    BY Zenon, <2>2, <2>3, <2>4
<1>10. WalkSteps(it, S, D, b, bal, n)
  BY Zenon, <1>8, <1>9 DEF WalkSteps
<1>11. \A T \in SUBSET S : Walked(it[T], T, D, b, bal, n)
  BY Zenon, <1>10, WalkAll
<1>12. WalkTable(it, b, bal, n)
  <2>1. it = [T \in SUBSET S |-> it[T]]
    BY Zenon, <1>7 DEF FoldTable
  <2>2. ASSUME NEW T \in SUBSET S
        PROVE  it[T] = IF T = {} THEN [book |-> b, balance |-> bal, fills |-> {}]
                       ELSE Match(it[T \ {Hindmost(b, T)}], n, Hindmost(b, T))
    <3>1. CASE T = {}
      BY Zenon, <1>8, <3>1 DEF Start
    <3>2. CASE T # {}
      <4>1. T \ {Hindmost(b, T)} \in SUBSET S
        BY Zenon
      <4> QED
        BY Zenon, <1>9, <1>11, <3>2, <4>1
    <3> QED
      BY Zenon, <3>1, <3>2
  <2> QED
    BY Zenon, <2>1, <2>2 DEF WalkTable
<1> DEFINE jt == CHOOSE jt : WalkTable(jt, b, bal, n)
<1>13. WalkTable(jt, b, bal, n)
  BY Zenon, <1>12
<1>14. ApplyOrder(b, bal, n) = jt[S]
  BY Zenon DEF ApplyOrder, MapThenFoldSet, WalkTable
<1> HIDE DEF jt
<1>15. WalkSteps(jt, S, D, b, bal, n)
  <2>1. jt[{}] = base
    BY Zenon, <1>13 DEF WalkTable, Start
  <2>2. ASSUME NEW T \in SUBSET S, T # {}
        PROVE  jt[T] = Match(jt[T \ {Hindmost(b, T)}], n, Hindmost(b, T))
    BY Zenon, <1>13, <2>2 DEF WalkTable
  <2> QED
    BY Zenon, <2>1, <2>2 DEF WalkSteps
<1> QED
  BY Zenon, <1>14, <1>15, WalkAll
-----------------------------------------------------------------------------
(***************************************************************************)
(* Orders come and go.                                                      *)
(***************************************************************************)
LEMMA NextKeyFacts ==
    ASSUME NEW b, DOMAIN b \subseteq 1..MaxOrders
    PROVE  NextKey(b) \in Nat /\ NextKey(b) >= 1 /\ \A k \in DOMAIN b : k < NextKey(b)
<1> DEFINE D == DOMAIN b
           m == Max({0} \cup D)
<1>1. \E x \in {0} \cup D : \A y \in {0} \cup D : x >= y
  <2>1. CASE D = {}
    BY <2>1
  <2>2. CASE D # {}
    <3> DEFINE x == Greatest(MaxOrders)[D]
    <3>1. x \in D /\ \A y \in D : x >= y
      <4>1. D \in SUBSET (1..MaxOrders) /\ MaxOrders \in Nat
        BY Zenon, MarketAssumption
      <4> HIDE DEF D
      <4> QED
        BY Zenon, <2>2, <4>1, GreatestIn
    <3>2. x \in Nat
      BY <3>1
    <3> HIDE DEF D, x
    <3> QED
      BY <3>1, <3>2
  <2> QED
    BY Zenon, <2>1, <2>2
<1>2. m \in {0} \cup D /\ \A y \in {0} \cup D : m >= y
  <2> HIDE DEF D
  <2> QED
    BY Zenon, <1>1 DEF Max
<1>3. NextKey(b) = m + 1 /\ \A k \in D : k \in Nat
  BY DEF NextKey
<1> HIDE DEF m
<1> QED
  BY <1>2, <1>3

Joins(c, b, D, n, o) ==
    /\ c \in [D \cup {n} -> Order] /\ c[n] = o /\ \A k \in D : c[k] = b[k]
    /\ Offered(c, o.sells) = Offered(b, o.sells) + o.forSale
    /\ \A u \in Symbol \ {o.sells} : Offered(c, u) = Offered(b, u)

LEMMA OfferedAdd ==
    ASSUME NEW D, IsFiniteSet(D), NEW b \in [D -> Order], NEW n, n \notin D, NEW o \in Order
    PROVE  Joins(Created(b, n, o), b, D, n, o)
<1> DEFINE c == Created(b, n, o)
           E == D \cup {n}
<1>1. c \in [E -> Order] /\ c[n] = o /\ \A k \in D : c[k] = b[k]
  BY Zenon DEF Created
<1>2. IsFiniteSet(E) /\ n \in E
  BY Zenon, FiniteAdd
<1> HIDE DEF c
<1>3. ASSUME NEW u \in Symbol
      PROVE  Offered(c, u) = Offered(b, u) + (IF o.sells = u THEN o.forSale ELSE 0)
  <2> DEFINE f == ForSale(c, u)
             g == ForSale(b, u)
  <2>1. /\ f \in [E -> Nat] /\ Offered(c, u) = SumOver(f, E)
        /\ \A k \in E : f[k] = IF c[k].sells = u THEN c[k].forSale ELSE 0
    BY <1>1, <1>2, OfferedNat
  <2>2. /\ g \in [D -> Nat] /\ Offered(b, u) = SumOver(g, D)
        /\ \A k \in D : g[k] = IF b[k].sells = u THEN b[k].forSale ELSE 0
    BY Zenon, OfferedNat
  <2>3. f[n] = (IF o.sells = u THEN o.forSale ELSE 0) /\ \A k \in D : f[k] = g[k]
    <3> HIDE DEF f, g
    <3> QED
      BY Zenon, <1>1, <1>2, <2>1, <2>2
  <2>4. IntOn(f, E) /\ AgreeOn(f, g, D)
    <3> HIDE DEF f, g
    <3> QED
      BY <2>1, <2>3 DEF IntOn, AgreeOn
  <2>5. SumOver(f, E) = SumOver(g, D) + f[n]
    <3> HIDE DEF f, g
    <3> QED
      BY Zenon, <2>4, SumGrow
  <2> QED
    BY Zenon, <2>1, <2>2, <2>3, <2>5
<1>4. o.sells \in Symbol /\ o.forSale \in Nat
  BY Zenon DEF Order
<1>5. \A u \in Symbol \ {o.sells} : Offered(c, u) = Offered(b, u)
  <2> TAKE u \in Symbol \ {o.sells}
  <2>1. Offered(c, u) = Offered(b, u) + 0 /\ Offered(b, u) \in Nat
    BY Zenon, <1>3, OfferedNat
  <2> QED
    BY <2>1
<1>6. Offered(c, o.sells) = Offered(b, o.sells) + o.forSale
  BY Zenon, <1>3, <1>4
<1> QED
  BY Zenon, <1>1, <1>5, <1>6 DEF Joins, c

Remains(c, b, R) == c = [k \in DOMAIN b \ R |-> b[k]]

Leaves(c, b, D, R) ==
    /\ c \in [D \ R -> Order] /\ \A k \in D \ R : c[k] = b[k]
    /\ \A u \in Symbol : /\ SumOver(ForSale(b, u), R) \in Nat
                         /\ Offered(c, u) = Offered(b, u) - SumOver(ForSale(b, u), R)

LEMMA OfferedRest ==
    ASSUME NEW D, IsFiniteSet(D), NEW b \in [D -> Order], NEW R \in SUBSET D, NEW c, Remains(c, b, R)
    PROVE  Leaves(c, b, D, R)
<1> DEFINE E == D \ R
<1>1. c \in [E -> Order] /\ \A k \in E : c[k] = b[k]
  BY Zenon DEF Remains
<1>2. IsFiniteSet(E) /\ IsFiniteSet(R)
  BY Zenon, FiniteSubset
<1>3. ASSUME NEW u \in Symbol
      PROVE  /\ SumOver(ForSale(b, u), R) \in Nat
             /\ Offered(c, u) = Offered(b, u) - SumOver(ForSale(b, u), R)
  <2> DEFINE f == ForSale(b, u)
             h == ForSale(c, u)
  <2>1. /\ h \in [E -> Nat] /\ Offered(c, u) = SumOver(h, E)
        /\ \A k \in E : h[k] = IF c[k].sells = u THEN c[k].forSale ELSE 0
    BY <1>1, <1>2, OfferedNat
  <2>2. /\ f \in [D -> Nat] /\ Offered(b, u) = SumOver(f, D)
        /\ \A k \in D : f[k] = IF b[k].sells = u THEN b[k].forSale ELSE 0
    BY OfferedNat
  <2> HIDE DEF f, h
  <2>3. \A k \in D \ R : f[k] = h[k]
    BY Zenon, <1>1, <2>1, <2>2
  <2>4. IntOn(f, D) /\ NatOn(f, D) /\ AgreeOn(f, f, R) /\ AgreeOn(f, h, D \ R)
    BY <2>2, <2>3 DEF IntOn, NatOn, AgreeOn
  <2>5. SumOver(h, D \ R) = SumOver(f, D) - SumOver(f, R)
    BY <2>4, SumShrink
  <2>6. SumOver(f, R) \in Nat
    BY Zenon, <2>4, SumAtLeast
  <2> QED
    BY Zenon, <2>1, <2>2, <2>5, <2>6 DEF f
<1> QED
  BY Zenon, <1>1, <1>3 DEF Leaves

\* Removing the orders that have nothing left takes nothing from what is offered.
LEMMA OfferedLive ==
    ASSUME NEW D, IsFiniteSet(D), NEW b \in [D -> Order]
    PROVE  /\ DOMAIN Live(b) \subseteq D /\ Live(b) \in [DOMAIN Live(b) -> Order]
           /\ \A k \in DOMAIN Live(b) : Live(b)[k] = b[k] /\ b[k].forSale # 0
           /\ \A u \in Symbol : Offered(Live(b), u) = Offered(b, u)
<1> DEFINE R == {j \in D : b[j].forSale = 0}
           c == Live(b)
<1>1. \A j \in D : b[j].forSale \in Nat
  BY Zenon DEF Order
<1>2. R \in SUBSET D /\ D \ R = {j \in DOMAIN b : b[j].forSale > 0} /\ DOMAIN b = D
  BY <1>1
<1>3. Remains(c, b, R)
  <2> HIDE DEF R
  <2> QED
    BY Zenon, <1>2 DEF Live, Remains
<1> HIDE DEF c
<1>4. /\ c \in [D \ R -> Order] /\ \A k \in D \ R : c[k] = b[k]
      /\ \A u \in Symbol : /\ SumOver(ForSale(b, u), R) \in Nat
                           /\ Offered(c, u) = Offered(b, u) - SumOver(ForSale(b, u), R)
  <2>1. R \in SUBSET D
    BY Zenon, <1>2
  <2> HIDE DEF R
  <2>2. Leaves(c, b, D, R)
    BY Zenon, <1>3, <2>1, OfferedRest
  <2> QED
    BY Zenon, <2>2 DEF Leaves
<1>5. ASSUME NEW u \in Symbol PROVE SumOver(ForSale(b, u), R) = 0
  <2> DEFINE f == ForSale(b, u)
  <2>1. \A k \in R : f[k] = 0
    BY Zenon DEF ForSale
  <2>2. ConstOn(f, 0, R) /\ IsFiniteSet(R) /\ 0 \in Int
    <3>1. IsFiniteSet(R)
      BY Zenon, <1>2, FiniteSubset
    <3> HIDE DEF f, R
    <3> QED
      BY <2>1, <3>1 DEF ConstOn
  <2>3. SumOver(f, R) = 0 * Cardinality(R) /\ Cardinality(R) \in Nat
    <3> HIDE DEF f, R
    <3> QED
      BY Zenon, <2>2, SumSteady, CardinalityNat
  <2> QED
    BY <2>3
<1>6. \A u \in Symbol : Offered(c, u) = Offered(b, u)
  <2> TAKE u \in Symbol
  <2>1. Offered(b, u) \in Nat
    BY Zenon, OfferedNat
  <2> HIDE DEF R
  <2> QED
    BY <1>4, <1>5, <2>1
<1>7. DOMAIN c = D \ R /\ \A k \in D \ R : b[k].forSale # 0
  BY Zenon, <1>4
<1> HIDE DEF R
<1> QED
  BY Zenon, <1>2, <1>4, <1>6, <1>7 DEF c

-----------------------------------------------------------------------------
(***************************************************************************)
(* The inductive invariant: what the runs check, and that every order of    *)
(* the book is worth something and has had its price in full so far.        *)
(***************************************************************************)
Whole == \A k \in DOMAIN book : Sound(book[k]) /\ book[k].forSale # 0

MarketInv == TypeOK /\ Conserved /\ BookUncrossed /\ FairFills /\ Whole

\* What PriceTimePriority says of a step.
InTurn == \A f \in fills' : \A k \in DOMAIN book :
            Accepts(f.new, book[k]) /\ Better(book, k, f.key) =>
              \E g \in fills' : g.key = k /\ g.old.forSale = 0

LEMMA AcceptsBoth ==
    ASSUME NEW o \in Order, NEW p \in Order
    PROVE  Accepts(o, p) <=> Accepts(p, o)
<1> DEFINE B == p.base
           Q == p.quote
           b == o.base
           q == o.quote
<1>1. B \in Nat /\ Q \in Nat /\ b \in Nat /\ q \in Nat
  BY Zenon DEF Order
<1>2. B * b = b * B /\ q * Q = Q * q
  <2> HIDE DEF B, Q, b, q
  <2> QED
    BY <1>1
<1> QED
  BY Zenon, <1>2 DEF Accepts

LEMMA AcceptsAlike ==
    ASSUME NEW o, NEW p, NEW x, NEW y, Alike(o, x), Alike(p, y), Accepts(o, p)
    PROVE  Accepts(x, y)
BY Zenon DEF Accepts, Alike

LEMMA BookFacts ==
    ASSUME TypeOK
    PROVE  /\ IsFiniteSet(DOMAIN book) /\ DOMAIN book \subseteq Nat
           /\ book \in [DOMAIN book -> Order] /\ balance \in Balances
<1>1. DOMAIN book \subseteq 1..MaxOrders /\ book \in [DOMAIN book -> Order] /\ balance \in Balances
  BY Zenon DEF TypeOK, Balances
<1>2. IsFiniteSet(1..MaxOrders) /\ 1..MaxOrders \subseteq Nat
  <2>1. 1 \in Int /\ MaxOrders \in Int /\ 1..MaxOrders \subseteq Nat
    BY MarketAssumption
  <2> QED
    BY Zenon, <2>1, FiniteInterval
<1> QED
  BY Zenon, <1>1, <1>2, FiniteSubset

Debited(bal, o) == bal = [balance EXCEPT ![o.seller][o.sells] = @ - o.forSale]

Paid(b, E, bal, n, o) ==
    /\ Entered(E, b, bal, n) /\ b[n] = o /\ \A k \in DOMAIN book : b[k] = book[k]
    /\ \A u \in Symbol : All(Start(b, bal), u) = Held(balance, u) + Offered(book, u)

\* The account pays for the order, which enters the book.
LEMMA PaidFor ==
    ASSUME TypeOK, Whole, NEW o \in Order, Sound(o), o.forSale # 0, Covered(o),
           NEW n, n \in Nat, n \notin DOMAIN book, NEW bal, Debited(bal, o)
    PROVE  Paid(Created(book, n, o), DOMAIN book \cup {n}, bal, n, o)
<1> DEFINE D == DOMAIN book
           b == Created(book, n, o)
           a == o.seller
           s == o.sells
           m == balance[a][s] - o.forSale
<1>1. IsFiniteSet(D) /\ D \subseteq Nat /\ book \in [D -> Order] /\ balance \in Balances
  BY Zenon, BookFacts
<1>2. a \in Account /\ s \in Symbol /\ o.forSale \in Nat /\ balance[a][s] \in Nat
  BY <1>1 DEF Order, Balances
<1>3. m \in Nat /\ Sets(bal, balance, a, s, m)
  BY <1>2 DEF Covered, Sets, Debited
<1> HIDE DEF m
<1>4. /\ bal \in Balances
      /\ Held(bal, s) = Held(balance, s) + (m - balance[a][s])
      /\ \A t \in Symbol \ {s} : Held(bal, t) = Held(balance, t)
  <2> HIDE DEF a, s
  <2> QED
    BY <1>1, <1>2, <1>3, BalanceSet
<1> HIDE DEF b
<1>5. /\ b \in [D \cup {n} -> Order] /\ b[n] = o /\ \A k \in D : b[k] = book[k]
      /\ Offered(b, s) = Offered(book, s) + o.forSale
      /\ \A u \in Symbol \ {s} : Offered(b, u) = Offered(book, u)
  <2>1. Joins(b, book, D, n, o)
    BY Zenon, <1>1, OfferedAdd DEF b
  <2> QED
    BY Zenon, <2>1 DEF Joins
<1>6. Entered(D \cup {n}, b, bal, n)
  <2>1. IsFiniteSet(D \cup {n}) /\ D \cup {n} \in SUBSET Nat
    BY Zenon, <1>1, FiniteAdd
  <2>2. \A j \in D \cup {n} : Sound(b[j]) /\ b[j].forSale # 0
    BY Zenon, <1>5 DEF Whole
  <2> QED
    BY Zenon, <1>4, <1>5, <2>1, <2>2 DEF Entered
<1>7. \A u \in Symbol : All(Start(b, bal), u) = Held(bal, u) + Offered(b, u)
  BY Zenon DEF All, Start
<1>8. \A u \in Symbol : Held(bal, u) + Offered(b, u) = Held(balance, u) + Offered(book, u)
  <2> TAKE u \in Symbol
  <2>1. CASE u = s
    <3>1. Held(balance, s) \in Nat /\ Offered(book, s) \in Nat
      BY Zenon, <1>1, <1>2, HeldNat, OfferedNat
    <3>2. m - balance[a][s] = -o.forSale
      BY <1>2 DEF m
    <3> QED
      BY <1>2, <1>4, <1>5, <2>1, <3>1, <3>2
  <2>2. CASE u # s
    BY Zenon, <1>4, <1>5, <2>2
  <2> QED
    BY Zenon, <2>1, <2>2
<1> QED
  BY Zenon, <1>5, <1>6, <1>7, <1>8 DEF Paid, b

LEMMA Placed ==
    ASSUME MarketInv, NEW o \in Order, Sound(o), o.forSale # 0, NEW fillOrKill, PlaceOrder(o, fillOrKill)
    PROVE  MarketInv' /\ InTurn
<1> DEFINE D == DOMAIN book
           n == NextKey(book)
           E == D \cup {n}
           b == Created(book, n, o)
           bal == [balance EXCEPT ![o.seller][o.sells] = @ - o.forSale]
           S == Queue(b, n)
           r == ApplyOrder(b, bal, n)
<1>1. TypeOK /\ Conserved /\ BookUncrossed /\ FairFills /\ Whole
  BY Zenon DEF MarketInv
<1>2. /\ Covered(o) /\ n <= MaxOrders
      /\ balance' = r.balance /\ book' = Live(r.book) /\ fills' = r.fills /\ now' = now
  BY Zenon DEF PlaceOrder
<1>3. D \subseteq 1..MaxOrders /\ now \in Nat
  BY Zenon, <1>1 DEF TypeOK
<1>4. n \in Nat /\ n >= 1 /\ n \notin D
  <2>1. n \in Nat /\ n >= 1 /\ \A k \in D : k < n
    BY Zenon, <1>3, NextKeyFacts
  <2> HIDE DEF n, D
  <2> QED
    BY <2>1
<1>5. Debited(bal, o)
  BY Zenon DEF Debited
<1>6. E \subseteq 1..MaxOrders
  <2> HIDE DEF n, D
  <2> QED
    BY <1>2, <1>3, <1>4, MarketAssumption
<1> HIDE DEF bal, n, b, E
<1>7. /\ Entered(E, b, bal, n)
      /\ b[n] = o /\ \A k \in D : b[k] = book[k]
      /\ \A u \in Symbol : All(Start(b, bal), u) = Held(balance, u) + Offered(book, u)
  <2>1. Paid(b, E, bal, n, o)
    BY Zenon, <1>1, <1>2, <1>4, <1>5, PaidFor DEF b, E
  <2> QED
    BY Zenon, <2>1 DEF Paid
<1>8. Walked(r, S, E, b, bal, n)
  BY Zenon, <1>7, Applied
<1> HIDE DEF r
<1>9. r \in Stage(E) /\ IsFiniteSet(E) /\ S \subseteq E \ {n}
  BY Zenon, <1>7, <1>8, QueueFacts DEF Walked, Entered
<1>10. r.book \in [E -> Order] /\ r.balance \in Balances
  BY Zenon, <1>9 DEF Stage
<1> DEFINE L == Live(r.book)
<1>11. /\ DOMAIN L \subseteq E /\ L \in [DOMAIN L -> Order]
       /\ \A k \in DOMAIN L : L[k] = r.book[k] /\ r.book[k].forSale # 0
       /\ \A u \in Symbol : Offered(L, u) = Offered(r.book, u)
  BY Zenon, <1>9, <1>10, OfferedLive
<1> HIDE DEF L
<1>12. book' = L
  BY Zenon, <1>2 DEF L
<1>13. TypeOK'
  <2>1. DOMAIN L \subseteq 1..MaxOrders
    BY Zenon, <1>6, <1>11
  <2> QED
    BY Zenon, <1>2, <1>3, <1>10, <1>11, <1>12, <2>1 DEF TypeOK, Balances
<1>14. Conserved'
  <2>1. ASSUME NEW u \in Symbol PROVE Held(balance', u) + Offered(book', u) = Held(Opening, u)
    <3>1. Held(balance', u) + Offered(book', u) = All(r, u)
      BY Zenon, <1>2, <1>11, <1>12 DEF All
    <3>2. All(r, u) = Held(balance, u) + Offered(book, u)
      BY Zenon, <1>7, <1>8 DEF Walked
    <3> QED
      BY Zenon, <1>1, <3>1, <3>2 DEF Conserved, Offered
  <2> QED
    BY Zenon, <2>1 DEF Conserved, Offered
<1>15. \A j \in E : Alike(r.book[j], b[j])
  BY Zenon, <1>8 DEF Walked
<1>16. \A k \in DOMAIN L : L[k] = r.book[k] /\ r.book[k].forSale # 0 /\ k \in E /\ L[k] \in Order
  BY Zenon, <1>10, <1>11
<1>17. BookUncrossed'
  <2> SUFFICES ASSUME NEW i \in DOMAIN L, NEW j \in DOMAIN L, Accepts(L[i], L[j])
               PROVE  FALSE
    BY Zenon, <1>12 DEF BookUncrossed
  <2>6. Alike(L[i], b[i]) /\ Alike(L[j], b[j]) /\ Accepts(L[j], L[i])
    BY Zenon, <1>15, <1>16, AcceptsBoth
  <2>1. Accepts(b[i], b[j])
    BY Zenon, <2>6, AcceptsAlike
  <2>2. Accepts(b[j], b[i])
    BY Zenon, <2>6, AcceptsAlike
  <2>3. ASSUME NEW k \in DOMAIN L, k # n, Accepts(b[n], b[k]), n \in DOMAIN L
        PROVE  FALSE
    <3>1. DOMAIN b = E
      BY Zenon, <1>7 DEF Entered
    <3>2. k \in S
      BY Zenon, <1>16, <2>3, <3>1 DEF Queue
    <3> QED
      BY Zenon, <1>8, <1>16, <2>3, <3>2 DEF Walked
  <2>4. CASE i = n /\ j = n
    BY Zenon, <2>1, <2>4 DEF Accepts
  <2>5. CASE i # n /\ j # n
    <3>1. i \in D /\ j \in D
      BY Zenon, <1>16, <2>5 DEF E
    <3> QED
      BY Zenon, <1>1, <1>7, <2>1, <3>1 DEF BookUncrossed
  <2> QED
    BY Zenon, <2>1, <2>2, <2>3, <2>4, <2>5
<1>18. FairFills'
  <2>1. \A f \in fills' : FairFill(f)
    BY Zenon, <1>2, <1>8 DEF Walked
  <2> QED
    BY Zenon, <2>1 DEF FairFills, FairFill, Fair
<1>19. Whole'
  BY Zenon, <1>8, <1>12, <1>16 DEF Whole, Walked
<1>20. InTurn
  <2> SUFFICES ASSUME NEW f \in fills', NEW k \in D, Accepts(f.new, book[k]), Better(book, k, f.key)
               PROVE  \E g \in fills' : g.key = k /\ g.old.forSale = 0
    BY Zenon DEF InTurn
  <2>1. f \in r.fills /\ f.key \in S /\ Alike(f.new, b[n])
    BY Zenon, <1>2, <1>8 DEF Walked
  <2>2. DOMAIN b = E /\ k \in E /\ b[k] = book[k] /\ f.key \in D /\ b[f.key] = book[f.key]
    <3>1. DOMAIN b = E
      BY Zenon, <1>7 DEF Entered
    <3>2. k \in E /\ f.key \in D
      BY Zenon, <1>9, <2>1 DEF E
    <3> QED
      BY Zenon, <1>7, <3>1, <3>2
  <2>3. Accepts(b[n], b[k]) /\ Better(b, k, f.key)
    BY Zenon, <2>1, <2>2 DEF Accepts, Alike, Better
  <2>4. k \in S
    BY Zenon, <2>2, <2>3 DEF Queue
  <2>5. SoldOut(r, k)
    BY Zenon, <1>8, <2>1, <2>3, <2>4 DEF Walked
  <2> QED
    BY Zenon, <1>2, <2>5 DEF SoldOut
<1> QED
  BY Zenon, <1>13, <1>14, <1>17, <1>18, <1>19, <1>20 DEF MarketInv

LEMMA NewOrderFact ==
    ASSUME now \in Nat, NEW owner \in Account, NEW id \in OrderId, NEW sells \in Symbol, NEW amount \in Amounts,
           NEW base \in Nat \ {0}, NEW quote \in Nat \ {0}, NEW life \in Lifetime,
           (amount * quote) \div base > 0, NEW o, o = NewOrder(owner, id, sells, amount, base, quote, life)
    PROVE  o \in Order /\ Sound(o) /\ o.forSale # 0
<1>1. amount \in Nat \ {0} /\ life \in Nat
  BY Zenon, MarketAssumption
<1>2. o \in Order /\ o.forSale = amount /\ o.base = base /\ o.quote = quote /\ o.sold = 0 /\ o.got = 0
  BY <1>1 DEF NewOrder, Order
<1>3. 0 * base >= 0 * quote
  OBVIOUS
<1> QED
  BY Zenon, <1>1, <1>2, <1>3 DEF Sound, AmountToReceive

LEMMA CreateStep ==
    ASSUME MarketInv, NEW owner \in Account, NEW id \in OrderId, NEW sells \in Symbol, NEW amount \in Amounts,
           NEW life \in Lifetime, NEW fillOrKill, NEW min \in Amounts,
           LimitOrderCreate(owner, id, sells, amount, min, life, fillOrKill)
    PROVE  MarketInv' /\ InTurn
<1> DEFINE o == NewOrder(owner, id, sells, amount, amount, min, life)
           m == amount * min
           d == m \div amount
<1>1. amount \in Nat \ {0} /\ min \in Nat \ {0} /\ now \in Nat
  BY Zenon, MarketAssumption DEF MarketInv, TypeOK
<1>2. m \in Nat /\ min * amount <= m
  BY <1>1, MulNat
<1>3. min <= d /\ d \in Nat
  <2> HIDE DEF m
  <2> QED
    BY Zenon, <1>1, <1>2, DivGreatest, DivFacts
<1>4. d > 0
  <2> HIDE DEF d
  <2> QED
    BY <1>1, <1>3
<1>5. o \in Order /\ Sound(o) /\ o.forSale # 0
  BY Zenon, <1>1, <1>4, NewOrderFact
<1>6. PlaceOrder(o, fillOrKill)
  BY Zenon DEF LimitOrderCreate
<1> HIDE DEF o
<1> QED
  BY Zenon, <1>5, <1>6, Placed

LEMMA Create2Step ==
    ASSUME MarketInv, NEW owner \in Account, NEW id \in OrderId, NEW sells \in Symbol, NEW amount \in Amounts,
           NEW life \in Lifetime, NEW fillOrKill, NEW rate \in Rates,
           LimitOrderCreate2(owner, id, sells, amount, rate, life, fillOrKill)
    PROVE  MarketInv' /\ InTurn
<1> DEFINE o == NewOrder(owner, id, sells, amount, rate[1], rate[2], life)
<1>1. rate[1] \in Nat \ {0} /\ rate[2] \in Nat \ {0} /\ now \in Nat
  BY Zenon, MarketAssumption DEF MarketInv, TypeOK
<1>2. (amount * rate[2]) \div rate[1] > 0 /\ PlaceOrder(o, fillOrKill)
  BY Zenon DEF LimitOrderCreate2
<1>3. o \in Order /\ Sound(o) /\ o.forSale # 0
  BY Zenon, <1>1, <1>2, NewOrderFact
<1> HIDE DEF o
<1> QED
  BY Zenon, <1>2, <1>3, Placed

\* Orders leave the book, and nothing is traded.
LEMMA Leaving ==
    ASSUME MarketInv, NEW R \in SUBSET DOMAIN book, Remains(book', book, R), fills' = {},
           now' \in Nat, balance' \in Balances,
           \A u \in Symbol : Held(balance', u) = Held(balance, u) + SumOver(ForSale(book, u), R)
    PROVE  MarketInv' /\ InTurn
<1> DEFINE D == DOMAIN book
<1>1. TypeOK /\ Conserved /\ BookUncrossed /\ FairFills /\ Whole
  BY Zenon DEF MarketInv
<1>2. IsFiniteSet(D) /\ D \subseteq 1..MaxOrders /\ book \in [D -> Order] /\ balance \in Balances
  BY Zenon, <1>1, BookFacts DEF TypeOK
<1>3. Leaves(book', book, D, R)
  BY Zenon, <1>2, OfferedRest
<1>4. book' \in [D \ R -> Order] /\ DOMAIN book' = D \ R /\ \A k \in D \ R : book'[k] = book[k]
  BY Zenon, <1>3 DEF Leaves
<1>5. TypeOK'
  <2>1. DOMAIN book' \subseteq 1..MaxOrders
    BY Zenon, <1>2, <1>4
  <2> QED
    BY Zenon, <1>4, <2>1 DEF TypeOK, Balances
<1>6. Conserved'
  <2>1. ASSUME NEW u \in Symbol PROVE Held(balance', u) + Offered(book', u) = Held(Opening, u)
    <3> DEFINE gone == SumOver(ForSale(book, u), R)
    <3>1. gone \in Nat /\ Offered(book', u) = Offered(book, u) - gone
      BY Zenon, <1>3 DEF Leaves
    <3>2. Held(balance', u) = Held(balance, u) + gone
      BY Zenon
    <3>3. Held(balance, u) \in Nat /\ Offered(book, u) \in Nat
      BY Zenon, <1>2, HeldNat, OfferedNat
    <3>4. Held(balance, u) + Offered(book, u) = Held(Opening, u)
      BY Zenon, <1>1 DEF Conserved, Offered
    <3> HIDE DEF gone
    <3> QED
      BY <3>1, <3>2, <3>3, <3>4
  <2> QED
    BY Zenon, <2>1 DEF Conserved, Offered
<1>7. BookUncrossed'
  BY Zenon, <1>1, <1>4 DEF BookUncrossed
<1>8. FairFills' /\ InTurn
  BY Zenon DEF FairFills, InTurn
<1>9. Whole'
  BY Zenon, <1>1, <1>4 DEF Whole
<1> QED
  BY Zenon, <1>5, <1>6, <1>7, <1>8, <1>9 DEF MarketInv

LEMMA CancelStep ==
    ASSUME MarketInv, NEW k \in DOMAIN book, CancelOrder(k)
    PROVE  MarketInv' /\ InTurn
<1> DEFINE D == DOMAIN book
           o == book[k]
<1>1. TypeOK
  BY Zenon DEF MarketInv
<1>2. IsFiniteSet(D) /\ book \in [D -> Order] /\ balance \in Balances /\ now \in Nat /\ o \in Order
  BY Zenon, <1>1, BookFacts DEF TypeOK
<1>3. o.seller \in Account /\ o.sells \in Symbol /\ o.forSale \in Nat
  BY Zenon, <1>2 DEF Order
<1>4. /\ balance' = Credit(balance, o.seller, o.sells, o.forSale)
      /\ Remains(book', book, {k}) /\ fills' = {} /\ now' = now
  BY Zenon DEF CancelOrder, Remains
<1>5. Gains(balance', balance, o.sells, o.forSale)
  BY Zenon, <1>2, <1>3, <1>4, Credited
<1>6. ASSUME NEW u \in Symbol
      PROVE  Held(balance', u) = Held(balance, u) + SumOver(ForSale(book, u), {k})
  <2> DEFINE f == ForSale(book, u)
  <2>1. f[k] = (IF o.sells = u THEN o.forSale ELSE 0) /\ f[k] \in Nat
    BY Zenon, <1>3 DEF ForSale
  <2>2. IsFiniteSet({k}) /\ {k} \ {k} = {}
    <3>1. {} \cup {k} = {k} /\ {k} \ {k} = {}
      BY Zenon
    <3> QED
      BY Zenon, <3>1, FiniteEmpty, FiniteAdd
  <2> HIDE DEF f
  <2>3. SumOver(f, {k}) = f[k]
    <3>1. IntOn(f, {k}) /\ k \in {k}
      BY <2>1 DEF IntOn
    <3>2. SumOver(f, {k}) = f[k] + SumOver(f, {})
      BY Zenon, <2>2, <3>1, SumTake
    <3> QED
      BY <2>1, <3>2, SumEmpty
  <2>4. CASE o.sells = u
    BY Zenon, <1>5, <2>1, <2>3, <2>4 DEF Gains, f
  <2>5. CASE o.sells # u
    <3>1. Held(balance', u) = Held(balance, u) /\ Held(balance, u) \in Nat /\ SumOver(f, {k}) = 0
      BY Zenon, <1>2, <1>5, <2>1, <2>3, <2>5, HeldNat DEF Gains
    <3> QED
      BY <3>1 DEF f
  <2> QED
    BY Zenon, <2>4, <2>5
<1>7. {k} \in SUBSET D /\ now' \in Nat /\ balance' \in Balances
  BY Zenon, <1>2, <1>4, <1>5 DEF Gains
<1> QED
  BY Zenon, <1>4, <1>6, <1>7, Leaving

LEMMA ClearStep ==
    ASSUME MarketInv, ClearExpiredOrders
    PROVE  MarketInv' /\ InTurn
<1> DEFINE D == DOMAIN book
           R == {k \in D : book[k].expiration < now + 1}
           seller == [k \in D |-> book[k].seller]
           Of(a) == {k \in R : book[k].seller = a}
<1>1. TypeOK
  BY Zenon DEF MarketInv
<1>2. IsFiniteSet(D) /\ book \in [D -> Order] /\ balance \in Balances /\ now \in Nat /\ R \in SUBSET D
  BY Zenon, <1>1, BookFacts DEF TypeOK
<1>3. IsFiniteSet(R) /\ IsFiniteSet(Account)
  <2> HIDE DEF R
  <2> QED
    BY Zenon, <1>2, FiniteSubset, MarketAssumption
<1>4. /\ now' = now + 1 /\ Remains(book', book, R) /\ fills' = {}
      /\ balance' = [a \in Account |-> [u \in Symbol |-> balance[a][u] + SumOver(ForSale(book, u), Of(a))]]
  BY Zenon DEF ClearExpiredOrders, Remains
<1>5. \A k \in R : seller[k] \in Account /\ seller[k] = book[k].seller
  BY Zenon, <1>2 DEF Order
<1>6. \A a : Of(a) = PartOf(seller, a, R) /\ Of(a) \subseteq D
  <2> HIDE DEF seller
  <2> QED
    BY Zenon, <1>5 DEF PartOf
<1> HIDE DEF R, seller, Of
<1>7. ASSUME NEW u \in Symbol
      PROVE  /\ \A a \in Account : SumOver(ForSale(book, u), Of(a)) \in Nat
             /\ Held(balance', u) = Held(balance, u) + SumOver(ForSale(book, u), R)
  <2> DEFINE f == ForSale(book, u)
             g == [a \in Account |-> SumOver(f, Of(a))]
             x == [a \in Account |-> balance[a][u]]
             y == [a \in Account |-> balance'[a][u]]
  <2>1. f \in [D -> Nat]
    BY Zenon, <1>2, OfferedNat
  <2> HIDE DEF f
  <2>2. NatOn(f, D) /\ IntOn(f, R)
    BY <1>2, <2>1 DEF NatOn, IntOn
  <2>3. \A a \in Account : SumOver(f, Of(a)) \in Nat
    BY Zenon, <1>2, <1>6, <2>2, SumAtLeast
  <2>4. SumOver(g, Account) = SumOver(f, R)
    <3>1. ByPart(g, f, seller, Account, R)
      BY Zenon, <1>6 DEF ByPart
    <3> HIDE DEF g
    <3> QED
      BY <1>3, <1>5, <2>2, <3>1, SumPartition
  <2>5. SumOver(y, Account) = SumOver(x, Account) + SumOver(g, Account)
    <3>1. ASSUME NEW a \in Account PROVE x[a] \in Nat /\ g[a] \in Nat /\ y[a] = x[a] + g[a]
      <4>1. x[a] = balance[a][u] /\ g[a] = SumOver(f, Of(a)) /\ y[a] = balance'[a][u]
        BY Zenon
      <4>2. balance[a][u] \in Nat
        BY Zenon, <1>2 DEF Balances
      <4>3. balance'[a][u] = balance[a][u] + SumOver(f, Of(a))
        BY Zenon, <1>4 DEF f
      <4> QED
        BY Zenon, <2>3, <4>1, <4>2, <4>3
    <3> HIDE DEF x, y, g
    <3>2. IntOn(x, Account) /\ IntOn(g, Account) /\ AddsOn(y, x, g, Account)
      BY <3>1 DEF IntOn, AddsOn
    <3> QED
      BY Zenon, <1>3, <3>2, SumPlus
  <2>6. Held(balance', u) = SumOver(y, Account) /\ Held(balance, u) = SumOver(x, Account)
    BY Zenon DEF Held
  <2> HIDE DEF x, y, g
  <2> QED
    BY Zenon, <2>3, <2>4, <2>5, <2>6 DEF f
<1>8. balance' \in Balances
  <2>1. \A a \in Account, u \in Symbol : balance[a][u] + SumOver(ForSale(book, u), Of(a)) \in Nat
    <3> TAKE a \in Account, u \in Symbol
    <3>1. balance[a][u] \in Nat
      BY Zenon, <1>2 DEF Balances
    <3>2. SumOver(ForSale(book, u), Of(a)) \in Nat
      BY Zenon, <1>7
    <3> QED
      BY <3>1, <3>2
  <2> QED
    BY Zenon, <1>4, <2>1 DEF Balances
<1>9. now' \in Nat
  BY <1>2, <1>4
<1> QED
  BY Zenon, <1>2, <1>4, <1>7, <1>8, <1>9, Leaving
-----------------------------------------------------------------------------
LEMMA MarketInit == Init => MarketInv
<1> SUFFICES ASSUME Init PROVE MarketInv
  BY Zenon
<1>1. now = 0 /\ balance = Opening /\ book = <<>> /\ fills = {}
  BY Zenon DEF Init
<1>2. DOMAIN book = {} /\ book \in [{} -> Order]
  BY <1>1
<1>3. TypeOK
  BY Zenon, <1>1, <1>2, MarketAssumption DEF TypeOK
<1>4. Conserved
  <2>1. \A u \in Symbol : Held(balance, u) \in Nat
    <3>1. balance \in Balances
      BY Zenon, <1>1, MarketAssumption DEF Balances
    <3> QED
      BY Zenon, <3>1, HeldNat
  <2>2. \A u \in Symbol : SumOver(ForSale(book, u), DOMAIN book) = 0
    BY Zenon, <1>2, SumEmpty
  <2> QED
    BY <1>1, <2>1, <2>2 DEF Conserved
<1>5. BookUncrossed /\ FairFills /\ Whole
  BY Zenon, <1>1, <1>2 DEF BookUncrossed, FairFills, Whole
<1> QED
  BY Zenon, <1>3, <1>4, <1>5 DEF MarketInv

LEMMA MarketNext == MarketInv /\ [Next]_vars => MarketInv' /\ (UNCHANGED vars \/ InTurn)
<1> SUFFICES ASSUME MarketInv, [Next]_vars PROVE MarketInv' /\ (UNCHANGED vars \/ InTurn)
  BY Zenon
<1>1. CASE UNCHANGED vars
  <2>1. now' = now /\ balance' = balance /\ book' = book /\ fills' = fills
    BY Zenon, <1>1 DEF vars
  <2>2. TypeOK' /\ Conserved' /\ BookUncrossed' /\ FairFills' /\ Whole'
    BY Zenon, <2>1 DEF MarketInv, TypeOK, Conserved, BookUncrossed, FairFills, Whole
  <2> QED
    BY Zenon, <1>1, <2>2 DEF MarketInv
<1>2. CASE Next
  BY Zenon, <1>2, CreateStep, Create2Step, CancelStep, ClearStep DEF Next
<1> QED
  BY Zenon, <1>1, <1>2

\* The invariant is inductive.
THEOREM MarketInductive == Spec => []MarketInv
BY MarketInit, MarketNext, PTL DEF Spec

\* The state keeps its type through every trade.
THEOREM MarketTyped == Spec => []TypeOK
<1>1. MarketInv => TypeOK
  BY Zenon DEF MarketInv
<1> QED
  BY <1>1, MarketInductive, PTL

(***************************************************************************)
(* apply_order, match, fill_order, cancel_order and clear_expired_orders    *)
(* create and destroy nothing, whatever is rounded off a trade.             *)
(***************************************************************************)
THEOREM TokensConserved == Spec => []Conserved
<1>1. MarketInv => Conserved
  BY Zenon DEF MarketInv
<1> QED
  BY <1>1, MarketInductive, PTL

(***************************************************************************)
(* apply_order never leaves two orders in the book that would trade.        *)
(***************************************************************************)
THEOREM NeverCrossed == Spec => []BookUncrossed
<1>1. MarketInv => BookUncrossed
  BY Zenon DEF MarketInv
<1> QED
  BY <1>1, MarketInductive, PTL

(***************************************************************************)
(* match gives every order at least its price over all its trades, rounded  *)
(* down once, and neither side gets something for nothing.                  *)
(***************************************************************************)
THEOREM FillsFair == Spec => []FairFills
<1>1. MarketInv => FairFills
  BY Zenon DEF MarketInv
<1> QED
  BY <1>1, MarketInductive, PTL

(***************************************************************************)
(* apply_order trades with an order only after every better order, and      *)
(* every older one at the same price, is sold out.                          *)
(***************************************************************************)
THEOREM PriorityKept == Spec => PriceTimePriority
<1>1. MarketInv /\ [Next]_vars => [InTurn]_vars
  BY MarketNext
<1> QED
  BY <1>1, MarketInductive, PTL DEF Spec, PriceTimePriority, InTurn
=============================================================================
