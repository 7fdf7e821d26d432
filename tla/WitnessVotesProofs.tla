-------------------------- MODULE WitnessVotesProofs --------------------------
(***************************************************************************)
(* The votes of witnesses, which the code only ever changes by differences *)
(* along chains of proxies, are at all times what a count from nothing     *)
(* would give: proofs of the invariants of WitnessVotes, for any accounts, *)
(* witnesses, depth of proxies and amounts.                                *)
(*                                                                         *)
(* The argument.  Proxies form a forest (Forest): every account has a rank,*)
(* and a proxy a smaller one than those that chose it; the walk of         *)
(* account_witness_proxy refuses a choice that would break this, as long as*)
(* the copy it looks at reads as the account it was made of, which is the  *)
(* hypothesis StaleProxy = {"kept"} of the theorems.  In a forest no account*)
(* is met twice on a climb, so a change of shares, spread over the accounts*)
(* above, adds to each exactly what the accounts below it gained (Spread), *)
(* and detaching or attaching an account moves exactly its own column of   *)
(* numbers.                                                                *)
(***************************************************************************)
EXTENDS WitnessVotes, Induction

-----------------------------------------------------------------------------
(***************************************************************************)
(* Chains of proxies.                                                       *)
(***************************************************************************)
Seat == Account \cup {Self}
Proxies == [Account -> Seat]

\* u climbs from a through n proxies.
Chain(u, px, a, n) ==
    /\ u \in [0..n -> Seat]
    /\ u[0] = a
    /\ \A d \in 1..n : u[d - 1] = Self => u[d] = Self
    /\ \A d \in 1..n : u[d - 1] # Self => u[d] = px[u[d - 1]]

ClimbTable(u, px, a, n) ==
    u = [d \in 0..n |-> IF d = 0 THEN a ELSE IF u[d - 1] = Self THEN Self ELSE px[u[d - 1]]]

\* Climb computes the chain.
LEMMA Climbs ==
    ASSUME NEW px \in Proxies, NEW a \in Account, NEW n \in Nat
    PROVE  Chain(Climb(px, a, n), px, a, n)
<1> DEFINE G == [i \in 1..n |-> [v \in Seat |-> IF v = Self THEN Self ELSE px[v]]]
<1>1. G \in [1..n -> [Seat -> Seat]] /\ a \in Seat
  BY Zenon DEF Proxies, Seat
<1>2. \E r : Runs(r, n, Seat, a, G)
  <2> HIDE DEF G
  <2> QED
    BY Zenon, <1>1, FoldRuns
<1>3. PICK r : Runs(r, n, Seat, a, G)
  BY Zenon, <1>2
<1>4. ClimbTable(r, px, a, n)
  <2>1. r \in [0..n -> Seat] /\ r[0] = a
    BY Zenon, <1>3 DEF Runs
  <2>2. ASSUME NEW d \in 1..n
        PROVE  r[d] = IF r[d - 1] = Self THEN Self ELSE px[r[d - 1]]
    <3>1. r[d] = G[d][r[d - 1]]
      BY Zenon, <1>3 DEF Runs
    <3>2. r[d - 1] \in Seat
      BY <2>1
    <3> QED
      BY Zenon, <3>1, <3>2
  <2> QED
    BY <2>1, <2>2 DEF ClimbTable
<1>5. Climb(px, a, n) = CHOOSE u : ClimbTable(u, px, a, n)
  BY Zenon DEF Climb, ClimbTable
<1> DEFINE u == Climb(px, a, n)
<1>6. ClimbTable(u, px, a, n)
  BY Zenon, <1>4, <1>5
<1> HIDE DEF u
<1>7. /\ u[0] = a
      /\ \A d \in 1..n : u[d] = IF u[d - 1] = Self THEN Self ELSE px[u[d - 1]]
  BY <1>6 DEF ClimbTable
<1> DEFINE P == {i \in 0..n : u[i] \in Seat}
<1>8. P = 0..n
  <2>1. P \in SUBSET (0..n) /\ 0 \in P
    BY <1>1, <1>7
  <2>2. ASSUME NEW i \in 1..n, i - 1 \in P
        PROVE  i \in P
    BY <1>7, <2>2 DEF Proxies, Seat
  <2> HIDE DEF P
  <2> QED
    BY SMT, <2>1, <2>2, InductionUpTo
<1>9. u \in [0..n -> Seat]
  <2>1. \A i \in 0..n : u[i] \in Seat
    BY Zenon, <1>8
  <2>2. u = [d \in 0..n |-> u[d]]
    BY Zenon, <1>6 DEF ClimbTable
  <2> QED
    BY Zenon, <2>1, <2>2
<1> QED
  BY Zenon, <1>7, <1>9 DEF Chain, u

LEMMA UpChain ==
    ASSUME NEW px \in Proxies, NEW a \in Account
    PROVE  Chain(Up(px, a), px, a, MaxDepth)
  BY Zenon, Climbs, VotesAssumption DEF Up

\* Above the top of a chain there is nobody.
LEMMA ChainSelf ==
    ASSUME NEW n \in Nat, NEW u, NEW px, NEW a, Chain(u, px, a, n),
           NEW i \in 0..n, NEW j \in 0..n, i <= j, u[i] = Self
    PROVE  u[j] = Self
<1> DEFINE P == {m \in 0..n : i <= m => u[m] = Self}
<1>1. P \in SUBSET (0..n) /\ 0 \in P
  OBVIOUS
<1>2. ASSUME NEW m \in 1..n, m - 1 \in P
      PROVE  m \in P
  <2>1. CASE m = i
    BY Zenon, <2>1
  <2>2. CASE m # i
    BY <1>2, <2>2 DEF Chain
  <2> QED
    BY Zenon, <2>1, <2>2
<1>3. P = 0..n
  <2> HIDE DEF P
  <2> QED
    BY SMT, <1>1, <1>2, InductionUpTo
<1> QED
  BY Zenon, <1>3

Joined(u, w, i, j) == u[i + j] = w[j]

\* The chain of an account of a chain is the rest of that chain.
LEMMA ChainJoin ==
    ASSUME NEW n \in Nat, NEW m \in Nat, NEW u, NEW w, NEW px, NEW a, NEW i \in 0..n,
           Chain(u, px, a, n), Chain(w, px, u[i], m), NEW j \in 0..m, i + j \in 0..n
    PROVE  Joined(u, w, i, j)
<1> DEFINE P == {d \in 0..m : i + d <= n => u[i + d] = w[d]}
<1>1. P \in SUBSET (0..m) /\ 0 \in P
  BY DEF Chain
<1>2. ASSUME NEW d \in 1..m, d - 1 \in P
      PROVE  d \in P
  <2> SUFFICES ASSUME i + d <= n PROVE u[i + d] = w[d]
    OBVIOUS
  <2>1. i + d \in 1..n /\ (i + d) - 1 = i + (d - 1)
    OBVIOUS
  <2>2. u[i + (d - 1)] = w[d - 1]
    BY <1>2
  <2>3. /\ u[i + (d - 1)] = Self => u[i + d] = Self
        /\ u[i + (d - 1)] # Self => u[i + d] = px[u[i + (d - 1)]]
    BY Zenon, <2>1 DEF Chain
  <2>4. /\ w[d - 1] = Self => w[d] = Self
        /\ w[d - 1] # Self => w[d] = px[w[d - 1]]
    BY Zenon DEF Chain
  <2> QED
    BY Zenon, <2>2, <2>3, <2>4
<1>3. P = 0..m
  <2> HIDE DEF P
  <2> QED
    BY SMT, <1>1, <1>2, InductionUpTo
<1> QED
  BY <1>3 DEF Joined

\* Proxies have no loop: every account is ranked above its proxy.
Ranks(rank, px) == /\ rank \in [Account -> Nat]
                   /\ \A x \in Account : px[x] # Self => rank[px[x]] < rank[x]
Forest(px) == \E rank : Ranks(rank, px)

LEMMA NoReturn ==
    ASSUME NEW n \in Nat, NEW u, NEW px \in Proxies, NEW a \in Account, Chain(u, px, a, n), Forest(px),
           NEW d \in 1..n
    PROVE  u[d] # a
<1>1. PICK rank : Ranks(rank, px)
  BY Zenon DEF Forest
<1> DEFINE P == {i \in 0..n : u[i] # Self => u[i] \in Account /\ rank[u[i]] + i <= rank[a]}
<1>2. P \in SUBSET (0..n) /\ 0 \in P
  BY <1>1 DEF Chain, Ranks
<1>3. ASSUME NEW i \in 1..n, i - 1 \in P
      PROVE  i \in P
  <2> SUFFICES ASSUME u[i] # Self
               PROVE  u[i] \in Account /\ rank[u[i]] + i <= rank[a]
    OBVIOUS
  <2>1. u[i - 1] # Self /\ u[i] = px[u[i - 1]]
    BY Zenon DEF Chain
  <2>2. u[i - 1] \in Account /\ rank[u[i - 1]] + (i - 1) <= rank[a]
    BY Zenon, <1>3, <2>1
  <2>3. u[i] \in Account
    BY Zenon, <2>1, <2>2 DEF Proxies, Seat
  <2>4. rank[u[i]] < rank[u[i - 1]]
    BY Zenon, <1>1, <2>1, <2>2 DEF Ranks
  <2>5. rank[u[i]] \in Nat /\ rank[u[i - 1]] \in Nat /\ rank[a] \in Nat
    BY Zenon, <1>1, <2>2, <2>3 DEF Ranks
  <2> QED
    BY <2>2, <2>3, <2>4, <2>5
<1>4. P = 0..n
  <2> HIDE DEF P
  <2> QED
    BY SMT, <1>2, <1>3, InductionUpTo
<1>5. u[d] # Self => rank[u[d]] + d <= rank[a]
  BY <1>4
<1>6. a # Self /\ rank[a] \in Nat
  BY Zenon, <1>1, VotesAssumption DEF Ranks
<1> QED
  BY <1>5, <1>6

Meets(u, i, x) == u[i] = x
Same(i, j) == i = j

\* An account is met once on a chain.
LEMMA MetOnce ==
    ASSUME NEW n \in Nat, NEW u, NEW px \in Proxies, NEW a, Chain(u, px, a, n), Forest(px),
           NEW i \in 0..n, NEW j \in 0..n, NEW x \in Account, Meets(u, i, x), Meets(u, j, x)
    PROVE  Same(i, j)
<1>1. ASSUME NEW k \in 0..n, NEW m \in 0..n, u[k] = x, u[m] = x, k < m
      PROVE  FALSE
  <2> DEFINE w == Climb(px, x, n)
  <2>1. Chain(w, px, x, n)
    BY Zenon, Climbs
  <2> HIDE DEF w
  <2>5. Chain(w, px, u[k], n)
    BY Zenon, <1>1, <2>1
  <2>2. m - k \in 1..n /\ m - k \in 0..n /\ k + (m - k) = m /\ k + (m - k) \in 0..n
    BY <1>1
  <2>6. Joined(u, w, k, m - k)
    BY Zenon, <2>2, <2>5, ChainJoin
  <2>3. u[k + (m - k)] = w[m - k]
    BY Zenon, <2>6 DEF Joined
  <2>4. w[m - k] # x
    BY Zenon, <2>1, <2>2, NoReturn
  <2> QED
    BY Zenon, <1>1, <2>2, <2>3, <2>4
<1> QED
  BY <1>1 DEF Meets, Same

\* The proxies are the same but for the one of a.
AgreeOff(px, qx, a) == \A x \in Account \ {a} : px[x] = qx[x]

Avoids(u, a, k, n) == \A i \in 0..n : i < k => u[i] # a
SameUpTo(u, w, k, n) == \A i \in 0..n : i <= k => u[i] = w[i]

\* Up to a, a chain does not depend on the proxy of a.
LEMMA ChainSame ==
    ASSUME NEW n \in Nat, NEW u, NEW w, NEW px, NEW qx, NEW b, NEW a,
           Chain(u, px, b, n), Chain(w, qx, b, n), AgreeOff(px, qx, a),
           NEW k \in 0..n, Avoids(u, a, k, n)
    PROVE  SameUpTo(u, w, k, n)
<1> DEFINE P == {i \in 0..n : i <= k => u[i] = w[i]}
<1>1. P \in SUBSET (0..n) /\ 0 \in P
  BY DEF Chain
<1>2. ASSUME NEW i \in 1..n, i - 1 \in P
      PROVE  i \in P
  <2> SUFFICES ASSUME i <= k PROVE u[i] = w[i]
    OBVIOUS
  <2>1. u[i - 1] = w[i - 1] /\ u[i - 1] # a /\ i - 1 \in 0..n
    BY <1>2 DEF Avoids
  <2>2. u[i - 1] \in Seat
    BY Zenon, <2>1 DEF Chain
  <2>3. /\ u[i - 1] = Self => u[i] = Self /\ w[i] = Self
        /\ u[i - 1] # Self => u[i] = px[u[i - 1]] /\ w[i] = qx[u[i - 1]]
    BY Zenon, <2>1 DEF Chain
  <2>4. u[i - 1] # Self => px[u[i - 1]] = qx[u[i - 1]]
    BY Zenon, <2>1, <2>2 DEF Seat, AgreeOff
  <2> QED
    BY <2>3, <2>4
<1>3. P = 0..n
  <2> HIDE DEF P
  <2> QED
    BY SMT, <1>1, <1>2, InductionUpTo
<1> QED
  BY Zenon, <1>3 DEF SameUpTo

-----------------------------------------------------------------------------
(***************************************************************************)
(* Who counts for whom.                                                     *)
(***************************************************************************)
\* The accounts k proxies below p.
Under(px, p, k) == {b \in Account : Up(px, b)[k] = p}

\* Those k + 1 proxies below p whose chain to p does not lead through a.
Free(px, a, p, k) == {b \in Account : Up(px, b)[k + 1] = p /\ \A i \in 0..k : Up(px, b)[i] # a}

\* The others, by the distance d of a from the proxy next to p.
Via(px, a, p, k) == Under(px, p, k + 1) \ Free(px, a, p, k)

Level == 0..(MaxDepth - 1)

LEMMA DepthFacts ==
    /\ MaxDepth \in Nat /\ MaxDepth >= 2
    /\ \A k \in Level : /\ k \in Nat /\ k + 1 \in Depth /\ k + 1 \in 0..MaxDepth
                        /\ \A i \in 0..k : i \in Depth /\ i \in 0..MaxDepth /\ i < k + 1
    /\ 0 \in Depth /\ Depth = 0..MaxDepth
  BY VotesAssumption DEF Level, Depth

LEMMA AccountFacts ==
    /\ IsFiniteSet(Account) /\ Self \notin Account
    /\ \A px, p, k : Under(px, p, k) \subseteq Account /\ IsFiniteSet(Under(px, p, k))
    /\ \A px, a, p, k : /\ Free(px, a, p, k) \subseteq Under(px, p, k + 1)
                        /\ IsFiniteSet(Free(px, a, p, k)) /\ IsFiniteSet(Via(px, a, p, k))
<1>1. IsFiniteSet(Account) /\ Self \notin Account
  BY Zenon, VotesAssumption
<1>2. /\ \A px, p, k : Under(px, p, k) \subseteq Account
      /\ \A px, a, p, k : Free(px, a, p, k) \subseteq Under(px, p, k + 1)
      /\ \A px, a, p, k : Free(px, a, p, k) \subseteq Account
      /\ \A px, a, p, k : Via(px, a, p, k) \subseteq Account
  BY Zenon DEF Under, Free, Via
<1> QED
  BY Zenon, <1>1, <1>2, FiniteSubset

\* Whose chain avoids a does not depend on the proxy of a.
LEMMA FreeSubset ==
    ASSUME NEW px \in Proxies, NEW qx \in Proxies, NEW a \in Account, AgreeOff(px, qx, a),
           NEW p, NEW k \in Level
    PROVE  Free(px, a, p, k) \subseteq Free(qx, a, p, k)
<1> SUFFICES ASSUME NEW b \in Free(px, a, p, k) PROVE b \in Free(qx, a, p, k)
  BY Zenon
<1> DEFINE u == Up(px, b)
           w == Up(qx, b)
<1>1. b \in Account /\ u[k + 1] = p /\ \A i \in 0..k : u[i] # a
  BY Zenon DEF Free
<1>2. Chain(u, px, b, MaxDepth) /\ Chain(w, qx, b, MaxDepth)
  BY Zenon, <1>1, UpChain
<1> HIDE DEF u, w
<1>3. MaxDepth \in Nat /\ k + 1 \in 0..MaxDepth /\ k \in Nat
  BY Zenon, DepthFacts
<1>4. Avoids(u, a, k + 1, MaxDepth)
  BY <1>1, <1>3 DEF Avoids
<1>5. SameUpTo(u, w, k + 1, MaxDepth)
  BY Zenon, <1>2, <1>3, <1>4, ChainSame
<1>6. w[k + 1] = p /\ \A i \in 0..k : w[i] # a
  BY <1>1, <1>3, <1>5 DEF SameUpTo
<1> QED
  BY Zenon, <1>1, <1>6 DEF Free, w

LEMMA FreeSame ==
    ASSUME NEW px \in Proxies, NEW qx \in Proxies, NEW a \in Account, AgreeOff(px, qx, a),
           NEW p, NEW k \in Level
    PROVE  Free(px, a, p, k) = Free(qx, a, p, k)
<1>1. AgreeOff(qx, px, a)
  BY Zenon DEF AgreeOff
<1>2. Free(px, a, p, k) \subseteq Free(qx, a, p, k)
  BY Zenon, FreeSubset
<1>3. Free(qx, a, p, k) \subseteq Free(px, a, p, k)
  BY Zenon, <1>1, FreeSubset
<1> QED
  BY Zenon, <1>2, <1>3

\* Who is below a depends on the proxies of others alone.
LEMMA FreeUnder ==
    ASSUME NEW px \in Proxies, NEW a \in Account, Forest(px), NEW k \in Level
    PROVE  Free(px, a, a, k) = Under(px, a, k + 1)
<1> SUFFICES ASSUME NEW b \in Under(px, a, k + 1), NEW i \in 0..k, Up(px, b)[i] = a
             PROVE  FALSE
  BY Zenon DEF Free, Under
<1>1. b \in Account /\ Up(px, b)[k + 1] = a
  BY Zenon DEF Under
<1>2. Chain(Up(px, b), px, b, MaxDepth)
  BY Zenon, <1>1, UpChain
<1>3. MaxDepth \in Nat /\ k + 1 \in 0..MaxDepth /\ k \in Nat /\ i \in 0..MaxDepth
  BY Zenon, DepthFacts
<1>4. Meets(Up(px, b), i, a) /\ Meets(Up(px, b), k + 1, a)
  BY Zenon, <1>1 DEF Meets
<1>5. Same(i, k + 1)
  BY Zenon, <1>1, <1>2, <1>3, <1>4, MetOnce
<1> QED
  BY <1>3, <1>5 DEF Same

\* delta is what counts for a, by distance.
Spread(delta, px, a, v) == \A i \in Depth : delta[i] = SumOver(v, Under(px, a, i))

\* The part of p's level k that reaches p through a, counted at a by distance.
LEMMA ViaSum ==
    ASSUME NEW px \in Proxies, NEW a \in Account, Forest(px), NEW v \in [Account -> Nat],
           NEW p \in Account, NEW k \in Level, NEW delta, Spread(delta, px, a, v)
    PROVE  Recorded(Up(px, a), delta, p, k) = SumOver(v, Via(px, a, p, k))
<1> DEFINE T == {d \in 0..k : Up(px, a)[d + 1] = p}
           W == Via(px, a, p, k)
           g == [d \in 0..k |-> delta[k - d]]
           At(b, d) == d \in 0..k /\ Up(px, b)[k - d] = a
           o == [b \in W |-> CHOOSE d \in 0..k : Up(px, b)[k - d] = a]
<1>1. MaxDepth \in Nat /\ k \in Nat /\ k + 1 \in 0..MaxDepth /\ k + 1 \in Depth
  BY Zenon, DepthFacts
<1>2. \A d \in 0..k : /\ k - d \in 0..k /\ k - d \in 0..MaxDepth /\ k - d \in Depth
                     /\ d + 1 \in 0..MaxDepth /\ (k - d) + (d + 1) = k + 1
                     /\ (k - d) + (d + 1) \in 0..MaxDepth /\ k - (k - d) = d
  BY <1>1 DEF Depth
<1>3. Chain(Up(px, a), px, a, MaxDepth)
  BY Zenon, UpChain
<1>4. ASSUME NEW b \in Account, NEW d \in 0..k, Up(px, b)[k - d] = a
      PROVE  Up(px, b)[k + 1] = Up(px, a)[d + 1]
  <2>1. Chain(Up(px, b), px, b, MaxDepth)
    BY Zenon, UpChain
  <2>2. Chain(Up(px, a), px, Up(px, b)[k - d], MaxDepth)
    BY Zenon, <1>3, <1>4
  <2>3. Joined(Up(px, b), Up(px, a), k - d, d + 1)
    BY Zenon, <1>1, <1>2, <2>1, <2>2, ChainJoin
  <2> QED
    BY Zenon, <1>2, <2>3 DEF Joined
<1>5. ASSUME NEW b \in W
      PROVE  b \in Account /\ o[b] \in T /\ At(b, o[b])
  <2>1. b \in Account /\ Up(px, b)[k + 1] = p
    BY Zenon DEF Via, Under
  <2>2. PICK i \in 0..k : Up(px, b)[i] = a
    BY Zenon, <2>1 DEF Via, Free
  <2>3. k - i \in 0..k /\ k - (k - i) = i
    BY <1>1
  <2>4. \E d \in 0..k : Up(px, b)[k - d] = a
    BY Zenon, <2>2, <2>3
  <2>5. o[b] \in 0..k /\ Up(px, b)[k - o[b]] = a
    BY Zenon, <2>4
  <2> HIDE DEF o
  <2>6. Up(px, a)[o[b] + 1] = p
    BY Zenon, <1>4, <2>1, <2>5
  <2> QED
    BY Zenon, <2>1, <2>5, <2>6
<1>6. ASSUME NEW d \in T
      PROVE  PartOf(o, d, W) = Under(px, a, k - d)
  <2>1. ASSUME NEW b \in PartOf(o, d, W)
        PROVE  b \in Under(px, a, k - d)
    <3>1. b \in W /\ o[b] = d
      BY Zenon DEF PartOf
    <3> HIDE DEF o, W, T
    <3> QED
      BY Zenon, <1>5, <3>1 DEF Under
  <2>2. ASSUME NEW b \in Under(px, a, k - d)
        PROVE  b \in PartOf(o, d, W)
    <3>1. b \in Account /\ Up(px, b)[k - d] = a /\ d \in 0..k /\ Up(px, a)[d + 1] = p
      BY Zenon DEF Under
    <3>2. Up(px, b)[k + 1] = p
      BY Zenon, <1>4, <3>1
    <3>3. k - d \in 0..k
      BY Zenon, <1>2, <3>1
    <3>4. b \in W
      BY Zenon, <3>1, <3>2, <3>3 DEF Via, Under, Free
    <3>5. Up(px, b)[k - o[b]] = a /\ o[b] \in 0..k
      BY Zenon, <1>5, <3>4
    <3> HIDE DEF o, W, T
    <3>6. k - o[b] \in 0..MaxDepth /\ k - d \in 0..MaxDepth
      BY Zenon, <1>2, <3>1, <3>5
    <3>7. Chain(Up(px, b), px, b, MaxDepth)
      BY Zenon, <3>1, UpChain
    <3>10. Meets(Up(px, b), k - o[b], a) /\ Meets(Up(px, b), k - d, a)
      BY Zenon, <3>1, <3>5 DEF Meets
    <3>8. Same(k - o[b], k - d)
      BY Zenon, <1>1, <3>1, <3>6, <3>7, <3>10, MetOnce
    <3>9. o[b] = d
      BY <1>1, <3>1, <3>5, <3>8 DEF Same
    <3> QED
      BY Zenon, <3>4, <3>9 DEF PartOf
  <2> QED
    BY Zenon, <2>1, <2>2
<1>7. ByPart(g, v, o, T, W)
  <2> SUFFICES ASSUME NEW d \in T PROVE g[d] = SumOver(v, PartOf(o, d, W))
    BY Zenon DEF ByPart
  <2>1. d \in 0..k
    BY Zenon
  <2>2. g[d] = delta[k - d]
    BY Zenon, <2>1
  <2>3. delta[k - d] = SumOver(v, Under(px, a, k - d))
    BY Zenon, <1>2, <2>1 DEF Spread
  <2> HIDE DEF g, o, T, W
  <2> QED
    BY Zenon, <1>6, <2>2, <2>3
<1>8. IsFiniteSet(T)
  <2>1. IsFiniteSet(0..k)
    BY <1>1, FiniteInterval
  <2>2. T \subseteq 0..k
    BY Zenon
  <2> HIDE DEF T
  <2> QED
    BY Zenon, <2>1, <2>2, FiniteSubset
<1>9. IsFiniteSet(W) /\ IntOn(v, W)
  <2>1. IsFiniteSet(W)
    BY Zenon, AccountFacts
  <2>2. \A b \in W : v[b] \in Int
    <3>1. W \subseteq Account
      BY Zenon DEF Via, Under
    <3> HIDE DEF W
    <3> QED
      BY <3>1
  <2> QED
    BY Zenon, <2>1, <2>2 DEF IntOn
<1>10. \A b \in W : o[b] \in T
  BY Zenon, <1>5
<1>11. Recorded(Up(px, a), delta, p, k) = SumOver(g, T)
  BY Zenon DEF Recorded
<1> HIDE DEF g, o, T, W
<1>12. SumOver(g, T) = SumOver(v, W)
  BY SMT, <1>7, <1>8, <1>9, <1>10, SumPartition
<1> QED
  BY Zenon, <1>11, <1>12 DEF W

\* What p counts at level k: the shares that do not come through a, and those
\* that a counts, moved up by the distance from a to p.
LEMMA LevelSum ==
    ASSUME NEW px \in Proxies, NEW a \in Account, Forest(px), NEW v \in [Account -> Nat],
           NEW p \in Account, NEW k \in Level, NEW delta, Spread(delta, px, a, v)
    PROVE  /\ SumOver(v, Under(px, p, k + 1))
                = SumOver(v, Free(px, a, p, k)) + Recorded(Up(px, a), delta, p, k)
           /\ SumOver(v, Free(px, a, p, k)) \in Int
           /\ Recorded(Up(px, a), delta, p, k) \in Int
<1> DEFINE S == Under(px, p, k + 1)
           F == Free(px, a, p, k)
<1>1. IsFiniteSet(S) /\ F \subseteq S /\ S \subseteq Account /\ IsFiniteSet(F) /\ Via(px, a, p, k) = S \ F
  BY Zenon, AccountFacts DEF Via
<1>2. Recorded(Up(px, a), delta, p, k) = SumOver(v, Via(px, a, p, k))
  BY SMT, ViaSum
<1> HIDE DEF S, F
<1>3. IntOn(v, S) /\ IntOn(v, F) /\ IntOn(v, S \ F)
  BY <1>1 DEF IntOn
<1>4. SumOver(v, S) = SumOver(v, F) + SumOver(v, S \ F)
  BY Zenon, <1>1, <1>3, SumMinus
<1>5. SumOver(v, F) \in Int /\ SumOver(v, S \ F) \in Int
  BY Zenon, <1>1, <1>3, SumInt, AccountFacts
<1> QED
  BY Zenon, <1>1, <1>2, <1>4, <1>5 DEF S, F

-----------------------------------------------------------------------------
(***************************************************************************)
(* Sums over levels and distances.                                          *)
(***************************************************************************)
LEMMA SumOne ==
    ASSUME NEW f, NEW x, f[x] \in Int
    PROVE  SumOver(f, {x}) = f[x]
<1>1. IsFiniteSet({}) /\ x \notin {} /\ {} \cup {x} = {x} /\ IntOn(f, {x})
  BY Zenon, FiniteEmpty DEF IntOn
<1>2. SumOver(f, {} \cup {x}) = f[x] + SumOver(f, {})
  BY Zenon, <1>1, SumAdd
<1>3. SumOver(f, {}) = 0
  BY Zenon, SumEmpty
<1> QED
  BY <1>1, <1>2, <1>3

LEMMA SumZero ==
    ASSUME NEW S, IsFiniteSet(S), NEW f, ConstOn(f, 0, S)
    PROVE  SumOver(f, S) = 0
<1>1. SumOver(f, S) = 0 * Cardinality(S)
  BY SumSteady
<1>2. Cardinality(S) \in Nat
  BY Zenon, CardinalityNat
<1> QED
  BY <1>1, <1>2

Opposite(h, f, S) == \A x \in S : h[x] = -f[x]

LEMMA SumNegated ==
    ASSUME NEW S, IsFiniteSet(S), NEW f, IntOn(f, S), NEW h, Opposite(h, f, S)
    PROVE  SumOver(h, S) = -SumOver(f, S)
<1> DEFINE z == [x \in S |-> 0]
<1>1. IntOn(h, S) /\ AddsOn(z, f, h, S) /\ ConstOn(z, 0, S)
  BY DEF IntOn, Opposite, AddsOn, ConstOn
<1> HIDE DEF z
<1>2. SumOver(z, S) = SumOver(f, S) + SumOver(h, S)
  BY Zenon, <1>1, SumPlus
<1>3. SumOver(z, S) = 0
  BY Zenon, <1>1, SumZero
<1>4. SumOver(f, S) \in Int /\ SumOver(h, S) \in Int
  BY Zenon, <1>1, SumInt
<1> QED
  BY <1>2, <1>3, <1>4

Shifted(f, g, m, n) == \A i \in 0..n : f[m + i] = g[i]

\* The sum over an interval that is moved.
LEMMA SumShift ==
    ASSUME NEW m \in Nat, NEW n \in Nat, NEW f, NEW g, Shifted(f, g, m, n), IntOn(g, 0..n)
    PROVE  SumOver(f, m..(m + n)) = SumOver(g, 0..n)
<1> DEFINE W == m..(m + n)
           A == 0..n
           o == [k \in W |-> k - m]
<1>1. IsFiniteSet(W) /\ IsFiniteSet(A)
  BY FiniteInterval
<1>2. \A k \in W : o[k] \in A
  OBVIOUS
<1>3. ASSUME NEW k \in W
      PROVE  f[k] = g[k - m] /\ k - m \in 0..n
  <2>1. k - m \in 0..n /\ m + (k - m) = k
    OBVIOUS
  <2> QED
    BY Zenon, <2>1 DEF Shifted
<1>4. IntOn(f, W)
  BY Zenon, <1>3 DEF IntOn
<1>5. ByPart(g, f, o, A, W)
  <2> SUFFICES ASSUME NEW i \in A PROVE g[i] = SumOver(f, PartOf(o, i, W))
    BY Zenon DEF ByPart
  <2>1. m + i \in W /\ o[m + i] = i
    OBVIOUS
  <2>2. PartOf(o, i, W) = {m + i}
    BY DEF PartOf
  <2>3. f[m + i] = g[i] /\ f[m + i] \in Int
    BY Zenon DEF Shifted, IntOn
  <2>4. SumOver(f, {m + i}) = f[m + i]
    BY Zenon, <2>3, SumOne
  <2> QED
    BY Zenon, <2>2, <2>3, <2>4
<1> HIDE DEF W, A, o
<1>6. SumOver(g, A) = SumOver(f, W)
  BY SMT, <1>1, <1>2, <1>4, <1>5, SumPartition
<1> QED
  BY Zenon, <1>6 DEF W, A

Deltas == [Depth -> Int]

LEMMA DepthFinite ==
    /\ IsFiniteSet(Depth) /\ IsFiniteSet(Level)
    /\ \A k \in Nat : IsFiniteSet(0..k)
    /\ \A S : IsFiniteSet({d \in Depth : d \in S})
<1>1. IsFiniteSet(Depth) /\ IsFiniteSet(Level) /\ \A k \in Nat : IsFiniteSet(0..k)
  BY DepthFacts, FiniteInterval DEF Level, Depth
<1>2. \A S : {d \in Depth : d \in S} \subseteq Depth
  BY Zenon
<1> QED
  BY Zenon, <1>1, <1>2, FiniteSubset

Differences(delta, k) == [d \in 0..k |-> delta[k - d]]
Stations(up, p, k) == {d \in 0..k : up[d + 1] = p}

LEMMA RecordedFacts ==
    ASSUME NEW up, NEW delta \in Deltas, NEW p, NEW k \in Level
    PROVE  /\ Recorded(up, delta, p, k) = SumOver(Differences(delta, k), Stations(up, p, k))
           /\ IsFiniteSet(Stations(up, p, k))
           /\ IntOn(Differences(delta, k), Stations(up, p, k))
           /\ Recorded(up, delta, p, k) \in Int
<1>1. k \in Nat /\ k <= MaxDepth /\ MaxDepth \in Nat
  BY DepthFacts DEF Level
<1>2. Recorded(up, delta, p, k) = SumOver(Differences(delta, k), Stations(up, p, k))
  BY Zenon DEF Recorded, Differences, Stations
<1>3. IsFiniteSet(Stations(up, p, k))
  <2>1. Stations(up, p, k) \subseteq 0..k /\ IsFiniteSet(0..k)
    BY Zenon, <1>1, DepthFinite DEF Stations
  <2> QED
    BY Zenon, <2>1, FiniteSubset
<1>4. IntOn(Differences(delta, k), Stations(up, p, k))
  BY <1>1 DEF IntOn, Differences, Stations, Deltas, Depth
<1>5. SumOver(Differences(delta, k), Stations(up, p, k)) \in Int
  BY Zenon, <1>3, <1>4, SumInt
<1> QED
  BY Zenon, <1>2, <1>3, <1>4, <1>5

\* Nothing is recorded for an account that is not above.
LEMMA RecordedNone ==
    ASSUME NEW up, NEW delta \in Deltas, NEW p, NEW k \in Level, \A d \in 1..MaxDepth : up[d] # p
    PROVE  Recorded(up, delta, p, k) = 0
<1>1. k \in Nat /\ k < MaxDepth /\ MaxDepth \in Nat
  BY DepthFacts DEF Level
<1>2. Stations(up, p, k) = {}
  BY <1>1 DEF Stations
<1>3. Recorded(up, delta, p, k) = SumOver(Differences(delta, k), Stations(up, p, k))
  BY Zenon, RecordedFacts
<1> QED
  BY Zenon, <1>2, <1>3, SumEmpty

\* The account d proxies above records a change d - 1 levels higher.
LEMMA RecordedAt ==
    ASSUME NEW px \in Proxies, NEW a \in Account, NEW up, Chain(up, px, a, MaxDepth), Forest(px),
           NEW delta \in Deltas, NEW p \in Account, NEW k \in Level, NEW d \in 1..MaxDepth, Meets(up, d, p)
    PROVE  /\ k >= d - 1 => Recorded(up, delta, p, k) = delta[k - (d - 1)]
           /\ k < d - 1 => Recorded(up, delta, p, k) = 0
<1>1. k \in Nat /\ k < MaxDepth /\ MaxDepth \in Nat /\ d \in Nat /\ d >= 1
  BY DepthFacts DEF Level
<1>2. Recorded(up, delta, p, k) = SumOver(Differences(delta, k), Stations(up, p, k))
  BY Zenon, RecordedFacts
<1>3. \A e \in Stations(up, p, k) : e = d - 1
  <2> SUFFICES ASSUME NEW e \in Stations(up, p, k) PROVE e = d - 1
    BY Zenon
  <2>1. e \in 0..k /\ e + 1 \in 0..MaxDepth /\ Meets(up, e + 1, p) /\ d \in 0..MaxDepth
    BY <1>1 DEF Stations, Meets
  <2>2. Same(e + 1, d)
    BY Zenon, <1>1, <2>1, MetOnce
  <2> QED
    BY <1>1, <2>1, <2>2 DEF Same
<1>4. CASE k >= d - 1
  <2>1. Stations(up, p, k) = {d - 1}
    <3>1. d - 1 \in 0..k /\ (d - 1) + 1 = d
      BY <1>1, <1>4
    <3>2. d - 1 \in Stations(up, p, k)
      BY Zenon, <3>1 DEF Stations, Meets
    <3> QED
      BY Zenon, <1>3, <3>2
  <2>2. Differences(delta, k)[d - 1] = delta[k - (d - 1)] /\ delta[k - (d - 1)] \in Int
    BY <1>1, <1>4 DEF Differences, Deltas, Depth
  <2>3. SumOver(Differences(delta, k), {d - 1}) = Differences(delta, k)[d - 1]
    BY Zenon, <2>2, SumOne
  <2> QED
    BY <1>1, <1>2, <1>4, <2>1, <2>2, <2>3
<1>5. CASE k < d - 1
  <2>1. Stations(up, p, k) = {}
    <3>1. ASSUME NEW e \in Stations(up, p, k) PROVE FALSE
      BY <1>1, <1>3, <1>5 DEF Stations
    <3> QED
      BY Zenon, <3>1
  <2> QED
    BY <1>1, <1>2, <1>5, <2>1, SumEmpty
<1> QED
  BY Zenon, <1>1, <1>4, <1>5

\* Of a change at the bottom, every account above records the whole once.
LEMMA RecordedSingle ==
    ASSUME NEW up, NEW n \in Int, NEW p, NEW k \in Level
    PROVE  /\ up[k + 1] = p => Recorded(up, Single(n), p, k) = n
           /\ up[k + 1] # p => Recorded(up, Single(n), p, k) = 0
<1> DEFINE g == Differences(Single(n), k)
           T == Stations(up, p, k)
<1>1. k \in Nat /\ k < MaxDepth /\ MaxDepth \in Nat
  BY DepthFacts DEF Level
<1>2. Single(n) \in Deltas
  BY DEF Single, Deltas
<1>3. Recorded(up, Single(n), p, k) = SumOver(g, T) /\ IsFiniteSet(T) /\ IntOn(g, T)
  BY Zenon, <1>2, RecordedFacts
<1>4. \A d \in 0..k : g[d] = IF d = k THEN n ELSE 0
  BY <1>1 DEF Differences, Single, Depth
<1>5. T \subseteq 0..k /\ (k \in T <=> up[k + 1] = p)
  BY <1>1 DEF Stations
<1> HIDE DEF g, T
<1>6. ConstOn(g, 0, T \ {k})
  BY Zenon, <1>4, <1>5 DEF ConstOn
<1>7. IsFiniteSet(T \ {k})
  BY Zenon, <1>3, FiniteSubset
<1>8. SumOver(g, T \ {k}) = 0
  BY Zenon, <1>6, <1>7, SumZero
<1>9. CASE up[k + 1] = p
  <2>1. SumOver(g, T) = g[k] + SumOver(g, T \ {k})
    BY Zenon, <1>3, <1>5, <1>9, SumTake
  <2>2. g[k] = n
    BY <1>1, <1>4
  <2> QED
    BY <1>3, <1>8, <1>9, <2>1, <2>2
<1>10. CASE up[k + 1] # p
  <2>1. T \ {k} = T
    BY Zenon, <1>5, <1>10
  <2> QED
    BY Zenon, <1>3, <1>8, <1>10, <2>1
<1> QED
  BY Zenon, <1>9, <1>10

-----------------------------------------------------------------------------
(***************************************************************************)
(* What a change brings to the accounts above.                              *)
(***************************************************************************)
Carry(delta) == [d \in Depth |-> Carried(delta, d)]
Steps(up, x) == {d \in Depth : up[d] = x}

\* What reaches x, and what x records.
Shares(up, delta) == [x \in Account |-> SumOver(Carry(delta), Steps(up, x))]
Gains(up, delta, x) == [k \in Level |-> Recorded(up, delta, x, k)]

LEMMA CarryFacts ==
    ASSUME NEW delta \in Deltas
    PROVE  /\ \A d \in Depth : /\ Carry(delta)[d] = SumOver(delta, 0..(MaxDepth - d))
                               /\ Carry(delta)[d] \in Int
           /\ Carry(delta)[0] = SumOver(delta, Depth)
           /\ \A S \in SUBSET Depth : IntOn(Carry(delta), S) /\ IsFiniteSet(S)
<1>1. MaxDepth \in Nat /\ 0 \in Depth
  BY Zenon, DepthFacts
<1>2. \A d \in Depth : Carry(delta)[d] = SumOver(delta, 0..(MaxDepth - d))
  BY Zenon DEF Carry, Carried
<1>3. ASSUME NEW d \in Depth
      PROVE  SumOver(delta, 0..(MaxDepth - d)) \in Int
  <2>1. IsFiniteSet(0..(MaxDepth - d)) /\ IntOn(delta, 0..(MaxDepth - d))
    BY <1>1, DepthFinite DEF Depth, IntOn, Deltas
  <2> QED
    BY Zenon, <2>1, SumInt
<1>4. 0..(MaxDepth - 0) = Depth
  BY <1>1 DEF Depth
<1>5. \A S \in SUBSET Depth : IntOn(Carry(delta), S)
  BY Zenon, <1>2, <1>3 DEF IntOn
<1>6. \A S \in SUBSET Depth : IsFiniteSet(S)
  BY Zenon, DepthFinite, FiniteSubset
<1>7. Carry(delta)[0] = SumOver(delta, Depth)
  BY Zenon, <1>1, <1>2, <1>4
<1>8. \A d \in Depth : Carry(delta)[d] \in Int
  BY Zenon, <1>2, <1>3
<1> QED
  BY Zenon, <1>2, <1>5, <1>6, <1>7, <1>8

LEMMA StepsOne ==
    ASSUME NEW px \in Proxies, NEW a \in Account, NEW up, Chain(up, px, a, MaxDepth), Forest(px),
           NEW x \in Account, NEW d \in Depth, Meets(up, d, x)
    PROVE  Steps(up, x) = {d}
<1>1. \A e \in Steps(up, x) : Same(e, d)
  <2> SUFFICES ASSUME NEW e \in Steps(up, x) PROVE Same(e, d)
    BY Zenon
  <2>1. e \in 0..MaxDepth /\ d \in 0..MaxDepth /\ Meets(up, e, x) /\ MaxDepth \in Nat
    BY Zenon, DepthFacts DEF Steps, Meets, Depth
  <2> QED
    BY Zenon, <2>1, MetOnce
<1>2. d \in Steps(up, x)
  BY Zenon DEF Steps, Meets
<1> QED
  BY Zenon, <1>1, <1>2 DEF Same

LEMMA SharesInt ==
    ASSUME NEW up, NEW delta \in Deltas
    PROVE  \A x \in Account : Shares(up, delta)[x] \in Int
<1> SUFFICES ASSUME NEW x \in Account PROVE SumOver(Carry(delta), Steps(up, x)) \in Int
  BY Zenon DEF Shares
<1>1. Steps(up, x) \in SUBSET Depth
  BY Zenon DEF Steps
<1> QED
  BY Zenon, <1>1, CarryFacts, SumInt

\* An account above a records what reaches it.
LEMMA GainAbove ==
    ASSUME NEW px \in Proxies, NEW a \in Account, NEW up, Chain(up, px, a, MaxDepth), Forest(px),
           NEW delta \in Deltas, NEW x \in Account, x # a
    PROVE  SumOver(Gains(up, delta, x), Level) = Shares(up, delta)[x]
<1> DEFINE G == Gains(up, delta, x)
<1>1. MaxDepth \in Nat /\ MaxDepth >= 2
  BY Zenon, DepthFacts
<1>2. Shares(up, delta)[x] = SumOver(Carry(delta), Steps(up, x))
  BY Zenon DEF Shares
<1>3. up[0] # x
  BY Zenon DEF Chain
<1>4. \A k \in Level : G[k] = Recorded(up, delta, x, k)
  BY Zenon DEF Gains
<1> HIDE DEF G
<1>5. CASE \A d \in 1..MaxDepth : up[d] # x
  <2>1. Steps(up, x) = {}
    BY <1>1, <1>3, <1>5 DEF Steps, Depth
  <2>2. ConstOn(G, 0, Level)
    <3> SUFFICES ASSUME NEW k \in Level PROVE G[k] = 0
      BY Zenon DEF ConstOn
    <3> QED
      BY Zenon, <1>4, <1>5, RecordedNone
  <2>3. SumOver(G, Level) = 0
    BY Zenon, <2>2, DepthFinite, SumZero
  <2> QED
    BY Zenon, <1>2, <2>1, <2>3, SumEmpty DEF G
<1>6. ASSUME NEW d \in 1..MaxDepth, up[d] = x
      PROVE  SumOver(G, Level) = Shares(up, delta)[x]
  <2> DEFINE R == 0..(d - 2)
             S == (d - 1)..((d - 1) + (MaxDepth - d))
  <2>1. /\ d \in Depth /\ d - 1 \in Nat /\ MaxDepth - d \in Nat /\ d \in Nat /\ Meets(up, d, x)
        /\ R \cup S = Level /\ R \cap S = {} /\ IsFiniteSet(R) /\ IsFiniteSet(S)
        /\ R \subseteq Level /\ S \subseteq Level
    BY <1>1, <1>6, FiniteInterval DEF Depth, Level, Meets
  <2>2. Steps(up, x) = {d}
    BY Zenon, <2>1, StepsOne
  <2>3. Carry(delta)[d] = SumOver(delta, 0..(MaxDepth - d)) /\ Carry(delta)[d] \in Int
    BY Zenon, <2>1, CarryFacts
  <2>4. Shares(up, delta)[x] = SumOver(delta, 0..(MaxDepth - d))
    BY Zenon, <1>2, <2>2, <2>3, SumOne
  <2>5. ASSUME NEW k \in Level
        PROVE  /\ k >= d - 1 => G[k] = delta[k - (d - 1)]
               /\ k < d - 1 => G[k] = 0
    <3>1. /\ k >= d - 1 => Recorded(up, delta, x, k) = delta[k - (d - 1)]
          /\ k < d - 1 => Recorded(up, delta, x, k) = 0
      BY SMT, <2>1, RecordedAt
    <3> QED
      BY Zenon, <1>4, <3>1
  <2>6. ConstOn(G, 0, R)
    BY <2>1, <2>5 DEF ConstOn
  <2>7. Shifted(G, delta, d - 1, MaxDepth - d)
    <3> SUFFICES ASSUME NEW i \in 0..(MaxDepth - d) PROVE G[(d - 1) + i] = delta[i]
      BY Zenon DEF Shifted
    <3>1. (d - 1) + i \in S /\ (d - 1) + i \in Level /\ (d - 1) + i >= d - 1 /\ ((d - 1) + i) - (d - 1) = i
      BY <2>1
    <3> HIDE DEF R, S
    <3> QED
      BY Zenon, <2>5, <3>1
  <2>8. IntOn(delta, 0..(MaxDepth - d))
    BY <1>1, <2>1 DEF IntOn, Deltas, Depth
  <2>9. SumOver(G, S) = SumOver(delta, 0..(MaxDepth - d))
    BY SMT, <2>1, <2>7, <2>8, SumShift
  <2>10. SumOver(G, R) = 0
    BY Zenon, <2>1, <2>6, SumZero
  <2>11. IntOn(G, R) /\ IntOn(G, S)
    <3>1. \A k \in Level : G[k] \in Int
      BY Zenon, <1>4, RecordedFacts
    <3> HIDE DEF R, S
    <3> QED
      BY Zenon, <2>1, <3>1 DEF IntOn
  <2> HIDE DEF R, S
  <2>12. SumOver(G, R \cup S) = SumOver(G, R) + SumOver(G, S)
    <3>1. S \cap R = {}
      BY Zenon, <2>1
    <3> QED
      BY Zenon, <2>1, <2>11, <3>1, SumUnion
  <2>13. SumOver(G, Level) = SumOver(G, R) + SumOver(G, S)
    BY Zenon, <2>1, <2>12
  <2>14. SumOver(delta, 0..(MaxDepth - d)) \in Int
    BY Zenon, <2>3
  <2> QED
    BY <2>4, <2>9, <2>10, <2>13, <2>14
<1> QED
  BY Zenon, <1>5, <1>6 DEF G

\* The change of a itself reaches a whole, and a records nothing of it.
LEMMA GainSelf ==
    ASSUME NEW px \in Proxies, NEW a \in Account, NEW up, Chain(up, px, a, MaxDepth), Forest(px),
           NEW delta \in Deltas
    PROVE  /\ Shares(up, delta)[a] = SumOver(delta, Depth)
           /\ \A k \in Level : Recorded(up, delta, a, k) = 0
<1>1. MaxDepth \in Nat /\ 0 \in Depth
  BY Zenon, DepthFacts
<1>2. Meets(up, 0, a)
  BY Zenon DEF Meets, Chain
<1>3. Steps(up, a) = {0}
  BY Zenon, <1>1, <1>2, StepsOne
<1>4. Shares(up, delta)[a] = SumOver(Carry(delta), {0})
  BY Zenon, <1>3 DEF Shares
<1>5. Carry(delta)[0] = SumOver(delta, Depth) /\ Carry(delta)[0] \in Int
  BY Zenon, <1>1, CarryFacts
<1>6. \A d \in 1..MaxDepth : up[d] # a
  BY Zenon, <1>1, NoReturn
<1>7. \A k \in Level : Recorded(up, delta, a, k) = 0
  BY Zenon, <1>6, RecordedNone
<1> QED
  BY Zenon, <1>4, <1>5, <1>7, SumOne

\* What reaches a set of accounts, step by step and account by account.
LEMMA SharesOf ==
    ASSUME NEW up, NEW delta \in Deltas, NEW N \in SUBSET Account
    PROVE  SumOver(Carry(delta), {d \in Depth : up[d] \in N}) = SumOver(Shares(up, delta), N)
<1> DEFINE W == {d \in Depth : up[d] \in N}
           o == [d \in W |-> up[d]]
           g == Shares(up, delta)
           f == Carry(delta)
<1>1. IsFiniteSet(N)
  BY Zenon, AccountFacts, FiniteSubset
<1>2. W \in SUBSET Depth /\ \A d \in W : o[d] \in N
  BY Zenon
<1>3. IsFiniteSet(W) /\ IntOn(f, W)
  BY Zenon, <1>2, CarryFacts
<1>4. ByPart(g, f, o, N, W)
  <2> SUFFICES ASSUME NEW x \in N PROVE g[x] = SumOver(f, PartOf(o, x, W))
    BY Zenon DEF ByPart
  <2>1. PartOf(o, x, W) = Steps(up, x)
    BY Zenon DEF PartOf, Steps
  <2>2. g[x] = SumOver(f, Steps(up, x))
    BY Zenon DEF Shares
  <2> QED
    BY Zenon, <2>1, <2>2
<1> HIDE DEF W, o, g, f
<1>5. SumOver(g, N) = SumOver(f, W)
  BY SMT, <1>1, <1>2, <1>3, <1>4, SumPartition
<1> QED
  BY Zenon, <1>5 DEF W, g, f

-----------------------------------------------------------------------------
(***************************************************************************)
(* adjust_proxied_witness_votes on the objects.                             *)
(***************************************************************************)
Books == [vesting : [Account -> Nat], total : Int, proxy : Proxies,
          proxied : [Account -> [Level -> Int]], approvals : SUBSET (Account \X Witness),
          votedFor : [Account -> Nat], votes : [Witness -> Int], canVote : [Account -> BOOLEAN]]

Weights(s) == [x \in Account |-> VoteWeight(s, x)]
Voters(s, w) == {x \in Account : <<x, w>> \in s.approvals}

\* Who votes has no proxy.
Unproxied(s) == \A x \in Account, w \in Witness : <<x, w>> \in s.approvals => s.proxy[x] = Self

\* t is s after adjust_proxied_witness_votes(a, delta).
SameRest(t, s) == /\ t.vesting = s.vesting /\ t.total = s.total /\ t.proxy = s.proxy
                  /\ t.approvals = s.approvals /\ t.votedFor = s.votedFor /\ t.canVote = s.canVote
RecordsMore(t, s, a, delta) ==
    \A p \in Account, k \in Level : t.proxied[p][k] = s.proxied[p][k] + Recorded(Up(s.proxy, a), delta, p, k)
VotesMore(t, s, a, delta) ==
    \A w \in Witness : t.votes[w] = s.votes[w] + SumOver(Shares(Up(s.proxy, a), delta), Voters(s, w))
WeighsMore(t, s, a, delta) ==
    /\ \A x \in Account : x # a => Weights(t)[x] = Weights(s)[x] + Shares(Up(s.proxy, a), delta)[x]
    /\ Weights(t)[a] = Weights(s)[a]
    /\ \A k \in Level : t.proxied[a][k] = s.proxied[a][k]
    /\ Shares(Up(s.proxy, a), delta)[a] = SumOver(delta, Depth)

LEMMA BooksFacts ==
    ASSUME NEW s \in Books
    PROVE  /\ s.vesting \in [Account -> Nat] /\ s.total \in Int /\ s.proxy \in Proxies
           /\ s.proxied \in [Account -> [Level -> Int]]
           /\ \A x \in Account : s.proxied[x] \in [Level -> Int]
           /\ s.approvals \subseteq Account \X Witness
           /\ s.votedFor \in [Account -> Nat] /\ s.votes \in [Witness -> Int]
           /\ s.canVote \in [Account -> BOOLEAN]
  BY Zenon DEF Books

LEMMA WeightsInt ==
    ASSUME NEW s \in Books
    PROVE  \A x \in Account : /\ Weights(s)[x] \in Int
                              /\ Weights(s)[x] = s.vesting[x] + SumOver(s.proxied[x], Level)
                              /\ SumOver(s.proxied[x], Level) \in Int
<1> SUFFICES ASSUME NEW x \in Account
             PROVE  /\ Weights(s)[x] \in Int
                    /\ Weights(s)[x] = s.vesting[x] + SumOver(s.proxied[x], Level)
                    /\ SumOver(s.proxied[x], Level) \in Int
  BY Zenon
<1>1. s.proxied[x] \in [Level -> Int] /\ s.vesting[x] \in Int
  BY BooksFacts
<1>2. IntOn(s.proxied[x], Level)
  BY Zenon, <1>1 DEF IntOn
<1>3. SumOver(s.proxied[x], Level) \in Int
  BY Zenon, <1>2, DepthFinite, SumInt
<1>4. Weights(s)[x] = s.vesting[x] + SumOver(s.proxied[x], Level)
  BY Zenon DEF Weights, VoteWeight, Level
<1> QED
  BY <1>1, <1>3, <1>4

LEMMA VotersFinite ==
    ASSUME NEW s, NEW w
    PROVE  /\ Voters(s, w) \in SUBSET Account /\ IsFiniteSet(Voters(s, w))
           /\ \A S : IsFiniteSet(Voters(s, w) \ S)
<1>1. Voters(s, w) \in SUBSET Account /\ \A S : Voters(s, w) \ S \subseteq Account
  BY Zenon DEF Voters
<1> QED
  BY Zenon, <1>1, AccountFacts, FiniteSubset

NewProxied(s, a, delta) ==
    [p \in Account |-> [k \in Level |-> s.proxied[p][k] + Recorded(Up(s.proxy, a), delta, p, k)]]
Reached(s, a, w) ==
    {d \in {e \in Depth : Up(s.proxy, a)[e] # Self /\ s.proxy[Up(s.proxy, a)[e]] = Self} :
       <<Up(s.proxy, a)[d], w>> \in s.approvals}
NewVotes(s, a, delta) == [w \in Witness |-> s.votes[w] + SumOver(Carry(delta), Reached(s, a, w))]

LEMMA PutBoth ==
    ASSUME NEW s \in Books, NEW x \in [Account -> [Level -> Int]], NEW y \in [Witness -> Int]
    PROVE  [s EXCEPT !.proxied = x, !.votes = y] \in Books
  BY Zenon DEF Books

LEMMA AdjustFields ==
    ASSUME NEW s \in Books, NEW a, NEW delta
    PROVE  /\ SameRest(AdjustProxied(s, a, delta), s)
           /\ AdjustProxied(s, a, delta).proxied = NewProxied(s, a, delta)
           /\ AdjustProxied(s, a, delta).votes = NewVotes(s, a, delta)
           /\ AdjustProxied(s, a, delta)
                = [s EXCEPT !.proxied = NewProxied(s, a, delta), !.votes = NewVotes(s, a, delta)]
<1>1. AdjustProxied(s, a, delta) = [s EXCEPT !.proxied = NewProxied(s, a, delta), !.votes = NewVotes(s, a, delta)]
  BY Zenon DEF AdjustProxied, NewProxied, NewVotes, Reached, Carry, Level
<1>2. SameRest(AdjustProxied(s, a, delta), s)
  BY Zenon, <1>1 DEF SameRest, Books
<1>3. /\ AdjustProxied(s, a, delta).proxied = NewProxied(s, a, delta)
      /\ AdjustProxied(s, a, delta).votes = NewVotes(s, a, delta)
  BY Zenon, <1>1 DEF Books
<1> QED
  BY Zenon, <1>1, <1>2, <1>3

LEMMA AdjustFacts ==
    ASSUME NEW s \in Books, NEW a \in Account, NEW delta \in Deltas, Forest(s.proxy), Unproxied(s)
    PROVE  /\ AdjustProxied(s, a, delta) \in Books
           /\ SameRest(AdjustProxied(s, a, delta), s)
           /\ RecordsMore(AdjustProxied(s, a, delta), s, a, delta)
           /\ VotesMore(AdjustProxied(s, a, delta), s, a, delta)
           /\ WeighsMore(AdjustProxied(s, a, delta), s, a, delta)
<1> DEFINE t == AdjustProxied(s, a, delta)
           up == Up(s.proxy, a)
           of(w) == Reached(s, a, w)
<1>1. /\ SameRest(t, s)
      /\ t.proxied = NewProxied(s, a, delta)
      /\ t.votes = NewVotes(s, a, delta)
      /\ t = [s EXCEPT !.proxied = NewProxied(s, a, delta), !.votes = NewVotes(s, a, delta)]
  BY Zenon, AdjustFields
<1>2. s.proxy \in Proxies /\ Chain(up, s.proxy, a, MaxDepth)
  BY Zenon, BooksFacts, UpChain
<1> HIDE DEF t, up
<1>3. \A p \in Account, k \in Level :
        /\ Recorded(up, delta, p, k) \in Int
        /\ s.proxied[p][k] \in Int
        /\ t.proxied[p][k] = s.proxied[p][k] + Recorded(up, delta, p, k)
  <2> SUFFICES ASSUME NEW p \in Account, NEW k \in Level
               PROVE  /\ Recorded(up, delta, p, k) \in Int
                      /\ s.proxied[p][k] \in Int
                      /\ t.proxied[p][k] = s.proxied[p][k] + Recorded(up, delta, p, k)
    BY Zenon
  <2>1. Recorded(up, delta, p, k) \in Int
    BY Zenon, RecordedFacts
  <2>2. s.proxied[p][k] \in Int
    BY Zenon, BooksFacts
  <2>3. NewProxied(s, a, delta)[p][k] = s.proxied[p][k] + Recorded(up, delta, p, k)
    BY Zenon DEF NewProxied, up
  <2> QED
    BY Zenon, <1>1, <2>1, <2>2, <2>3
<1>4. NewProxied(s, a, delta) \in [Account -> [Level -> Int]]
  <2>1. \A p \in Account, k \in Level : s.proxied[p][k] + Recorded(up, delta, p, k) \in Int
    BY <1>3
  <2> QED
    BY Zenon, <2>1 DEF NewProxied, up
<1>5. \A w \in Witness : of(w) = {d \in Depth : up[d] \in Voters(s, w)}
  <2> SUFFICES ASSUME NEW w \in Witness
               PROVE  of(w) = {d \in Depth : up[d] \in Voters(s, w)}
    BY Zenon
  <2>1. \A d \in Depth : up[d] # Self => up[d] \in Account
    BY Zenon, <1>2 DEF Chain, Seat, Depth
  <2>2. \A x \in Voters(s, w) : x \in Account /\ x # Self /\ s.proxy[x] = Self /\ <<x, w>> \in s.approvals
    BY Zenon, AccountFacts DEF Unproxied, Voters
  <2>3. ASSUME NEW d \in of(w)
        PROVE  d \in Depth /\ up[d] \in Voters(s, w)
    BY Zenon, <2>1, <2>3 DEF Voters, Reached, up
  <2>4. ASSUME NEW d \in Depth, up[d] \in Voters(s, w)
        PROVE  d \in of(w)
    BY Zenon, <2>2, <2>4 DEF Reached, up
  <2> QED
    BY Zenon, <2>3, <2>4
<1>6. \A w \in Witness : SumOver(Carry(delta), of(w)) = SumOver(Shares(up, delta), Voters(s, w))
  <2> SUFFICES ASSUME NEW w \in Witness
               PROVE  SumOver(Carry(delta), of(w)) = SumOver(Shares(up, delta), Voters(s, w))
    BY Zenon
  <2>1. Voters(s, w) \in SUBSET Account
    BY Zenon DEF Voters
  <2>2. SumOver(Carry(delta), {d \in Depth : up[d] \in Voters(s, w)}) = SumOver(Shares(up, delta), Voters(s, w))
    BY SMT, <2>1, SharesOf
  <2> QED
    BY Zenon, <1>5, <2>2
<1>7. \A w \in Witness : t.votes[w] = s.votes[w] + SumOver(Shares(up, delta), Voters(s, w))
  <2> QED
    BY Zenon, <1>1, <1>6 DEF NewVotes
<1>8. \A w \in Witness : SumOver(Shares(up, delta), Voters(s, w)) \in Int
  <2> SUFFICES ASSUME NEW w \in Witness
               PROVE  SumOver(Shares(up, delta), Voters(s, w)) \in Int
    BY Zenon
  <2>1. IntOn(Shares(up, delta), Voters(s, w))
    BY Zenon, SharesInt, VotersFinite DEF IntOn
  <2> QED
    BY Zenon, <2>1, VotersFinite, SumInt
<1>9. NewVotes(s, a, delta) \in [Witness -> Int]
  <2>1. \A w \in Witness : s.votes[w] \in Int
    BY Zenon, BooksFacts
  <2>2. \A w \in Witness : s.votes[w] + SumOver(Carry(delta), of(w)) \in Int
    <3> QED
      BY <1>6, <1>8, <2>1
  <2> QED
    BY Zenon, <2>2 DEF NewVotes
<1>10. t \in Books
  BY Zenon, <1>1, <1>4, <1>9, PutBoth
<1>11. ASSUME NEW x \in Account, x # a
       PROVE  Weights(t)[x] = Weights(s)[x] + Shares(up, delta)[x]
  <2>1. AddsOn(t.proxied[x], s.proxied[x], Gains(up, delta, x), Level)
    BY Zenon, <1>3 DEF AddsOn, Gains
  <2>2. IntOn(s.proxied[x], Level) /\ IntOn(Gains(up, delta, x), Level)
    BY Zenon, <1>3 DEF IntOn, Gains
  <2>3. SumOver(t.proxied[x], Level) = SumOver(s.proxied[x], Level) + SumOver(Gains(up, delta, x), Level)
    BY Zenon, <2>1, <2>2, DepthFinite, SumPlus
  <2>4. SumOver(Gains(up, delta, x), Level) = Shares(up, delta)[x]
    BY SMT, <1>2, <1>11, GainAbove
  <2>5. t.vesting = s.vesting /\ s.vesting[x] \in Int
    BY <1>1, BooksFacts DEF SameRest
  <2>6. Shares(up, delta)[x] \in Int
    BY Zenon, SharesInt
  <2>7. /\ Weights(t)[x] = t.vesting[x] + SumOver(t.proxied[x], Level)
        /\ Weights(s)[x] = s.vesting[x] + SumOver(s.proxied[x], Level)
        /\ SumOver(s.proxied[x], Level) \in Int
    BY Zenon, <1>10, WeightsInt
  <2> QED
    BY <2>3, <2>4, <2>5, <2>6, <2>7
<1>12. Shares(up, delta)[a] = SumOver(delta, Depth) /\ \A k \in Level : Recorded(up, delta, a, k) = 0
  BY SMT, <1>2, GainSelf
<1>13. \A k \in Level : t.proxied[a][k] = s.proxied[a][k]
  BY <1>3, <1>12
<1>14. Weights(t)[a] = Weights(s)[a]
  <2>1. IntOn(t.proxied[a], Level) /\ AgreeOn(t.proxied[a], s.proxied[a], Level)
    BY Zenon, <1>3, <1>13 DEF IntOn, AgreeOn
  <2>2. SumOver(t.proxied[a], Level) = SumOver(s.proxied[a], Level)
    BY Zenon, <2>1, DepthFinite, SumCong
  <2>3. t.vesting = s.vesting
    BY Zenon, <1>1 DEF SameRest
  <2>4. /\ Weights(t)[a] = t.vesting[a] + SumOver(t.proxied[a], Level)
        /\ Weights(s)[a] = s.vesting[a] + SumOver(s.proxied[a], Level)
    BY Zenon, <1>10, WeightsInt
  <2> QED
    BY Zenon, <2>2, <2>3, <2>4
<1>15. RecordsMore(t, s, a, delta)
  BY Zenon, <1>3 DEF RecordsMore, up
<1>16. VotesMore(t, s, a, delta)
  BY Zenon, <1>7 DEF VotesMore, up
<1>17. WeighsMore(t, s, a, delta)
  BY Zenon, <1>11, <1>12, <1>13, <1>14 DEF WeighsMore, up
<1> QED
  BY Zenon, <1>1, <1>10, <1>15, <1>16, <1>17 DEF t

-----------------------------------------------------------------------------
(***************************************************************************)
(* The changes that are passed on.                                          *)
(***************************************************************************)
LEMMA SingleSum ==
    ASSUME NEW n \in Int
    PROVE  Single(n) \in Deltas /\ SumOver(Single(n), Depth) = n
<1>1. Single(n) \in Deltas /\ Single(n)[0] = n
  BY DepthFacts DEF Single, Deltas
<1>2. ConstOn(Single(n), 0, Depth \ {0})
  BY Zenon DEF ConstOn, Single
<1>3. IntOn(Single(n), Depth)
  BY Zenon, <1>1 DEF IntOn, Deltas
<1>4. IsFiniteSet(Depth \ {0})
  BY Zenon, DepthFinite, FiniteSubset
<1>5. SumOver(Single(n), Depth) = Single(n)[0] + SumOver(Single(n), Depth \ {0})
  BY Zenon, <1>3, DepthFacts, DepthFinite, SumTake
<1>6. SumOver(Single(n), Depth \ {0}) = 0
  BY Zenon, <1>2, <1>4, SumZero
<1> QED
  BY <1>1, <1>5, <1>6

LEMMA NegatedFacts ==
    ASSUME NEW delta \in Deltas
    PROVE  /\ Negated(delta) \in Deltas
           /\ SumOver(Negated(delta), Depth) = -SumOver(delta, Depth)
           /\ \A up, p : \A k \in Level : Recorded(up, Negated(delta), p, k) = -Recorded(up, delta, p, k)
<1>1. Negated(delta) \in Deltas /\ Opposite(Negated(delta), delta, Depth) /\ IntOn(delta, Depth)
  BY DEF Negated, Deltas, Opposite, IntOn
<1>2. SumOver(Negated(delta), Depth) = -SumOver(delta, Depth)
  BY Zenon, <1>1, DepthFinite, SumNegated
<1>3. ASSUME NEW up, NEW p, NEW k \in Level
      PROVE  Recorded(up, Negated(delta), p, k) = -Recorded(up, delta, p, k)
  <2> DEFINE T == Stations(up, p, k)
  <2>1. /\ Recorded(up, delta, p, k) = SumOver(Differences(delta, k), T)
        /\ IsFiniteSet(T) /\ IntOn(Differences(delta, k), T)
    BY Zenon, RecordedFacts
  <2>2. Recorded(up, Negated(delta), p, k) = SumOver(Differences(Negated(delta), k), T)
    BY Zenon, <1>1, RecordedFacts
  <2>3. Opposite(Differences(Negated(delta), k), Differences(delta, k), T)
    BY DepthFacts DEF Opposite, Differences, Negated, Depth, Level, Stations
  <2> HIDE DEF T
  <2>4. SumOver(Differences(Negated(delta), k), T) = -SumOver(Differences(delta, k), T)
    BY Zenon, <2>1, <2>3, SumNegated
  <2> QED
    BY Zenon, <2>1, <2>2, <2>4
<1> QED
  BY Zenon, <1>1, <1>2, <1>3

\* All that an account votes with is its weight.
LEMMA WholeSum ==
    ASSUME NEW s \in Books, NEW a \in Account
    PROVE  /\ Whole(s, a) \in Deltas
           /\ SumOver(Whole(s, a), Depth) = Weights(s)[a]
           /\ Whole(s, a)[0] = s.vesting[a]
           /\ \A i \in Depth : i # 0 => Whole(s, a)[i] = s.proxied[a][i - 1]
<1> DEFINE f == Whole(s, a)
           g == s.proxied[a]
           S == 1..(1 + (MaxDepth - 1))
<1>1. MaxDepth \in Nat /\ MaxDepth >= 2 /\ MaxDepth - 1 \in Nat
  BY DepthFacts
<1>2. s.vesting[a] \in Int /\ g \in [Level -> Int]
  BY BooksFacts
<1>3. f[0] = s.vesting[a] /\ \A i \in Depth : i # 0 => f[i] = g[i - 1] /\ i - 1 \in Level
  BY <1>1 DEF Whole, Depth, Level
<1>4. f \in Deltas
  BY <1>1, <1>2 DEF Whole, Depth, Level, Deltas
<1> HIDE DEF f, g
<1>5. Shifted(f, g, 1, MaxDepth - 1)
  <2> SUFFICES ASSUME NEW i \in 0..(MaxDepth - 1) PROVE f[1 + i] = g[i]
    BY Zenon DEF Shifted
  <2>1. 1 + i \in Depth /\ 1 + i # 0 /\ (1 + i) - 1 = i
    BY <1>1 DEF Depth
  <2> QED
    BY Zenon, <1>3, <2>1
<1>6. IntOn(g, 0..(MaxDepth - 1)) /\ Level = 0..(MaxDepth - 1)
  BY Zenon, <1>2 DEF IntOn, Level
<1>7. SumOver(f, S) = SumOver(g, 0..(MaxDepth - 1))
  BY SMT, <1>1, <1>5, <1>6, SumShift
<1>8. S \cup {0} = Depth /\ 0 \notin S /\ IsFiniteSet(S)
  BY <1>1, FiniteInterval DEF Depth
<1> HIDE DEF S
<1>9. IntOn(f, S \cup {0})
  BY Zenon, <1>4, <1>8 DEF IntOn, Deltas
<1>10. SumOver(f, S \cup {0}) = f[0] + SumOver(f, S)
  BY Zenon, <1>8, <1>9, SumAdd
<1>11. Weights(s)[a] = s.vesting[a] + SumOver(g, Level)
  BY Zenon, WeightsInt DEF g
<1>12. SumOver(f, Depth) = Weights(s)[a]
  BY Zenon, <1>3, <1>6, <1>7, <1>8, <1>10, <1>11
<1> QED
  BY Zenon, <1>3, <1>4, <1>12 DEF f, g

LEMMA UnderSelf ==
    ASSUME NEW px \in Proxies, NEW a \in Account
    PROVE  Under(px, a, 0) = {a}
<1>1. \A b \in Account : Up(px, b)[0] = b
  BY Zenon, UpChain DEF Chain
<1> QED
  BY Zenon, <1>1 DEF Under

\* proxied_vsf_votes of every account counts who is below it.
Matches(s) == \A p \in Account, k \in Level : s.proxied[p][k] = SumOver(s.vesting, Under(s.proxy, p, k + 1))

LEMMA WholeSpread ==
    ASSUME NEW s \in Books, NEW a \in Account, NEW px \in Proxies,
           \A k \in Level : s.proxied[a][k] = SumOver(s.vesting, Under(px, a, k + 1))
    PROVE  Spread(Whole(s, a), px, a, s.vesting)
<1> SUFFICES ASSUME NEW i \in Depth PROVE Whole(s, a)[i] = SumOver(s.vesting, Under(px, a, i))
  BY Zenon DEF Spread
<1>1. CASE i = 0
  <2>1. s.vesting[a] \in Int
    BY BooksFacts
  <2>2. SumOver(s.vesting, {a}) = s.vesting[a]
    BY Zenon, <2>1, SumOne
  <2>3. Under(px, a, i) = {a}
    BY Zenon, <1>1, UnderSelf
  <2>4. Whole(s, a)[i] = s.vesting[a]
    BY Zenon, <1>1, WholeSum
  <2> QED
    BY Zenon, <2>2, <2>3, <2>4
<1>2. CASE i # 0
  <2>1. i - 1 \in Level /\ (i - 1) + 1 = i
    BY <1>2, DepthFacts DEF Depth, Level
  <2>2. Whole(s, a)[i] = s.proxied[a][i - 1]
    BY Zenon, <1>2, WholeSum
  <2> QED
    BY Zenon, <2>1, <2>2
<1> QED
  BY Zenon, <1>1, <1>2
-----------------------------------------------------------------------------
(***************************************************************************)
(* The invariant, as one of the objects.                                    *)
(***************************************************************************)
Tallied(s) == \A w \in Witness : s.votes[w] = SumOver(Weights(s), Voters(s, w))
Ballots(s, x) == {v \in s.approvals : v[1] = x}
Entitled(s) == \A x \in Account, w \in Witness : <<x, w>> \in s.approvals => s.canVote[x]
BallotsCounted(s) == /\ IsFiniteSet(s.approvals)
                     /\ \A x \in Account : s.votedFor[x] = Cardinality(Ballots(s, x))

Limited(s) == \A x \in Account : s.votedFor[x] <= MaxVotes

\* Who votes, and for how many.
Polled(s) == Unproxied(s) /\ Entitled(s) /\ BallotsCounted(s) /\ Limited(s)

Good(s) == /\ s \in Books /\ Forest(s.proxy) /\ Matches(s) /\ Tallied(s) /\ Polled(s)

LEMMA PolledSame ==
    ASSUME NEW s, Polled(s), NEW t, t.approvals = s.approvals, t.proxy = s.proxy,
           t.canVote = s.canVote, t.votedFor = s.votedFor
    PROVE  Polled(t)
  BY SMT DEF Polled, Unproxied, Entitled, BallotsCounted, Ballots, Limited

\* t is s with n shares more for a, before the votes are adjusted.
Endowed(t, s, a, n) ==
    /\ t \in Books
    /\ t.vesting = [s.vesting EXCEPT ![a] = @ + n]
    /\ t.proxy = s.proxy /\ t.proxied = s.proxied /\ t.approvals = s.approvals
    /\ t.votedFor = s.votedFor /\ t.votes = s.votes /\ t.canVote = s.canVote

\* Shares that come or go, and the adjustment that follows.
LEMMA EndowedGood ==
    ASSUME NEW s, Good(s), NEW a \in Account, NEW n \in Int, NEW e, Endowed(e, s, a, n)
    PROVE  /\ Good(AdjustProxied(e, a, Single(n)))
           /\ AdjustProxied(e, a, Single(n)).total = e.total
           /\ AdjustProxied(e, a, Single(n)).vesting = e.vesting
           /\ SumOver(e.vesting, Account) = SumOver(s.vesting, Account) + n
<1> DEFINE t == AdjustProxied(e, a, Single(n))
           px == s.proxy
           up == Up(px, a)
           v == s.vesting
           y == e.vesting
           sh == Shares(up, Single(n))
<1>1. /\ s \in Books /\ Forest(px) /\ Matches(s) /\ Tallied(s) /\ Polled(s)
      /\ e \in Books /\ e.proxy = px /\ e.proxied = s.proxied /\ e.approvals = s.approvals
      /\ e.votedFor = s.votedFor /\ e.votes = s.votes /\ e.canVote = s.canVote
      /\ y = [v EXCEPT ![a] = @ + n]
  BY Zenon DEF Good, Endowed
<1>2. px \in Proxies /\ v \in [Account -> Nat] /\ y \in [Account -> Nat]
  BY Zenon, <1>1, BooksFacts
<1>3. Polled(e)
  BY Zenon, <1>1, PolledSame
<1>4. /\ t \in Books /\ SameRest(t, e) /\ RecordsMore(t, e, a, Single(n))
      /\ VotesMore(t, e, a, Single(n)) /\ WeighsMore(t, e, a, Single(n))
  <2>1. Forest(e.proxy) /\ Unproxied(e)
    BY Zenon, <1>1, <1>3 DEF Polled
  <2> QED
    BY Zenon, <1>1, <2>1, SingleSum, AdjustFacts
<1> HIDE DEF t, px, v, y
<1>5. /\ t.vesting = y /\ t.total = e.total /\ t.proxy = px /\ t.approvals = s.approvals
      /\ t.votedFor = s.votedFor /\ t.canVote = s.canVote
  BY Zenon, <1>1, <1>4 DEF SameRest, y
<1>6. Polled(t)
  BY Zenon, <1>1, <1>5, PolledSame DEF px
<1>7. y[a] = v[a] + n /\ v[a] \in Int /\ \A x \in Account : x # a => y[x] = v[x]
  BY <1>1, <1>2
<1>8. ASSUME NEW p \in Account, NEW k \in Level
      PROVE  t.proxied[p][k] = SumOver(y, Under(px, p, k + 1))
  <2> DEFINE U == Under(px, p, k + 1)
  <2>1. t.proxied[p][k] = s.proxied[p][k] + Recorded(up, Single(n), p, k)
    BY Zenon, <1>1, <1>4 DEF RecordsMore
  <2>2. s.proxied[p][k] = SumOver(v, U)
    BY Zenon, <1>1 DEF Matches, px, v
  <2>3. a \in U <=> up[k + 1] = p
    BY Zenon DEF Under
  <2>4. IsFiniteSet(U) /\ U \subseteq Account
    BY Zenon, AccountFacts
  <2>5. /\ up[k + 1] = p => Recorded(up, Single(n), p, k) = n
        /\ up[k + 1] # p => Recorded(up, Single(n), p, k) = 0
    BY SMT, RecordedSingle
  <2> HIDE DEF U, up
  <2>6. IntOn(v, U) /\ IntOn(y, U) /\ AgreeOn(v, y, U \ {a})
    BY <1>2, <1>7, <2>4 DEF IntOn, AgreeOn
  <2>7. SumOver(v, U) \in Int
    BY Zenon, <2>4, <2>6, SumInt
  <2>8. CASE a \in U
    <3>1. SumOver(y, U) = SumOver(v, U) + (y[a] - v[a])
      BY Zenon, <2>4, <2>6, <2>8, SumChange
    <3> QED
      BY <1>7, <2>1, <2>2, <2>3, <2>5, <2>7, <2>8, <3>1 DEF U
  <2>9. CASE a \notin U
    <3>1. AgreeOn(v, y, U)
      BY Zenon, <1>7, <2>4, <2>9 DEF AgreeOn
    <3>2. SumOver(v, U) = SumOver(y, U)
      BY Zenon, <2>4, <2>6, <3>1, SumCong
    <3> QED
      BY <2>1, <2>2, <2>3, <2>5, <2>7, <2>9, <3>2 DEF U
  <2> QED
    BY Zenon, <2>8, <2>9
<1>9. Matches(t)
  BY Zenon, <1>5, <1>8 DEF Matches
<1>10. /\ \A x \in Account : Weights(s)[x] \in Int /\ sh[x] \in Int
       /\ \A x \in Account : Weights(t)[x] = Weights(s)[x] + sh[x]
  <2>1. \A x \in Account : Weights(s)[x] \in Int /\ Weights(s)[x] = v[x] + SumOver(s.proxied[x], Level)
    BY Zenon, <1>1, WeightsInt DEF v
  <2>2. \A x \in Account : Weights(e)[x] = y[x] + SumOver(s.proxied[x], Level) /\ SumOver(s.proxied[x], Level) \in Int
    BY Zenon, <1>1, WeightsInt DEF y
  <2>3. \A x \in Account : sh[x] \in Int
    BY Zenon, SingleSum, SharesInt
  <2>4. /\ \A x \in Account : x # a => Weights(t)[x] = Weights(e)[x] + sh[x]
        /\ Weights(t)[a] = Weights(e)[a] /\ sh[a] = SumOver(Single(n), Depth)
    BY Zenon, <1>1, <1>4 DEF WeighsMore
  <2>5. sh[a] = n
    BY Zenon, <2>4, SingleSum
  <2> HIDE DEF sh
  <2>6. Weights(t)[a] = Weights(s)[a] + sh[a]
    BY <1>7, <2>1, <2>2, <2>4, <2>5
  <2>7. \A x \in Account : x # a => Weights(t)[x] = Weights(s)[x] + sh[x]
    BY <1>7, <2>1, <2>2, <2>4
  <2> QED
    BY Zenon, <2>1, <2>3, <2>6, <2>7
<1>11. Tallied(t)
  <2> SUFFICES ASSUME NEW w \in Witness PROVE t.votes[w] = SumOver(Weights(t), Voters(t, w))
    BY Zenon DEF Tallied
  <2> DEFINE N == Voters(s, w)
  <2>1. Voters(t, w) = N /\ Voters(e, w) = N
    BY Zenon, <1>1, <1>5 DEF Voters
  <2>2. N \in SUBSET Account /\ IsFiniteSet(N)
    BY Zenon, VotersFinite
  <2>3. t.votes[w] = s.votes[w] + SumOver(sh, Voters(e, w))
    BY Zenon, <1>1, <1>4 DEF VotesMore
  <2>4. s.votes[w] = SumOver(Weights(s), N)
    BY Zenon, <1>1 DEF Tallied
  <2> HIDE DEF N, sh
  <2>5. IntOn(Weights(s), N) /\ IntOn(sh, N) /\ AddsOn(Weights(t), Weights(s), sh, N)
    BY Zenon, <1>10, <2>2 DEF IntOn, AddsOn
  <2>6. SumOver(Weights(t), N) = SumOver(Weights(s), N) + SumOver(sh, N)
    BY Zenon, <2>2, <2>5, SumPlus
  <2> QED
    BY Zenon, <2>1, <2>3, <2>4, <2>6
<1>12. Good(t)
  BY Zenon, <1>1, <1>4, <1>5, <1>6, <1>9, <1>11 DEF Good
<1>13. SumOver(y, Account) = SumOver(v, Account) + n
  <2>1. IntOn(v, Account) /\ IntOn(y, Account) /\ AgreeOn(v, y, Account \ {a})
    BY <1>2, <1>7 DEF IntOn, AgreeOn
  <2>2. SumOver(y, Account) = SumOver(v, Account) + (y[a] - v[a])
    BY SMT, <2>1, AccountFacts, SumChange
  <2> QED
    BY <1>7, <2>2
<1> QED
  BY Zenon, <1>5, <1>12, <1>13 DEF t, v, y

-----------------------------------------------------------------------------
(***************************************************************************)
(* An account that leaves its proxy: what it passed on is taken back, and   *)
(* nobody above counts it or those below it.                                *)
(***************************************************************************)
Detached(t, s, a) ==
    /\ t \in Books /\ SameRest(t, s)
    /\ \A p \in Account, k \in Level : t.proxied[p][k] = SumOver(s.vesting, Free(s.proxy, a, p, k))
    /\ \A w \in Witness : t.votes[w] = SumOver(Weights(t), Voters(s, w) \ {a})

\* The sum over what is left when a counts nothing.
LEMMA SumWithout ==
    ASSUME NEW N \in SUBSET Account, NEW a \in Account, NEW f, NEW g, NEW h,
           IntOn(f, N), IntOn(g, N), AddsOn(h, f, g, N \ {a}), f[a] + g[a] = 0
    PROVE  SumOver(f, N) + SumOver(g, N) = SumOver(h, N \ {a})
<1> DEFINE z == [x \in Account |-> f[x] + g[x]]
           M == N \ {a}
<1>1. IsFiniteSet(N) /\ IsFiniteSet(M)
  BY Zenon, AccountFacts, FiniteSubset
<1>2. IntOn(z, N) /\ IntOn(z, M) /\ AddsOn(z, f, g, N) /\ AgreeOn(z, h, M) /\ z[a] = 0
  BY DEF IntOn, AddsOn, AgreeOn
<1> HIDE DEF z
<1>3. SumOver(z, N) = SumOver(f, N) + SumOver(g, N)
  BY Zenon, <1>1, <1>2, SumPlus
<1>4. SumOver(z, M) = SumOver(h, M) /\ SumOver(z, M) \in Int
  BY Zenon, <1>1, <1>2, SumCong, SumInt
<1>5. CASE a \in N
  <2>1. SumOver(z, N) = z[a] + SumOver(z, M)
    BY Zenon, <1>1, <1>2, <1>5, SumTake
  <2> QED
    BY <1>2, <1>3, <1>4, <2>1
<1>6. CASE a \notin N
  <2>1. M = N
    BY Zenon, <1>6
  <2> QED
    BY Zenon, <1>3, <1>4, <2>1
<1> QED
  BY Zenon, <1>5, <1>6

LEMMA DetachFacts ==
    ASSUME NEW s, Good(s), NEW a \in Account
    PROVE  Detached(AdjustProxied(s, a, Negated(Whole(s, a))), s, a)
<1> DEFINE delta == Whole(s, a)
           neg == Negated(delta)
           t == AdjustProxied(s, a, neg)
           px == s.proxy
           up == Up(px, a)
           sh == Shares(up, neg)
<1>1. s \in Books /\ Forest(px) /\ Matches(s) /\ Tallied(s) /\ Unproxied(s)
  BY Zenon DEF Good, Polled
<1>2. px \in Proxies /\ s.vesting \in [Account -> Nat]
  BY Zenon, <1>1, BooksFacts
<1>3. delta \in Deltas /\ SumOver(delta, Depth) = Weights(s)[a]
  BY Zenon, <1>1, WholeSum
<1>4. Spread(delta, px, a, s.vesting)
  <2>1. \A k \in Level : s.proxied[a][k] = SumOver(s.vesting, Under(px, a, k + 1))
    BY Zenon, <1>1 DEF Matches
  <2> QED
    BY Zenon, <1>1, <1>2, <2>1, WholeSpread
<1> HIDE DEF delta
<1>5. /\ neg \in Deltas /\ SumOver(neg, Depth) = -SumOver(delta, Depth)
      /\ \A p : \A k \in Level : Recorded(up, neg, p, k) = -Recorded(up, delta, p, k)
  BY Zenon, <1>3, NegatedFacts
<1> HIDE DEF neg
<1>6. t \in Books /\ SameRest(t, s) /\ RecordsMore(t, s, a, neg) /\ VotesMore(t, s, a, neg) /\ WeighsMore(t, s, a, neg)
  BY Zenon, <1>1, <1>5, AdjustFacts
<1> HIDE DEF t
<1>7. ASSUME NEW p \in Account, NEW k \in Level
      PROVE  t.proxied[p][k] = SumOver(s.vesting, Free(px, a, p, k))
  <2>1. t.proxied[p][k] = s.proxied[p][k] + Recorded(up, neg, p, k)
    BY Zenon, <1>6 DEF RecordsMore
  <2>2. s.proxied[p][k] = SumOver(s.vesting, Under(px, p, k + 1))
    BY Zenon, <1>1 DEF Matches
  <2>3. /\ SumOver(s.vesting, Under(px, p, k + 1))
             = SumOver(s.vesting, Free(px, a, p, k)) + Recorded(up, delta, p, k)
        /\ SumOver(s.vesting, Free(px, a, p, k)) \in Int
        /\ Recorded(up, delta, p, k) \in Int
    BY Zenon, <1>1, <1>2, <1>4, LevelSum
  <2>4. Recorded(up, neg, p, k) = -Recorded(up, delta, p, k)
    BY Zenon, <1>5
  <2> HIDE DEF up, px
  <2> QED
    BY <2>1, <2>2, <2>3, <2>4
<1>8. /\ \A x \in Account : x # a => Weights(t)[x] = Weights(s)[x] + sh[x]
      /\ sh[a] = SumOver(neg, Depth)
  BY Zenon, <1>6 DEF WeighsMore
<1>9. \A x \in Account : Weights(s)[x] \in Int /\ sh[x] \in Int
  BY Zenon, <1>1, <1>5, SharesInt, WeightsInt
<1>10. Weights(s)[a] + sh[a] = 0
  <2> HIDE DEF sh
  <2> QED
    BY <1>3, <1>5, <1>8, <1>9
<1>11. ASSUME NEW w \in Witness
       PROVE  t.votes[w] = SumOver(Weights(t), Voters(s, w) \ {a})
  <2>1. t.votes[w] = s.votes[w] + SumOver(sh, Voters(s, w))
    BY Zenon, <1>6 DEF VotesMore
  <2>2. s.votes[w] = SumOver(Weights(s), Voters(s, w))
    BY Zenon, <1>1 DEF Tallied
  <2>3. Voters(s, w) \in SUBSET Account
    BY Zenon, VotersFinite
  <2> HIDE DEF sh
  <2>4. IntOn(Weights(s), Voters(s, w)) /\ IntOn(sh, Voters(s, w))
    BY Zenon, <1>9, <2>3 DEF IntOn
  <2>5. AddsOn(Weights(t), Weights(s), sh, Voters(s, w) \ {a})
    BY Zenon, <1>8, <2>3 DEF AddsOn
  <2>6. SumOver(Weights(s), Voters(s, w)) + SumOver(sh, Voters(s, w)) = SumOver(Weights(t), Voters(s, w) \ {a})
    BY SMT, <1>10, <2>3, <2>4, <2>5, SumWithout
  <2> QED
    BY Zenon, <2>1, <2>2, <2>6
<1> QED
  BY Zenon, <1>6, <1>7, <1>11 DEF Detached, t, neg, delta

-----------------------------------------------------------------------------
(***************************************************************************)
(* An account that takes another proxy p, or none: e is the state with the  *)
(* proxy, once the votes that the account casts itself are gone.            *)
(***************************************************************************)
Rewired(e, t, s, a, p) ==
    /\ e \in Books /\ e.vesting = s.vesting /\ e.proxied = t.proxied /\ e.votes = t.votes
    /\ PutAt(e.proxy, s.proxy, a, p)
    /\ \A w \in Witness : Voters(e, w) = Voters(s, w) \ {a}
    /\ Polled(e)

\* Nobody is counted through an account without a proxy.
LEMMA FreeTop ==
    ASSUME NEW qx \in Proxies, NEW a \in Account, qx[a] = Self, NEW p \in Account, NEW k \in Level
    PROVE  Free(qx, a, p, k) = Under(qx, p, k + 1)
<1> SUFFICES ASSUME NEW b \in Under(qx, p, k + 1), NEW i \in 0..k, Up(qx, b)[i] = a
             PROVE  FALSE
  BY Zenon DEF Free, Under
<1> DEFINE u == Up(qx, b)
<1>1. b \in Account /\ u[k + 1] = p
  BY Zenon DEF Under
<1>2. Chain(u, qx, b, MaxDepth)
  BY Zenon, <1>1, UpChain
<1> HIDE DEF u
<1>3. MaxDepth \in Nat /\ k + 1 \in 0..MaxDepth /\ k \in Nat /\ i \in 0..k
  BY Zenon, DepthFacts
<1>4. i + 1 \in 1..MaxDepth /\ i + 1 \in 0..MaxDepth /\ i + 1 <= k + 1 /\ (i + 1) - 1 = i
  BY <1>3
<1>5. u[i] # Self
  BY Zenon, AccountFacts DEF u
<1>6. u[i + 1] = Self
  BY Zenon, <1>2, <1>4, <1>5 DEF Chain, u
<1>7. u[k + 1] = Self
  BY Zenon, <1>2, <1>3, <1>4, <1>6, ChainSelf
<1> QED
  BY Zenon, <1>1, <1>7, AccountFacts

LEMMA RewiredProxies ==
    ASSUME NEW px \in Proxies, NEW a \in Account, NEW p \in Seat, NEW qx, PutAt(qx, px, a, p)
    PROVE  qx \in Proxies /\ AgreeOff(px, qx, a) /\ qx[a] = p
  BY Zenon DEF Proxies, AgreeOff, PutAt

LEMMA WeightsSame ==
    ASSUME NEW s, NEW t, s.vesting = t.vesting, s.proxied = t.proxied
    PROVE  Weights(s) = Weights(t)
  BY Zenon DEF Weights, VoteWeight

LEMMA ForestSelf ==
    ASSUME NEW px \in Proxies, Forest(px), NEW a \in Account, NEW qx, PutAt(qx, px, a, Self)
    PROVE  Forest(qx)
<1>1. PICK rank : Ranks(rank, px)
  BY Zenon DEF Forest
<1>2. \A x \in Account : qx[x] # Self => qx[x] = px[x]
  BY Zenon DEF Proxies, PutAt
<1>3. Ranks(rank, qx)
  BY Zenon, <1>1, <1>2 DEF Ranks
<1> QED
  BY Zenon, <1>3 DEF Forest

\* Without a proxy, that is all.
LEMMA ReleasedGood ==
    ASSUME NEW s, Good(s), NEW a \in Account, NEW t, Detached(t, s, a), NEW e, Rewired(e, t, s, a, Self)
    PROVE  Good(e)
<1> DEFINE px == s.proxy
           qx == e.proxy
<1>1. s \in Books /\ Forest(px)
  BY Zenon DEF Good
<1>2. px \in Proxies
  BY Zenon, <1>1, BooksFacts
<1>3. /\ e \in Books /\ e.vesting = s.vesting /\ e.proxied = t.proxied /\ e.votes = t.votes
      /\ PutAt(qx, px, a, Self)
      /\ \A w \in Witness : Voters(e, w) = Voters(s, w) \ {a}
      /\ Polled(e)
  BY Zenon DEF Rewired
<1>4. /\ t.vesting = s.vesting
      /\ \A p \in Account, k \in Level : t.proxied[p][k] = SumOver(s.vesting, Free(px, a, p, k))
      /\ \A w \in Witness : t.votes[w] = SumOver(Weights(t), Voters(s, w) \ {a})
  BY Zenon DEF Detached, SameRest
<1> HIDE DEF px, qx
<1>5. Forest(qx)
  BY Zenon, <1>1, <1>2, <1>3, ForestSelf
<1>6. qx \in Proxies /\ AgreeOff(px, qx, a) /\ qx[a] = Self
  <2>1. Self \in Seat
    BY Zenon DEF Seat
  <2> QED
    BY SMT, <1>2, <1>3, <2>1, RewiredProxies
<1>7. Matches(e)
  <2> SUFFICES ASSUME NEW p \in Account, NEW k \in Level
               PROVE  e.proxied[p][k] = SumOver(e.vesting, Under(qx, p, k + 1))
    BY Zenon DEF Matches, qx
  <2>1. Free(px, a, p, k) = Free(qx, a, p, k)
    BY SMT, <1>2, <1>6, FreeSame
  <2>2. Free(qx, a, p, k) = Under(qx, p, k + 1)
    BY Zenon, <1>6, FreeTop
  <2> QED
    BY Zenon, <1>3, <1>4, <2>1, <2>2
<1>8. Tallied(e)
  <2>1. Weights(e) = Weights(t)
    BY Zenon, <1>3, <1>4, WeightsSame
  <2> QED
    BY Zenon, <1>3, <1>4, <2>1 DEF Tallied
<1> QED
  BY Zenon, <1>3, <1>5, <1>7, <1>8 DEF Good, qx

\* With one, what the account votes with is passed on along the new chain.
LEMMA AttachedGood ==
    ASSUME NEW s, Good(s), NEW a \in Account, NEW t, Detached(t, s, a), NEW p \in Account,
           NEW e, Rewired(e, t, s, a, p), Forest(e.proxy)
    PROVE  /\ Good(AdjustProxied(e, a, Whole(t, a)))
           /\ SameRest(AdjustProxied(e, a, Whole(t, a)), e)
<1> DEFINE px == s.proxy
           qx == e.proxy
           delta == Whole(t, a)
           r == AdjustProxied(e, a, delta)
           up == Up(qx, a)
           sh == Shares(up, delta)
           v == s.vesting
<1>1. s \in Books
  BY Zenon DEF Good
<1>2. px \in Proxies /\ v \in [Account -> Nat]
  BY Zenon, <1>1, BooksFacts
<1>3. /\ e \in Books /\ e.vesting = v /\ e.proxied = t.proxied /\ e.votes = t.votes
      /\ PutAt(qx, px, a, p)
      /\ \A w \in Witness : Voters(e, w) = Voters(s, w) \ {a}
      /\ Polled(e) /\ Unproxied(e)
  BY Zenon DEF Rewired, Polled
<1>4. /\ t \in Books /\ t.vesting = v
      /\ \A x \in Account, k \in Level : t.proxied[x][k] = SumOver(v, Free(px, a, x, k))
      /\ \A w \in Witness : t.votes[w] = SumOver(Weights(t), Voters(s, w) \ {a})
  BY Zenon DEF Detached, SameRest
<1>0. Forest(qx)
  BY Zenon
<1> HIDE DEF px, qx, v
<1>5. qx \in Proxies /\ AgreeOff(px, qx, a) /\ qx[a] = p
  <2>1. p \in Seat
    BY Zenon DEF Seat
  <2> QED
    BY SMT, <1>2, <1>3, <2>1, RewiredProxies
<1>6. \A x \in Account, k \in Level : t.proxied[x][k] = SumOver(v, Free(qx, a, x, k))
  <2>1. ASSUME NEW x \in Account, NEW k \in Level
        PROVE  Free(px, a, x, k) = Free(qx, a, x, k)
    BY SMT, <1>2, <1>5, FreeSame
  <2> QED
    BY Zenon, <1>4, <2>1
<1>7. Spread(delta, qx, a, v)
  <2>1. \A k \in Level : Free(qx, a, a, k) = Under(qx, a, k + 1)
    BY Zenon, <1>0, <1>5, FreeUnder
  <2>2. \A k \in Level : t.proxied[a][k] = SumOver(t.vesting, Under(qx, a, k + 1))
    BY Zenon, <1>4, <1>6, <2>1
  <2> QED
    BY Zenon, <1>4, <1>5, <2>2, WholeSpread
<1>8. delta \in Deltas
  BY Zenon, <1>4, WholeSum
<1> HIDE DEF delta
<1>9. r \in Books /\ SameRest(r, e) /\ RecordsMore(r, e, a, delta) /\ VotesMore(r, e, a, delta) /\ WeighsMore(r, e, a, delta)
  BY Zenon, <1>0, <1>3, <1>8, AdjustFacts DEF qx
<1> HIDE DEF r
<1>10. /\ r.vesting = v /\ r.proxy = qx /\ r.approvals = e.approvals
       /\ r.votedFor = e.votedFor /\ r.canVote = e.canVote
  BY Zenon, <1>3, <1>9 DEF SameRest, qx
<1>11. Polled(r)
  BY Zenon, <1>3, <1>10, PolledSame DEF qx
<1>12. Matches(r)
  <2> SUFFICES ASSUME NEW x \in Account, NEW k \in Level
               PROVE  r.proxied[x][k] = SumOver(v, Under(qx, x, k + 1))
    BY Zenon, <1>10 DEF Matches
  <2>1. r.proxied[x][k] = e.proxied[x][k] + Recorded(up, delta, x, k)
    BY Zenon, <1>9 DEF RecordsMore, qx
  <2>2. e.proxied[x][k] = SumOver(v, Free(qx, a, x, k))
    BY Zenon, <1>3, <1>6
  <2>3. SumOver(v, Under(qx, x, k + 1)) = SumOver(v, Free(qx, a, x, k)) + Recorded(up, delta, x, k)
    BY SMT, <1>0, <1>2, <1>5, <1>7, LevelSum
  <2> QED
    BY Zenon, <2>1, <2>2, <2>3
<1>13. Tallied(r)
  <2> SUFFICES ASSUME NEW w \in Witness PROVE r.votes[w] = SumOver(Weights(r), Voters(r, w))
    BY Zenon DEF Tallied
  <2> DEFINE N == Voters(e, w)
  <2>1. Voters(r, w) = N /\ N = Voters(s, w) \ {a}
    BY Zenon, <1>3, <1>10 DEF Voters
  <2>2. N \in SUBSET Account /\ IsFiniteSet(N)
    BY Zenon, VotersFinite
  <2>3. r.votes[w] = e.votes[w] + SumOver(sh, N)
    BY Zenon, <1>9 DEF VotesMore, qx
  <2>4. Weights(e) = Weights(t)
    BY Zenon, <1>3, <1>4, WeightsSame
  <2>5. e.votes[w] = SumOver(Weights(e), N)
    BY Zenon, <1>3, <1>4, <2>1, <2>4
  <2>6. \A x \in Account : x # a => Weights(r)[x] = Weights(e)[x] + sh[x]
    BY Zenon, <1>9 DEF WeighsMore, qx
  <2>7. \A x \in Account : Weights(e)[x] \in Int /\ sh[x] \in Int
    BY Zenon, <1>3, <1>8, SharesInt, WeightsInt
  <2> HIDE DEF N, sh
  <2>8. IntOn(Weights(e), N) /\ IntOn(sh, N) /\ AddsOn(Weights(r), Weights(e), sh, N)
    BY Zenon, <2>1, <2>2, <2>6, <2>7 DEF IntOn, AddsOn
  <2>9. SumOver(Weights(r), N) = SumOver(Weights(e), N) + SumOver(sh, N)
    BY Zenon, <2>2, <2>8, SumPlus
  <2> QED
    BY Zenon, <2>1, <2>3, <2>5, <2>9
<1>14. Good(r)
  BY Zenon, <1>0, <1>9, <1>10, <1>11, <1>12, <1>13 DEF Good
<1> QED
  BY Zenon, <1>9, <1>14 DEF r, delta

-----------------------------------------------------------------------------
(***************************************************************************)
(* The walk of account_witness_proxy up from the new proxy p: when it ends  *)
(* at an account without a proxy and has not met a, a can take p.  The      *)
(* accounts it met keep their ranks, and all others move above them.        *)
(***************************************************************************)
Walked(px, a, p) ==
    \E m \in 0..(MaxDepth - 2) : /\ \A d \in 0..m : Up(px, p)[d] \notin {a, Self}
                                 /\ Up(px, p)[m + 1] = Self

LEMMA ForestWalked ==
    ASSUME NEW px \in Proxies, Forest(px), NEW a \in Account, NEW p \in Account, Walked(px, a, p),
           NEW qx, PutAt(qx, px, a, p)
    PROVE  Forest(qx)
<1> DEFINE u == Up(px, p)
<1>1. PICK rank : Ranks(rank, px)
  BY Zenon DEF Forest
<1>2. PICK m \in 0..(MaxDepth - 2) : (\A d \in 0..m : u[d] \notin {a, Self}) /\ u[m + 1] = Self
  BY Zenon DEF Walked
<1>3. Chain(u, px, p, MaxDepth)
  BY Zenon, UpChain
<1> HIDE DEF u
<1> DEFINE C == {u[d] : d \in 0..m}
           high == [b \in Account |-> IF b \in C THEN rank[b] ELSE rank[b] + rank[p] + 1]
<1>4. MaxDepth \in Nat /\ MaxDepth >= 2 /\ m \in Nat /\ m + 1 <= MaxDepth - 1
  BY DepthFacts
<1>5. p \in C
  BY <1>3, <1>4 DEF Chain
<1>6. a \notin C
  BY Zenon, <1>2
<1>7. ASSUME NEW x \in C, px[x] # Self
      PROVE  px[x] \in C
  <2>1. PICK d \in 0..m : x = u[d]
    BY Zenon
  <2>2. d + 1 \in 1..MaxDepth /\ (d + 1) - 1 = d /\ u[d] # Self
    BY <1>2, <1>4
  <2>3. u[d + 1] = px[x]
    BY Zenon, <1>3, <2>1, <2>2 DEF Chain
  <2>4. d # m
    BY Zenon, <1>2, <1>7, <2>3
  <2>5. d + 1 \in 0..m
    BY <1>4, <2>4
  <2> QED
    BY Zenon, <2>3, <2>5
<1> HIDE DEF C
<1>8. /\ rank \in [Account -> Nat]
      /\ \A x \in Account : px[x] # Self => rank[px[x]] < rank[x]
  BY Zenon, <1>1 DEF Ranks
<1>9. \A b \in Account : /\ b \in C => high[b] = rank[b]
                         /\ b \notin C => high[b] = rank[b] + rank[p] + 1
                         /\ rank[b] \in Nat
  BY Zenon, <1>8
<1>10. high \in [Account -> Nat]
  BY <1>8
<1> HIDE DEF high
<1>11. ASSUME NEW x \in Account, qx[x] # Self
       PROVE  high[qx[x]] < high[x]
  <2>1. CASE x = a
    <3>1. qx[x] = p
      BY Zenon, <2>1 DEF PutAt, Proxies
    <3> QED
      BY <1>5, <1>6, <1>9, <2>1, <3>1
  <2>2. CASE x # a
    <3>1. qx[x] = px[x]
      BY Zenon, <2>2 DEF PutAt, Proxies
    <3>2. px[x] \in Account /\ rank[px[x]] < rank[x] /\ rank[p] \in Nat
      BY Zenon, <1>8, <1>11, <3>1 DEF Proxies, Seat
    <3>3. x \in C => px[x] \in C
      BY Zenon, <1>7, <1>11, <3>1
    <3> QED
      BY <1>9, <3>1, <3>2, <3>3
  <2> QED
    BY Zenon, <2>1, <2>2
<1>12. Ranks(high, qx)
  BY Zenon, <1>10, <1>11 DEF Ranks
<1> QED
  BY Zenon, <1>12 DEF Forest
-----------------------------------------------------------------------------
(***************************************************************************)
(* clear_witness_votes.                                                     *)
(***************************************************************************)
Cleared(e, s, a, p) ==
    /\ e.approvals = {v \in s.approvals : v[1] # a}
    /\ PutAt(e.votedFor, s.votedFor, a, 0)
    /\ PutAt(e.proxy, s.proxy, a, p)
    /\ e.canVote = s.canVote \/ PutAt(e.canVote, s.canVote, a, FALSE)

LEMMA ClearedPolled ==
    ASSUME NEW s \in Books, Polled(s), NEW a \in Account, NEW e \in Books, NEW p, Cleared(e, s, a, p)
    PROVE  /\ Polled(e)
           /\ \A w \in Witness : Voters(e, w) = Voters(s, w) \ {a}
<1>1. /\ s.proxy \in Proxies /\ s.votedFor \in [Account -> Nat] /\ s.canVote \in [Account -> BOOLEAN]
  BY Zenon, BooksFacts
<1>2. /\ e.approvals = {v \in s.approvals : v[1] # a}
      /\ e.votedFor = [s.votedFor EXCEPT ![a] = 0]
      /\ e.proxy = [s.proxy EXCEPT ![a] = p]
      /\ e.canVote = s.canVote \/ e.canVote = [s.canVote EXCEPT ![a] = FALSE]
  BY Zenon DEF Cleared, PutAt
<1>3. \A x, w : <<x, w>> \in e.approvals <=> <<x, w>> \in s.approvals /\ x # a
  BY Zenon, <1>2
<1>4. \A x \in Account : x # a => /\ e.votedFor[x] = s.votedFor[x] /\ e.proxy[x] = s.proxy[x]
                                   /\ e.canVote[x] = s.canVote[x]
  BY Zenon, <1>1, <1>2 DEF Proxies
<1>5. e.votedFor[a] = 0
  BY Zenon, <1>1, <1>2
<1>6. /\ Unproxied(s) /\ Entitled(s) /\ IsFiniteSet(s.approvals)
      /\ \A x \in Account : s.votedFor[x] = Cardinality(Ballots(s, x)) /\ s.votedFor[x] <= MaxVotes
  BY Zenon DEF Polled, BallotsCounted, Limited
<1>7. Unproxied(e) /\ Entitled(e)
  BY Zenon, <1>3, <1>4, <1>6 DEF Unproxied, Entitled
<1>8. IsFiniteSet(e.approvals)
  <2>1. e.approvals \subseteq s.approvals
    BY Zenon, <1>2
  <2> QED
    BY Zenon, <1>6, <2>1, FiniteSubset
<1>9. ASSUME NEW x \in Account
      PROVE  e.votedFor[x] = Cardinality(Ballots(e, x))
  <2>1. CASE x = a
    <3>1. Ballots(e, x) = {}
      BY Zenon, <1>2, <2>1 DEF Ballots
    <3> QED
      BY Zenon, <1>5, <2>1, <3>1, CardinalityEmpty
  <2>2. CASE x # a
    <3>1. Ballots(e, x) = Ballots(s, x)
      BY Zenon, <1>2, <2>2 DEF Ballots
    <3> QED
      BY Zenon, <1>4, <1>6, <2>2, <3>1
  <2> QED
    BY Zenon, <2>1, <2>2
<1>10. Polled(e)
  <2>1. 0 <= MaxVotes
    BY VotesAssumption
  <2>2. Limited(e)
    BY Zenon, <1>4, <1>5, <1>6, <2>1 DEF Limited
  <2> QED
    BY Zenon, <1>7, <1>8, <1>9, <2>2 DEF Polled, BallotsCounted
<1>11. \A w \in Witness : Voters(e, w) = Voters(s, w) \ {a}
  BY Zenon, <1>3 DEF Voters
<1> QED
  BY Zenon, <1>10, <1>11

LEMMA ClearFields ==
    ASSUME NEW s \in Books, NEW a \in Account
    PROVE  LET c == ClearWitnessVotes(s, a)
           IN  /\ c \in Books
               /\ c.vesting = s.vesting /\ c.total = s.total /\ c.proxy = s.proxy
               /\ c.proxied = s.proxied /\ c.votes = s.votes /\ c.canVote = s.canVote
               /\ c.approvals = {v \in s.approvals : v[1] # a}
               /\ c.votedFor = [s.votedFor EXCEPT ![a] = 0]
<1> DEFINE x == {v \in s.approvals : v[1] # a}
           y == [s.votedFor EXCEPT ![a] = 0]
<1>1. ClearWitnessVotes(s, a) = [s EXCEPT !.approvals = x, !.votedFor = y]
  BY Zenon DEF ClearWitnessVotes
<1>2. x \in SUBSET (Account \X Witness) /\ y \in [Account -> Nat]
  BY Zenon, BooksFacts
<1> HIDE DEF x, y
<1>3. [s EXCEPT !.approvals = x, !.votedFor = y] \in Books
  BY Zenon, <1>2 DEF Books
<1>4. LET c == [s EXCEPT !.approvals = x, !.votedFor = y]
      IN  /\ c.vesting = s.vesting /\ c.total = s.total /\ c.proxy = s.proxy
          /\ c.proxied = s.proxied /\ c.votes = s.votes /\ c.canVote = s.canVote
          /\ c.approvals = x /\ c.votedFor = y
  BY Zenon DEF Books
<1> QED
  BY Zenon, <1>1, <1>3, <1>4 DEF x, y

LEMMA ProxyFields ==
    ASSUME NEW s \in Books, NEW a \in Account, NEW p \in Seat
    PROVE  LET c == [s EXCEPT !.proxy[a] = p]
           IN  /\ c \in Books
               /\ c.vesting = s.vesting /\ c.total = s.total /\ c.approvals = s.approvals
               /\ c.proxied = s.proxied /\ c.votes = s.votes /\ c.canVote = s.canVote
               /\ c.votedFor = s.votedFor
               /\ PutAt(c.proxy, s.proxy, a, p)
<1> DEFINE y == [s.proxy EXCEPT ![a] = p]
<1>1. [s EXCEPT !.proxy[a] = p] = [s EXCEPT !.proxy = y]
  BY Zenon
<1>2. y \in Proxies
  BY Zenon, BooksFacts DEF Proxies
<1> HIDE DEF y
<1>3. [s EXCEPT !.proxy = y] \in Books
  BY Zenon, <1>2 DEF Books
<1>4. LET c == [s EXCEPT !.proxy = y]
      IN  /\ c.vesting = s.vesting /\ c.total = s.total /\ c.approvals = s.approvals
          /\ c.proxied = s.proxied /\ c.votes = s.votes /\ c.canVote = s.canVote
          /\ c.votedFor = s.votedFor /\ c.proxy = y
  BY Zenon DEF Books
<1>5. PutAt(y, s.proxy, a, p)
  BY Zenon DEF PutAt, y
<1> QED
  BY Zenon, <1>1, <1>3, <1>4, <1>5

LEMMA DeclineFields ==
    ASSUME NEW s \in Books, NEW a \in Account
    PROVE  LET c == [s EXCEPT !.canVote[a] = FALSE, !.proxy[a] = Self]
           IN  /\ c \in Books
               /\ c.vesting = s.vesting /\ c.total = s.total /\ c.approvals = s.approvals
               /\ c.proxied = s.proxied /\ c.votes = s.votes /\ c.votedFor = s.votedFor
               /\ PutAt(c.proxy, s.proxy, a, Self)
               /\ PutAt(c.canVote, s.canVote, a, FALSE)
<1> DEFINE y == [s.proxy EXCEPT ![a] = Self]
           z == [s.canVote EXCEPT ![a] = FALSE]
<1>1. [s EXCEPT !.canVote[a] = FALSE, !.proxy[a] = Self] = [s EXCEPT !.canVote = z, !.proxy = y]
  BY Zenon
<1>2. y \in Proxies /\ z \in [Account -> BOOLEAN]
  BY Zenon, BooksFacts DEF Proxies, Seat
<1> HIDE DEF y, z
<1>3. [s EXCEPT !.canVote = z, !.proxy = y] \in Books
  BY Zenon, <1>2 DEF Books
<1>4. LET c == [s EXCEPT !.canVote = z, !.proxy = y]
      IN  /\ c.vesting = s.vesting /\ c.total = s.total /\ c.approvals = s.approvals
          /\ c.proxied = s.proxied /\ c.votes = s.votes
          /\ c.votedFor = s.votedFor /\ c.proxy = y /\ c.canVote = z
  BY Zenon DEF Books
<1>5. PutAt(y, s.proxy, a, Self) /\ PutAt(z, s.canVote, a, FALSE)
  BY Zenon DEF PutAt, y, z
<1> QED
  BY Zenon, <1>1, <1>3, <1>4, <1>5

-----------------------------------------------------------------------------
(***************************************************************************)
(* account_witness_proxy and process_decline_voting_rights.                 *)
(***************************************************************************)
LEMMA DeclineGood ==
    ASSUME NEW s, Good(s), NEW a \in Account
    PROVE  /\ Good(Decline(s, a))
           /\ Decline(s, a).vesting = s.vesting /\ Decline(s, a).total = s.total
<1> DEFINE t == AdjustProxied(s, a, Negated(Whole(s, a)))
           c == ClearWitnessVotes(t, a)
           e == [c EXCEPT !.canVote[a] = FALSE, !.proxy[a] = Self]
<1>1. s \in Books /\ Polled(s)
  BY Zenon DEF Good
<1>2. Detached(t, s, a) /\ t \in Books /\ SameRest(t, s)
  BY Zenon, DetachFacts DEF Detached
<1>3. Decline(s, a) = e
  BY Zenon DEF Decline
<1> HIDE DEF t
<1>4. /\ c \in Books
      /\ c.vesting = t.vesting /\ c.total = t.total /\ c.proxy = t.proxy
      /\ c.proxied = t.proxied /\ c.votes = t.votes /\ c.canVote = t.canVote
      /\ c.approvals = {v \in t.approvals : v[1] # a}
      /\ c.votedFor = [t.votedFor EXCEPT ![a] = 0]
  BY Zenon, <1>2, ClearFields
<1> HIDE DEF c
<1>5. /\ e \in Books
      /\ e.vesting = c.vesting /\ e.total = c.total /\ e.approvals = c.approvals
      /\ e.proxied = c.proxied /\ e.votes = c.votes /\ e.votedFor = c.votedFor
      /\ PutAt(e.proxy, c.proxy, a, Self)
      /\ PutAt(e.canVote, c.canVote, a, FALSE)
  BY Zenon, <1>4, DeclineFields
<1> HIDE DEF e
<1>6. Cleared(e, s, a, Self)
  BY Zenon, <1>2, <1>4, <1>5 DEF SameRest, Cleared, PutAt
<1>7. Rewired(e, t, s, a, Self)
  <2>1. Polled(e) /\ \A w \in Witness : Voters(e, w) = Voters(s, w) \ {a}
    BY Zenon, <1>1, <1>5, <1>6, ClearedPolled
  <2>2. PutAt(e.proxy, s.proxy, a, Self) /\ e.vesting = s.vesting
    BY Zenon, <1>2, <1>4, <1>5 DEF SameRest
  <2> QED
    BY Zenon, <1>4, <1>5, <2>1, <2>2 DEF Rewired
<1>8. Good(e)
  BY Zenon, <1>2, <1>7, ReleasedGood
<1>9. e.vesting = s.vesting /\ e.total = s.total
  BY Zenon, <1>2, <1>4, <1>5 DEF SameRest
<1> QED
  BY Zenon, <1>3, <1>8, <1>9

LEMMA ReplaceGood ==
    ASSUME NEW s, Good(s), NEW a \in Account, NEW p \in Seat, p # s.proxy[a],
           p # Self => Walked(s.proxy, a, p)
    PROVE  LET r == ReplaceProxy(AdjustProxied(s, a, Negated(Whole(s, a))), a, p)
           IN  Good(r) /\ r.vesting = s.vesting /\ r.total = s.total
<1> DEFINE t == AdjustProxied(s, a, Negated(Whole(s, a)))
           r == ReplaceProxy(t, a, p)
<1>1. s \in Books /\ Polled(s) /\ Forest(s.proxy)
  BY Zenon DEF Good
<1>2. Detached(t, s, a) /\ t \in Books /\ SameRest(t, s)
  BY Zenon, DetachFacts DEF Detached
<1>3. s.proxy \in Proxies
  BY Zenon, <1>1, BooksFacts
<1> HIDE DEF t
<1>4. CASE p = Self
  <2> DEFINE e == [t EXCEPT !.proxy[a] = p]
  <2>1. r = e
    BY Zenon, <1>4 DEF ReplaceProxy
  <2>2. /\ e \in Books
        /\ e.vesting = t.vesting /\ e.total = t.total /\ e.approvals = t.approvals
        /\ e.proxied = t.proxied /\ e.votes = t.votes /\ e.canVote = t.canVote
        /\ e.votedFor = t.votedFor
        /\ PutAt(e.proxy, t.proxy, a, p)
    BY Zenon, <1>2, ProxyFields
  <2> HIDE DEF e, r
  <2>3. /\ e.vesting = s.vesting /\ e.total = s.total /\ e.approvals = s.approvals
        /\ e.canVote = s.canVote /\ e.votedFor = s.votedFor
        /\ PutAt(e.proxy, s.proxy, a, Self)
    BY Zenon, <1>2, <1>4, <2>2 DEF SameRest
  <2>4. \A x \in Account : s.proxy[x] = Self => e.proxy[x] = Self
    BY Zenon, <1>3, <2>3 DEF PutAt, Proxies
  <2>5. Polled(e)
    BY Zenon, <1>1, <2>3, <2>4 DEF Polled, Unproxied, Entitled, BallotsCounted, Ballots, Limited
  <2>6. \A w \in Witness : Voters(e, w) = Voters(s, w) \ {a}
    <3>1. \A w \in Witness : <<a, w>> \notin s.approvals
      BY Zenon, <1>1, <1>4 DEF Polled, Unproxied
    <3> QED
      BY Zenon, <2>3, <3>1 DEF Voters
  <2>7. Rewired(e, t, s, a, Self)
    BY Zenon, <2>2, <2>3, <2>5, <2>6 DEF Rewired
  <2>8. Good(e)
    BY Zenon, <1>2, <2>7, ReleasedGood
  <2> QED
    BY Zenon, <2>1, <2>3, <2>8 DEF r, t
<1>5. CASE p # Self
  <2> DEFINE c == ClearWitnessVotes(t, a)
             e == [c EXCEPT !.proxy[a] = p]
  <2>1. r = AdjustProxied(e, a, Whole(t, a))
    BY Zenon, <1>5 DEF ReplaceProxy
  <2>2. /\ c \in Books
        /\ c.vesting = t.vesting /\ c.total = t.total /\ c.proxy = t.proxy
        /\ c.proxied = t.proxied /\ c.votes = t.votes /\ c.canVote = t.canVote
        /\ c.approvals = {v \in t.approvals : v[1] # a}
        /\ c.votedFor = [t.votedFor EXCEPT ![a] = 0]
    BY Zenon, <1>2, ClearFields
  <2> HIDE DEF c
  <2>3. /\ e \in Books
        /\ e.vesting = c.vesting /\ e.total = c.total /\ e.approvals = c.approvals
        /\ e.proxied = c.proxied /\ e.votes = c.votes /\ e.canVote = c.canVote
        /\ e.votedFor = c.votedFor
        /\ PutAt(e.proxy, c.proxy, a, p)
    BY Zenon, <2>2, ProxyFields
  <2> HIDE DEF e, r
  <2>4. p \in Account /\ Walked(s.proxy, a, p)
    BY Zenon, <1>5 DEF Seat
  <2>5. Cleared(e, s, a, p)
    BY Zenon, <1>2, <2>2, <2>3 DEF SameRest, Cleared, PutAt
  <2>6. Polled(e) /\ \A w \in Witness : Voters(e, w) = Voters(s, w) \ {a}
    BY Zenon, <1>1, <2>3, <2>5, ClearedPolled
  <2>7. PutAt(e.proxy, s.proxy, a, p) /\ e.vesting = s.vesting /\ e.total = s.total
    BY Zenon, <1>2, <2>2, <2>3 DEF SameRest
  <2>8. Rewired(e, t, s, a, p)
    BY Zenon, <2>2, <2>3, <2>6, <2>7 DEF Rewired
  <2>9. Forest(e.proxy)
    BY Zenon, <1>1, <1>3, <2>4, <2>7, ForestWalked
  <2>10. Good(r) /\ SameRest(r, e)
    BY Zenon, <1>2, <2>1, <2>4, <2>8, <2>9, AttachedGood
  <2>11. r.vesting = s.vesting /\ r.total = s.total
    BY Zenon, <2>7, <2>10 DEF SameRest
  <2> QED
    BY Zenon, <2>10, <2>11 DEF r, t
<1> QED
  BY Zenon, <1>4, <1>5
-----------------------------------------------------------------------------
(***************************************************************************)
(* The requests that are due, one after the other.                          *)
(***************************************************************************)
Like(s) == {x \in Books : Good(x) /\ x.vesting = s.vesting /\ x.total = s.total}

DeclineTable(it, s, due) ==
    it = [T \in SUBSET due |->
            IF T = {} THEN s
            ELSE Decline(it[T \ {CHOOSE x \in T : TRUE}], (CHOOSE x \in T : TRUE).account)]

LEMMA DeclinesGood ==
    ASSUME NEW s, Good(s), NEW due, IsFiniteSet(due), \A r \in due : r.account \in Account
    PROVE  FoldSet(LAMBDA r, x : Decline(x, r.account), s, due) \in Like(s)
<1> DEFINE V == Like(s)
           ch == [T \in SUBSET due |-> CHOOSE x \in T : TRUE]
           G == [r \in due |-> [x \in V |-> Decline(x, r.account)]]
<1>1. s \in V
  BY Zenon DEF Like, Good
<1>2. ASSUME NEW x \in V, NEW a \in Account
      PROVE  Decline(x, a) \in V
  <2>1. Good(x) /\ x.vesting = s.vesting /\ x.total = s.total
    BY Zenon DEF Like
  <2>2. Good(Decline(x, a)) /\ Decline(x, a).vesting = x.vesting /\ Decline(x, a).total = x.total
    BY Zenon, <2>1, DeclineGood
  <2>3. Decline(x, a) \in Books
    BY Zenon, <2>2 DEF Good
  <2> QED
    BY Zenon, <2>1, <2>2, <2>3 DEF Like
<1>3. Chooses(ch, due)
  BY Zenon DEF Chooses
<1> HIDE DEF V
<1>4. G \in [due -> [V -> V]]
  BY Zenon, <1>2
<1>5. PICK it : FoldTable(it, due, V, s, ch, G)
  <2> HIDE DEF ch, G
  <2> QED
    BY Zenon, <1>1, <1>3, <1>4, FoldExists
<1>6. DeclineTable(it, s, due)
  <2>1. it = [T \in SUBSET due |-> it[T]]
    BY Zenon, <1>5 DEF FoldTable
  <2>2. ASSUME NEW T \in SUBSET due
        PROVE  it[T] = IF T = {} THEN s
                       ELSE Decline(it[T \ {CHOOSE x \in T : TRUE}], (CHOOSE x \in T : TRUE).account)
    <3>1. CASE T = {}
      BY Zenon, <1>5, <3>1 DEF FoldTable
    <3>2. CASE T # {}
      <4>1. ch[T] \in due /\ T \ {ch[T]} \in SUBSET due
        BY Zenon, <1>3, <3>2 DEF Chooses
      <4>2. it[T] = G[ch[T]][it[T \ {ch[T]}]] /\ it[T \ {ch[T]}] \in V
        BY Zenon, <1>5, <3>2, <4>1 DEF FoldTable
      <4>3. G[ch[T]][it[T \ {ch[T]}]] = Decline(it[T \ {ch[T]}], ch[T].account)
        <5> HIDE DEF ch
        <5> QED
          BY Zenon, <4>1, <4>2
      <4>4. ch[T] = CHOOSE x \in T : TRUE
        BY Zenon
      <4> HIDE DEF ch
      <4> QED
        BY Zenon, <3>2, <4>2, <4>3, <4>4
    <3> QED
      BY Zenon, <3>1, <3>2
  <2> QED
    BY Zenon, <2>1, <2>2 DEF DeclineTable
<1> DEFINE jt == CHOOSE jt : DeclineTable(jt, s, due)
<1>7. DeclineTable(jt, s, due)
  BY Zenon, <1>6
<1>8. FoldSet(LAMBDA r, x : Decline(x, r.account), s, due) = jt[due]
  BY Zenon DEF FoldSet, MapThenFoldSet, DeclineTable
<1> HIDE DEF jt
<1> DEFINE P == {T \in SUBSET due : jt[T] \in V}
<1>9. {} \in P
  BY Zenon, <1>1, <1>7 DEF DeclineTable
<1>10. ClosedAlong(P, due, ch)
  <2> SUFFICES ASSUME NEW T \in SUBSET due, T # {}, jt[T \ {ch[T]}] \in V
               PROVE  jt[T] \in V
    BY Zenon DEF ClosedAlong
  <2>1. ch[T] = CHOOSE x \in T : TRUE
    BY Zenon
  <2>2. ch[T] \in due
    BY Zenon, <1>3 DEF Chooses
  <2> HIDE DEF ch
  <2>3. jt[T] = Decline(jt[T \ {ch[T]}], ch[T].account)
    BY Zenon, <1>7, <2>1 DEF DeclineTable
  <2> QED
    BY Zenon, <1>2, <2>2, <2>3
<1>11. SUBSET due \subseteq P
  <2> HIDE DEF P, ch
  <2> QED
    BY Zenon, <1>3, <1>9, <1>10, ChoiceClosed
<1> QED
  BY Zenon, <1>8, <1>11 DEF V

-----------------------------------------------------------------------------
(***************************************************************************)
(* account_witness_vote.                                                    *)
(***************************************************************************)
\* t is s when n votes more go to w, with the approvals A and the count b of a.
Voted(t, s, a, w, n, A, b) ==
    /\ t \in Books
    /\ t.vesting = s.vesting /\ t.total = s.total /\ t.proxy = s.proxy
    /\ t.proxied = s.proxied /\ t.canVote = s.canVote /\ t.approvals = A
    /\ t.votedFor = [s.votedFor EXCEPT ![a] = b]
    /\ t.votes = [s.votes EXCEPT ![w] = @ + n]

VotePut(s, a, w, n, A, b) == [s EXCEPT !.votes[w] = @ + n, !.approvals = A, !.votedFor[a] = b]

LEMMA VoteFields ==
    ASSUME NEW s \in Books, NEW a \in Account, NEW w \in Witness, NEW n \in Int,
           NEW A \in SUBSET (Account \X Witness), NEW b \in Nat
    PROVE  Voted(VotePut(s, a, w, n, A, b), s, a, w, n, A, b)
<1> DEFINE x == [s.votes EXCEPT ![w] = @ + n]
           y == [s.votedFor EXCEPT ![a] = b]
           t == [s EXCEPT !.votes = x, !.approvals = A, !.votedFor = y]
<1>1. VotePut(s, a, w, n, A, b) = t
  BY Zenon DEF VotePut
<1>2. x \in [Witness -> Int] /\ y \in [Account -> Nat]
  <2>1. s.votes \in [Witness -> Int] /\ s.votedFor \in [Account -> Nat]
    BY Zenon, BooksFacts
  <2> QED
    BY <2>1
<1> HIDE DEF x, y
<1>3. t \in Books
  BY Zenon, <1>2 DEF Books
<1>4. /\ t.vesting = s.vesting /\ t.total = s.total /\ t.proxy = s.proxy
      /\ t.proxied = s.proxied /\ t.canVote = s.canVote /\ t.approvals = A
      /\ t.votedFor = y /\ t.votes = x
  BY Zenon DEF Books
<1> HIDE DEF t
<1> QED
  BY Zenon, <1>1, <1>3, <1>4 DEF Voted, x, y

SameElse(A, B, a, w) ==
    \A x, y : /\ <<x, y>> \in A => <<x, y>> \in B \/ (x = a /\ y = w)
              /\ <<x, y>> \in B => <<x, y>> \in A \/ (x = a /\ y = w)

Counts(s, a, w, n, A, b) ==
    /\ s.votes[w] + n = SumOver(Weights(s), {x \in Account : <<x, w>> \in A})
    /\ b = Cardinality({v \in A : v[1] = a}) /\ b <= MaxVotes
    /\ <<a, w>> \in A => s.canVote[a]

\* Nothing but the approval of w by a changes, and it is counted.
LEMMA VotedGood ==
    ASSUME NEW s, Good(s), NEW a \in Account, NEW w \in Witness, NEW n \in Int, NEW A, NEW b \in Nat,
           NEW t, Voted(t, s, a, w, n, A, b), IsFiniteSet(A), SameElse(A, s.approvals, a, w),
           s.proxy[a] = Self, Counts(s, a, w, n, A, b)
    PROVE  Good(t)
<1>1. s \in Books /\ Forest(s.proxy) /\ Matches(s) /\ Tallied(s) /\ Polled(s)
  BY Zenon DEF Good
<1>2. s.votes \in [Witness -> Int] /\ s.votedFor \in [Account -> Nat] /\ s.approvals \subseteq Account \X Witness
  BY Zenon, <1>1, BooksFacts
<1>3. /\ t \in Books
      /\ t.vesting = s.vesting /\ t.total = s.total /\ t.proxy = s.proxy
      /\ t.proxied = s.proxied /\ t.canVote = s.canVote /\ t.approvals = A
      /\ t.votedFor = [s.votedFor EXCEPT ![a] = b]
      /\ t.votes = [s.votes EXCEPT ![w] = @ + n]
  BY Zenon DEF Voted
<1>4. Weights(t) = Weights(s)
  BY Zenon, <1>3, WeightsSame
<1>5. Matches(t)
  BY Zenon, <1>1, <1>3 DEF Matches
<1>6. Tallied(t)
  <2> SUFFICES ASSUME NEW y \in Witness PROVE t.votes[y] = SumOver(Weights(t), Voters(t, y))
    BY Zenon DEF Tallied
  <2>1. CASE y = w
    <3>1. t.votes[y] = s.votes[w] + n
      BY Zenon, <1>2, <1>3, <2>1
    <3>2. Voters(t, y) = {x \in Account : <<x, w>> \in A}
      BY Zenon, <1>3, <2>1 DEF Voters
    <3> QED
      BY Zenon, <1>4, <3>1, <3>2 DEF Counts
  <2>2. CASE y # w
    <3>1. t.votes[y] = s.votes[y]
      BY Zenon, <1>2, <1>3, <2>2
    <3>2. Voters(t, y) = Voters(s, y)
      <4>1. ASSUME NEW x PROVE <<x, y>> \in A <=> <<x, y>> \in s.approvals
        <5>1. /\ <<x, y>> \in A => <<x, y>> \in s.approvals \/ (x = a /\ y = w)
              /\ <<x, y>> \in s.approvals => <<x, y>> \in A \/ (x = a /\ y = w)
          BY SMT DEF SameElse
        <5> QED
          BY Zenon, <2>2, <5>1
      <4> QED
        BY Zenon, <1>3, <4>1 DEF Voters
    <3>3. s.votes[y] = SumOver(Weights(s), Voters(s, y))
      BY Zenon, <1>1 DEF Tallied
    <3> QED
      BY Zenon, <1>4, <3>1, <3>2, <3>3
  <2> QED
    BY Zenon, <2>1, <2>2
<1>7. Unproxied(t) /\ Entitled(t)
  <2>1. ASSUME NEW x \in Account, NEW y \in Witness, <<x, y>> \in A
        PROVE  s.proxy[x] = Self /\ s.canVote[x]
    <3>1. <<x, y>> \in s.approvals \/ (x = a /\ y = w)
      BY SMT, <2>1 DEF SameElse
    <3>2. <<x, y>> \in s.approvals => s.proxy[x] = Self /\ s.canVote[x]
      BY Zenon, <1>1 DEF Polled, Unproxied, Entitled
    <3> QED
      BY Zenon, <2>1, <3>1, <3>2 DEF Counts
  <2>2. \A x \in Account, y \in Witness : <<x, y>> \in t.approvals => t.proxy[x] = Self /\ t.canVote[x]
    <3>1. t.approvals = A /\ t.proxy = s.proxy /\ t.canVote = s.canVote
      BY Zenon, <1>3
    <3>2. ASSUME NEW x \in Account, NEW y \in Witness, <<x, y>> \in t.approvals
          PROVE  t.proxy[x] = Self /\ t.canVote[x]
      <4>1. <<x, y>> \in A
        BY Zenon, <3>1, <3>2
      <4>2. s.proxy[x] = Self /\ s.canVote[x]
        BY Zenon, <2>1, <4>1
      <4> QED
        BY Zenon, <3>1, <4>2
    <3> QED
      BY Zenon, <3>2
  <2> QED
    BY Zenon, <2>2 DEF Unproxied, Entitled
<1>8. BallotsCounted(t) /\ Limited(t)
  <2>1. /\ \A x \in Account : s.votedFor[x] = Cardinality(Ballots(s, x)) /\ s.votedFor[x] <= MaxVotes
    BY Zenon, <1>1 DEF Polled, BallotsCounted, Limited
  <2>2. ASSUME NEW x \in Account
        PROVE  t.votedFor[x] = Cardinality(Ballots(t, x)) /\ t.votedFor[x] <= MaxVotes
    <3>1. CASE x = a
      <4>1. t.votedFor[x] = b
        BY Zenon, <1>2, <1>3, <3>1
      <4>2. Ballots(t, x) = {v \in A : v[1] = a}
        BY Zenon, <1>3, <3>1 DEF Ballots
      <4> QED
        BY Zenon, <4>1, <4>2 DEF Counts
    <3>2. CASE x # a
      <4>1. t.votedFor[x] = s.votedFor[x]
        BY Zenon, <1>2, <1>3, <3>2
      <4>2. Ballots(t, x) = Ballots(s, x)
        <5>1. A \subseteq Account \X Witness
          BY Zenon, <1>3, BooksFacts
        <5>2. \A v \in Account \X Witness : v = <<v[1], v[2]>>
          OBVIOUS
        <5>3. ASSUME NEW v \in A, v[1] = x
              PROVE  v \in s.approvals
          <6>1. v = <<v[1], v[2]>>
            BY Zenon, <5>1, <5>2
          <6>2. v = <<x, v[2]>>
            BY Zenon, <5>3, <6>1
          <6>3. <<x, v[2]>> \in A
            BY Zenon, <6>2
          <6>4. <<x, v[2]>> \in s.approvals
            BY Zenon, <3>2, <6>3 DEF SameElse
          <6> QED
            BY Zenon, <6>2, <6>4
        <5>4. ASSUME NEW v \in s.approvals, v[1] = x
              PROVE  v \in A
          <6>1. v = <<v[1], v[2]>>
            BY Zenon, <1>2, <5>2
          <6>2. v = <<x, v[2]>>
            BY Zenon, <5>4, <6>1
          <6>3. <<x, v[2]>> \in s.approvals
            BY Zenon, <6>2
          <6>4. <<x, v[2]>> \in A
            BY Zenon, <3>2, <6>3 DEF SameElse
          <6> QED
            BY Zenon, <6>2, <6>4
        <5> QED
          BY Zenon, <1>3, <5>3, <5>4 DEF Ballots
      <4> QED
        BY Zenon, <2>1, <4>1, <4>2
    <3> QED
      BY Zenon, <3>1, <3>2
  <2> QED
    BY Zenon, <1>3, <2>2 DEF BallotsCounted, Limited
<1> QED
  BY Zenon, <1>1, <1>3, <1>5, <1>6, <1>7, <1>8 DEF Good, Polled

LEMMA ApproveGood ==
    ASSUME NEW s, Good(s), NEW a \in Account, NEW w \in Witness, s.proxy[a] = Self, s.canVote[a],
           s.votedFor[a] < MaxVotes, <<a, w>> \notin s.approvals
    PROVE  LET t == VotePut(s, a, w, VoteWeight(s, a), s.approvals \cup {<<a, w>>}, s.votedFor[a] + 1)
           IN  Good(t) /\ t.vesting = s.vesting /\ t.total = s.total
<1> DEFINE n == VoteWeight(s, a)
           A == s.approvals \cup {<<a, w>>}
           b == s.votedFor[a] + 1
           t == VotePut(s, a, w, n, A, b)
           N == Voters(s, w)
           M == {v \in s.approvals : v[1] = a}
<1>1. /\ s \in Books /\ s.votes[w] = SumOver(Weights(s), N) /\ IsFiniteSet(s.approvals)
      /\ s.votedFor[a] = Cardinality(M)
  BY Zenon DEF Good, Tallied, Polled, BallotsCounted, Ballots
<1>2. n = Weights(s)[a] /\ n \in Int
  BY Zenon, <1>1, WeightsInt DEF Weights
<1>3. A \in SUBSET (Account \X Witness) /\ b \in Nat /\ b <= MaxVotes
  <2>1. s.approvals \subseteq Account \X Witness /\ s.votedFor \in [Account -> Nat]
    BY Zenon, <1>1, BooksFacts
  <2> QED
    BY <2>1, VotesAssumption
<1>4. IsFiniteSet(A) /\ b = Cardinality({v \in A : v[1] = a})
  <2>1. IsFiniteSet(A) /\ IsFiniteSet(M)
    BY Zenon, <1>1, FiniteAdd, FiniteSubset
  <2>2. {v \in A : v[1] = a} = M \cup {<<a, w>>} /\ <<a, w>> \notin M
    OBVIOUS
  <2> HIDE DEF M
  <2>3. Cardinality(M \cup {<<a, w>>}) = Cardinality(M) + 1
    BY Zenon, <2>1, <2>2, CardinalityAdd
  <2> QED
    BY Zenon, <1>1, <2>1, <2>2, <2>3
<1>5. s.votes[w] + n = SumOver(Weights(s), {x \in Account : <<x, w>> \in A})
  <2>1. {x \in Account : <<x, w>> \in A} = N \cup {a} /\ a \notin N
    BY Zenon DEF Voters
  <2>2. IsFiniteSet(N) /\ N \in SUBSET Account
    BY Zenon, VotersFinite
  <2>3. IntOn(Weights(s), N \cup {a})
    BY Zenon, <1>1, <2>2, WeightsInt DEF IntOn
  <2> HIDE DEF N
  <2>4. SumOver(Weights(s), N \cup {a}) = Weights(s)[a] + SumOver(Weights(s), N)
    BY Zenon, <2>1, <2>2, <2>3, SumAdd
  <2>5. IntOn(Weights(s), N)
    BY Zenon, <2>3 DEF IntOn
  <2>6. SumOver(Weights(s), N) \in Int
    BY Zenon, <2>2, <2>5, SumInt
  <2> HIDE DEF A, n
  <2>7. s.votes[w] + n = SumOver(Weights(s), N \cup {a})
    BY <1>1, <1>2, <2>4, <2>6
  <2> QED
    BY Zenon, <2>1, <2>7
<1>6. SameElse(A, s.approvals, a, w) /\ (<<a, w>> \in A => s.canVote[a])
  BY Zenon DEF SameElse
<1> HIDE DEF n, A, b
<1>7. Voted(t, s, a, w, n, A, b)
  BY Zenon, <1>1, <1>2, <1>3, VoteFields
<1> HIDE DEF t
<1>8. Good(t)
  <2>1. Counts(s, a, w, n, A, b)
    BY Zenon, <1>3, <1>4, <1>5, <1>6 DEF Counts
  <2> QED
    BY Zenon, <1>2, <1>3, <1>4, <1>6, <1>7, <2>1, VotedGood
<1>9. t.vesting = s.vesting /\ t.total = s.total
  BY Zenon, <1>7 DEF Voted
<1> QED
  BY Zenon, <1>8, <1>9 DEF t, n, A, b

LEMMA UnapproveGood ==
    ASSUME NEW s, Good(s), NEW a \in Account, NEW w \in Witness, s.proxy[a] = Self,
           <<a, w>> \in s.approvals
    PROVE  LET t == VotePut(s, a, w, -VoteWeight(s, a), s.approvals \ {<<a, w>>}, s.votedFor[a] - 1)
           IN  Good(t) /\ t.vesting = s.vesting /\ t.total = s.total
<1> DEFINE n == -VoteWeight(s, a)
           A == s.approvals \ {<<a, w>>}
           b == s.votedFor[a] - 1
           t == VotePut(s, a, w, n, A, b)
           N == Voters(s, w)
           M == {v \in s.approvals : v[1] = a}
<1>1. /\ s \in Books /\ s.votes[w] = SumOver(Weights(s), N) /\ IsFiniteSet(s.approvals)
      /\ s.votedFor[a] = Cardinality(M) /\ s.votedFor[a] <= MaxVotes
  BY Zenon DEF Good, Tallied, Polled, BallotsCounted, Ballots, Limited
<1>2. n = -Weights(s)[a] /\ n \in Int /\ Weights(s)[a] \in Int
  <2>1. VoteWeight(s, a) = Weights(s)[a] /\ VoteWeight(s, a) \in Int
    BY Zenon, <1>1, WeightsInt DEF Weights
  <2> QED
    BY <2>1
<1>3. A \in SUBSET (Account \X Witness)
  BY Zenon, <1>1, BooksFacts
<1>4. IsFiniteSet(A) /\ b = Cardinality({v \in A : v[1] = a}) /\ b \in Nat /\ b <= MaxVotes
  <2> DEFINE R == M \ {<<a, w>>}
  <2>1. IsFiniteSet(A) /\ IsFiniteSet(R)
    BY Zenon, <1>1, FiniteSubset
  <2>2. {v \in A : v[1] = a} = R /\ M = R \cup {<<a, w>>} /\ <<a, w>> \notin R
    OBVIOUS
  <2> HIDE DEF M, R
  <2>3. Cardinality(R \cup {<<a, w>>}) = Cardinality(R) + 1 /\ Cardinality(R) \in Nat
    BY Zenon, <2>1, <2>2, CardinalityAdd, CardinalityNat
  <2>4. Cardinality(M) = Cardinality(R) + 1
    BY Zenon, <2>2, <2>3
  <2>5. b = Cardinality(R) /\ b \in Nat /\ b <= MaxVotes
    BY <1>1, <2>3, <2>4, VotesAssumption
  <2> QED
    BY Zenon, <2>1, <2>2, <2>5
<1>5. s.votes[w] + n = SumOver(Weights(s), {x \in Account : <<x, w>> \in A})
  <2>1. {x \in Account : <<x, w>> \in A} = N \ {a} /\ a \in N
    BY Zenon DEF Voters
  <2>2. IsFiniteSet(N) /\ N \in SUBSET Account
    BY Zenon, VotersFinite
  <2>3. IntOn(Weights(s), N) /\ IntOn(Weights(s), N \ {a}) /\ IsFiniteSet(N \ {a})
    BY Zenon, <1>1, <2>2, WeightsInt, FiniteSubset DEF IntOn
  <2> HIDE DEF N
  <2>4. SumOver(Weights(s), N) = Weights(s)[a] + SumOver(Weights(s), N \ {a})
    BY Zenon, <2>1, <2>2, <2>3, SumTake
  <2>5. SumOver(Weights(s), N \ {a}) \in Int
    BY Zenon, <2>3, SumInt
  <2> HIDE DEF A, n
  <2>7. s.votes[w] + n = SumOver(Weights(s), N \ {a})
    BY <1>1, <1>2, <2>4, <2>5
  <2> QED
    BY Zenon, <2>1, <2>7
<1>6. SameElse(A, s.approvals, a, w) /\ (<<a, w>> \in A => s.canVote[a])
  BY Zenon DEF SameElse
<1> HIDE DEF n, A, b
<1>7. Voted(t, s, a, w, n, A, b)
  BY Zenon, <1>1, <1>2, <1>3, <1>4, VoteFields
<1> HIDE DEF t
<1>8. Good(t)
  <2>1. Counts(s, a, w, n, A, b)
    BY Zenon, <1>3, <1>4, <1>5, <1>6 DEF Counts
  <2> QED
    BY Zenon, <1>2, <1>3, <1>4, <1>6, <1>7, <2>1, VotedGood
<1>9. t.vesting = s.vesting /\ t.total = s.total
  BY Zenon, <1>7 DEF Voted
<1> QED
  BY Zenon, <1>8, <1>9 DEF t, n, A, b

-----------------------------------------------------------------------------
(***************************************************************************)
(* Every share reaches one account: the last of its chain, as far as the    *)
(* chain is followed.                                                       *)
(***************************************************************************)
Ends(u, d) == d \in Depth /\ u[d] # Self /\ (d = MaxDepth \/ u[d + 1] = Self)

LEMMA EndExists ==
    ASSUME NEW px \in Proxies, NEW b \in Account
    PROVE  \E d : Ends(Up(px, b), d)
<1> DEFINE u == Up(px, b)
           T == {j \in 0..MaxDepth : u[j] = Self}
<1>1. Chain(u, px, b, MaxDepth)
  BY Zenon, UpChain
<1>2. u[0] = b /\ b # Self
  BY Zenon, <1>1, AccountFacts DEF Chain
<1>3. MaxDepth \in Nat /\ MaxDepth >= 2 /\ Depth = 0..MaxDepth
  BY Zenon, DepthFacts
<1> HIDE DEF u
<1>4. CASE u[MaxDepth] # Self
  <2>1. Ends(u, MaxDepth)
    BY <1>3, <1>4 DEF Ends
  <2> QED
    BY Zenon, <2>1 DEF u
<1>5. CASE u[MaxDepth] = Self
  <2>1. T \in SUBSET Nat /\ T # {}
    BY <1>3, <1>5
  <2> HIDE DEF T
  <2>2. PICK j \in T : \A k \in T : j <= k
    BY Zenon, <2>1, LeastNat
  <2>3. j \in 0..MaxDepth /\ u[j] = Self /\ \A k \in 0..MaxDepth : u[k] = Self => j <= k
    BY Zenon, <2>2 DEF T
  <2>4. j # 0
    BY Zenon, <1>2, <2>3
  <2>5. j - 1 \in 0..MaxDepth /\ (j - 1) + 1 = j /\ ~(j <= j - 1)
    BY <1>3, <2>3, <2>4
  <2>6. u[j - 1] # Self
    BY Zenon, <2>3, <2>5
  <2>7. Ends(u, j - 1)
    BY Zenon, <1>3, <2>3, <2>5, <2>6 DEF Ends
  <2> QED
    BY Zenon, <2>7 DEF u
<1> QED
  BY Zenon, <1>4, <1>5

LEMMA EndUnique ==
    ASSUME NEW px \in Proxies, NEW b \in Account, NEW d, Ends(Up(px, b), d), NEW e, Ends(Up(px, b), e)
    PROVE  Same(d, e)
<1> DEFINE u == Up(px, b)
<1>1. Chain(u, px, b, MaxDepth)
  BY Zenon, UpChain
<1>2. MaxDepth \in Nat /\ Depth = 0..MaxDepth
  BY Zenon, DepthFacts
<1> HIDE DEF u
<1>3. ASSUME NEW i, Ends(u, i), NEW j, Ends(u, j), i < j
      PROVE  FALSE
  <2>1. i \in 0..MaxDepth /\ j \in 0..MaxDepth /\ u[j] # Self /\ (i = MaxDepth \/ u[i + 1] = Self)
    BY Zenon, <1>2, <1>3 DEF Ends
  <2>2. i # MaxDepth /\ i + 1 \in 0..MaxDepth /\ i + 1 <= j
    BY <1>2, <1>3, <2>1
  <2>3. u[i + 1] = Self
    BY Zenon, <2>1, <2>2
  <2>4. u[j] = Self
    BY Zenon, <1>1, <1>2, <2>1, <2>2, <2>3, ChainSelf
  <2> QED
    BY Zenon, <2>1, <2>4
<1>4. d \in 0..MaxDepth /\ e \in 0..MaxDepth
  BY Zenon, <1>2 DEF Ends
<1>5. ~(d < e) /\ ~(e < d)
  BY Zenon, <1>3 DEF u
<1> QED
  BY <1>2, <1>4, <1>5 DEF Same

\* The account that the shares of b reach.
Reaches(px) == [b \in Account |-> Up(px, b)[CHOOSE d : Ends(Up(px, b), d)]]

LEMMA ReachesAt ==
    ASSUME NEW px \in Proxies, NEW b \in Account
    PROVE  /\ Reaches(px)[b] \in Account
           /\ \E d : Ends(Up(px, b), d) /\ Meets(Up(px, b), d, Reaches(px)[b])
           /\ \A d : Ends(Up(px, b), d) => Reaches(px)[b] = Up(px, b)[d]
<1> DEFINE u == Up(px, b)
           e == CHOOSE d : Ends(u, d)
<1>1. Ends(u, e)
  BY Zenon, EndExists
<1>2. Reaches(px)[b] = u[e]
  BY Zenon DEF Reaches
<1>3. u \in [0..MaxDepth -> Seat]
  BY Zenon, UpChain DEF Chain
<1>4. ASSUME NEW d, Ends(u, d) PROVE d = e
  <2> HIDE DEF e
  <2>1. Same(d, e)
    BY Zenon, <1>1, <1>4, EndUnique
  <2> QED
    BY Zenon, <2>1 DEF Same
<1> HIDE DEF u, e
<1>5. e \in 0..MaxDepth /\ u[e] # Self
  BY Zenon, <1>1, DepthFacts DEF Ends
<1>6. u[e] \in Account
  BY Zenon, <1>3, <1>5 DEF Seat
<1> QED
  BY Zenon, <1>1, <1>2, <1>4, <1>6 DEF u, Meets

\* Those whose shares reach p: all below it when p has no proxy, else those farthest down.
LEMMA PartTop ==
    ASSUME NEW px \in Proxies, NEW p \in Account, px[p] = Self, NEW b \in Account
    PROVE  Reaches(px)[b] = p <=> \E d \in Depth : Up(px, b)[d] = p
<1> DEFINE u == Up(px, b)
<1>1. Chain(u, px, b, MaxDepth)
  BY Zenon, UpChain
<1>0. /\ \E d : Ends(u, d) /\ Meets(u, d, Reaches(px)[b])
      /\ \A d : Ends(u, d) => Reaches(px)[b] = u[d]
  BY Zenon, ReachesAt
<1>2. ASSUME NEW d \in Depth, u[d] = p PROVE Reaches(px)[b] = p
  <2>1. p # Self
    BY Zenon, AccountFacts
  <2>2. Ends(u, d)
    <3>1. CASE d = MaxDepth
      BY Zenon, <1>2, <2>1, <3>1 DEF Ends
    <3>2. CASE d # MaxDepth
      <4>1. d + 1 \in 1..MaxDepth /\ (d + 1) - 1 = d
        BY <3>2, DepthFacts DEF Depth
      <4> HIDE DEF u
      <4>2. u[d + 1] = px[u[d]]
        BY Zenon, <1>1, <1>2, <2>1, <4>1 DEF Chain
      <4> QED
        BY Zenon, <1>2, <2>1, <4>2 DEF Ends
    <3> QED
      BY Zenon, <3>1, <3>2
  <2> QED
    BY Zenon, <1>0, <1>2, <2>2
<1>3. ASSUME Reaches(px)[b] = p PROVE \E d \in Depth : u[d] = p
  BY Zenon, <1>0, <1>3 DEF Ends, Meets
<1> QED
  BY Zenon, <1>2, <1>3

LEMMA PartBelow ==
    ASSUME NEW px \in Proxies, NEW p \in Account, px[p] # Self, NEW b \in Account
    PROVE  Reaches(px)[b] = p <=> Up(px, b)[MaxDepth] = p
<1> DEFINE u == Up(px, b)
<1>1. Chain(u, px, b, MaxDepth)
  BY Zenon, UpChain
<1>0. /\ \E d : Ends(u, d) /\ Meets(u, d, Reaches(px)[b])
      /\ \A d : Ends(u, d) => Reaches(px)[b] = u[d]
  BY Zenon, ReachesAt
<1>2. p # Self /\ MaxDepth \in Depth
  BY AccountFacts, DepthFacts DEF Depth
<1>3. u[MaxDepth] = p => Reaches(px)[b] = p
  <2>1. ASSUME u[MaxDepth] = p PROVE Ends(u, MaxDepth)
    BY Zenon, <1>2, <2>1 DEF Ends
  <2> QED
    BY Zenon, <1>0, <2>1
<1>4. ASSUME Reaches(px)[b] = p PROVE u[MaxDepth] = p
  <2>1. PICK d : Ends(u, d) /\ u[d] = p
    BY Zenon, <1>0, <1>4 DEF Meets
  <2>2. CASE d = MaxDepth
    BY Zenon, <2>1, <2>2
  <2>3. CASE d # MaxDepth
    <3>1. d \in Depth /\ u[d + 1] = Self
      BY Zenon, <2>1, <2>3 DEF Ends
    <3>2. d + 1 \in 1..MaxDepth /\ (d + 1) - 1 = d
      BY <2>3, <3>1, DepthFacts DEF Depth
    <3> HIDE DEF u
    <3>3. u[d + 1] = px[u[d]]
      BY Zenon, <1>1, <1>2, <2>1, <3>2 DEF Chain
    <3> QED
      BY Zenon, <2>1, <3>1, <3>3
  <2> QED
    BY Zenon, <2>2, <2>3
<1> QED
  BY Zenon, <1>3, <1>4

\* What an account brings to the total: what it votes with when it has no proxy, else
\* what is too far down to be passed on.
Yield(s) == [x \in Account |-> IF s.proxy[x] = Self THEN VoteWeight(s, x) ELSE s.proxied[x][MaxDepth - 1]]

LEMMA TopYield ==
    ASSUME NEW s \in Books, Forest(s.proxy), Matches(s), NEW p \in Account, s.proxy[p] = Self
    PROVE  Weights(s)[p] = SumOver(s.vesting, PartOf(Reaches(s.proxy), p, Account))
<1> DEFINE px == s.proxy
           W == PartOf(Reaches(px), p, Account)
           g == Whole(s, p)
           o == [b \in Account |-> CHOOSE d \in Depth : Up(px, b)[d] = p]
<1>1. px \in Proxies /\ s.vesting \in [Account -> Nat]
  BY Zenon, BooksFacts
<1>2. \A b \in W : b \in Account /\ \E d \in Depth : Up(px, b)[d] = p
  BY Zenon, <1>1, PartTop DEF PartOf
<1>3. ASSUME NEW b \in W PROVE b \in Account /\ o[b] \in Depth /\ Up(px, b)[o[b]] = p
  BY Zenon, <1>2
<1>4. ASSUME NEW d \in Depth PROVE PartOf(o, d, W) = Under(px, p, d)
  <2>1. ASSUME NEW b \in PartOf(o, d, W) PROVE b \in Under(px, p, d)
    <3>1. b \in W /\ o[b] = d
      BY Zenon DEF PartOf
    <3> HIDE DEF o
    <3> QED
      BY Zenon, <1>3, <3>1 DEF Under
  <2>2. ASSUME NEW b \in Under(px, p, d) PROVE b \in PartOf(o, d, W)
    <3>1. b \in Account /\ Up(px, b)[d] = p
      BY Zenon DEF Under
    <3>2. b \in W
      BY Zenon, <1>1, <3>1, PartTop DEF PartOf
    <3> HIDE DEF o, W
    <3>3. Meets(Up(px, b), d, p) /\ Meets(Up(px, b), o[b], p) /\ o[b] \in Depth
      BY Zenon, <1>3, <3>1, <3>2 DEF Meets
    <3>4. Chain(Up(px, b), px, b, MaxDepth) /\ MaxDepth \in Nat /\ Depth = 0..MaxDepth
      BY Zenon, <1>1, <3>1, UpChain, DepthFacts
    <3>5. Same(o[b], d)
      BY Zenon, <1>1, <3>3, <3>4, MetOnce
    <3> QED
      BY Zenon, <3>2, <3>5 DEF PartOf, Same
  <2> QED
    BY Zenon, <2>1, <2>2
<1>5. Spread(g, px, p, s.vesting)
  <2>1. \A k \in Level : s.proxied[p][k] = SumOver(s.vesting, Under(px, p, k + 1))
    BY Zenon DEF Matches
  <2> QED
    BY Zenon, <1>1, <2>1, WholeSpread
<1> HIDE DEF g, o, W, px
<1>6. ByPart(g, s.vesting, o, Depth, W)
  BY Zenon, <1>4, <1>5 DEF ByPart, Spread
<1>7. IsFiniteSet(W) /\ IntOn(s.vesting, W)
  <2>1. W \subseteq Account
    BY Zenon, <1>3
  <2>2. IntOn(s.vesting, W)
    BY <1>1, <2>1 DEF IntOn
  <2> QED
    BY Zenon, <2>1, <2>2, AccountFacts, FiniteSubset
<1>8. SumOver(g, Depth) = SumOver(s.vesting, W)
  BY SMT, <1>3, <1>6, <1>7, DepthFinite, SumPartition
<1>9. SumOver(g, Depth) = Weights(s)[p]
  BY Zenon, WholeSum DEF g
<1> QED
  BY Zenon, <1>8, <1>9 DEF W, px

LEMMA YieldSum ==
    ASSUME NEW s \in Books, Forest(s.proxy), Matches(s)
    PROVE  SumOver(Yield(s), Account) = SumOver(s.vesting, Account)
<1> DEFINE px == s.proxy
           o == Reaches(px)
<1>1. px \in Proxies /\ s.vesting \in [Account -> Nat]
  BY Zenon, BooksFacts
<1>2. ASSUME NEW p \in Account PROVE Yield(s)[p] = SumOver(s.vesting, PartOf(o, p, Account))
  <2>1. CASE px[p] = Self
    <3>1. Yield(s)[p] = Weights(s)[p]
      BY Zenon, <2>1 DEF Yield, Weights
    <3> QED
      BY Zenon, <2>1, <3>1, TopYield
  <2>2. CASE px[p] # Self
    <3>1. Yield(s)[p] = s.proxied[p][MaxDepth - 1]
      BY Zenon, <2>2 DEF Yield
    <3>2. MaxDepth - 1 \in Level /\ (MaxDepth - 1) + 1 = MaxDepth
      BY DepthFacts DEF Level
    <3>3. s.proxied[p][MaxDepth - 1] = SumOver(s.vesting, Under(px, p, MaxDepth))
      <4>1. s.proxied[p][MaxDepth - 1] = SumOver(s.vesting, Under(px, p, (MaxDepth - 1) + 1))
        BY Zenon, <3>2 DEF Matches
      <4> QED
        BY Zenon, <3>2, <4>1
    <3>4. PartOf(o, p, Account) = Under(px, p, MaxDepth)
      <4>1. \A b \in Account : o[b] = p <=> Up(px, b)[MaxDepth] = p
        BY Zenon, <1>1, <2>2, PartBelow
      <4> HIDE DEF o, px
      <4> QED
        BY Zenon, <4>1 DEF PartOf, Under
    <3> QED
      BY Zenon, <3>1, <3>3, <3>4
  <2> QED
    BY Zenon, <2>1, <2>2
<1>3. \A b \in Account : o[b] \in Account
  BY Zenon, <1>1, ReachesAt
<1>4. IntOn(s.vesting, Account) /\ IsFiniteSet(Account)
  BY <1>1, AccountFacts DEF IntOn
<1> HIDE DEF o
<1>5. ByPart(Yield(s), s.vesting, o, Account, Account)
  BY Zenon, <1>2 DEF ByPart
<1> QED
  BY SMT, <1>3, <1>4, <1>5, SumPartition

\* What is counted is never negative.
LEMMA WeightsNat ==
    ASSUME NEW s \in Books, Matches(s)
    PROVE  /\ \A p \in Account, k \in Level : s.proxied[p][k] \in Nat
           /\ \A p \in Account : Weights(s)[p] \in Nat
<1>1. s.vesting \in [Account -> Nat]
  BY Zenon, BooksFacts
<1>2. ASSUME NEW p \in Account, NEW k \in Level PROVE s.proxied[p][k] \in Nat
  <2>1. s.proxied[p][k] = SumOver(s.vesting, Under(s.proxy, p, k + 1))
    BY Zenon DEF Matches
  <2>2. NatOn(s.vesting, Under(s.proxy, p, k + 1))
    BY Zenon, <1>1 DEF NatOn, Under
  <2> QED
    BY Zenon, <2>1, <2>2, AccountFacts, SumNat
<1>3. ASSUME NEW p \in Account PROVE Weights(s)[p] \in Nat
  <2>1. NatOn(s.proxied[p], Level)
    BY Zenon, <1>2 DEF NatOn
  <2>2. SumOver(s.proxied[p], Level) \in Nat
    BY Zenon, <2>1, DepthFinite, SumNat
  <2>3. Weights(s)[p] = s.vesting[p] + SumOver(s.proxied[p], Level)
    BY Zenon, WeightsInt
  <2>4. s.vesting[p] \in Nat
    BY Zenon, <1>1
  <2> QED
    BY <2>2, <2>3, <2>4
<1> QED
  BY Zenon, <1>2, <1>3

\* No witness has more votes than there are shares.
LEMMA VotesBound ==
    ASSUME NEW s, Good(s), NEW w \in Witness
    PROVE  s.votes[w] \in Nat /\ s.votes[w] <= SumOver(s.vesting, Account)
<1> DEFINE N == Voters(s, w)
           f == Yield(s)
<1>1. s \in Books /\ Forest(s.proxy) /\ Matches(s) /\ s.votes[w] = SumOver(Weights(s), N) /\ Unproxied(s)
  BY Zenon DEF Good, Tallied, Polled
<1>2. N \in SUBSET Account /\ IsFiniteSet(N)
  BY Zenon, VotersFinite
<1>3. SumOver(f, Account) = SumOver(s.vesting, Account)
  BY Zenon, <1>1, YieldSum
<1>4. NatOn(f, Account)
  <2>1. MaxDepth - 1 \in Level
    BY DepthFacts DEF Level
  <2>2. \A x \in Account : Weights(s)[x] \in Nat /\ s.proxied[x][MaxDepth - 1] \in Nat
    BY Zenon, <1>1, <2>1, WeightsNat
  <2> QED
    BY Zenon, <2>2 DEF NatOn, Yield, Weights
<1>5. AgreeOn(f, Weights(s), N)
  <2>1. \A x \in N : x \in Account /\ s.proxy[x] = Self
    BY Zenon, <1>1 DEF Voters, Unproxied
  <2> QED
    BY Zenon, <2>1 DEF AgreeOn, Yield, Weights
<1> HIDE DEF f, N
<1>6. IntOn(f, N)
  BY <1>2, <1>4 DEF NatOn, IntOn
<1>7. SumOver(f, N) = SumOver(Weights(s), N)
  BY Zenon, <1>2, <1>5, <1>6, SumCong
<1>8. SumOver(f, N) \in Nat /\ SumOver(f, N) <= SumOver(f, Account)
  BY Zenon, <1>2, <1>4, AccountFacts, SumAtLeast
<1> QED
  BY Zenon, <1>1, <1>3, <1>7, <1>8

-----------------------------------------------------------------------------
(***************************************************************************)
(* The inductive invariant.                                                 *)
(***************************************************************************)
Request == [account : Account, date : 0..(MaxTime + DeclineDelay)]

\* What the objects say, when the shares are those of the total.
Sound(s) == Good(s) /\ s.total = SumOver(s.vesting, Account)

VotesInv ==
    /\ now \in 0..MaxTime
    /\ Sound(State)
    /\ declines \subseteq Request /\ IsFiniteSet(declines)

LEMMA StateFields ==
    /\ State.vesting = vesting /\ State.total = total /\ State.proxy = proxy
    /\ State.proxied = proxied /\ State.approvals = approvals /\ State.votedFor = votedFor
    /\ State.votes = votes /\ State.canVote = canVote
  BY Zenon DEF State

LEMMA BecomesState ==
    ASSUME NEW t \in Books, Becomes(t)
    PROVE  State' = t
<1>1. t = [vesting |-> t.vesting, total |-> t.total, proxy |-> t.proxy, proxied |-> t.proxied,
           approvals |-> t.approvals, votedFor |-> t.votedFor, votes |-> t.votes, canVote |-> t.canVote]
  BY Zenon DEF Books
<1> QED
  BY Zenon, <1>1 DEF Becomes, State

LEMMA BecomesSound ==
    ASSUME NEW t, Sound(t), Becomes(t)
    PROVE  Sound(State)'
<1>1. t \in Books
  BY Zenon DEF Sound, Good
<1>2. State' = t
  BY Zenon, <1>1, BecomesState
<1> QED
  BY Zenon, <1>2

LEMMA VotesStart == Init => VotesInv
<1> SUFFICES ASSUME Init PROVE VotesInv
  BY Zenon
<1> DEFINE s == State
<1>1. /\ s.vesting = Opening /\ s.total = SumOver(Opening, Account)
      /\ s.proxy = [a \in Account |-> Self]
      /\ s.proxied = [a \in Account |-> [k \in Level |-> 0]]
      /\ s.approvals = {} /\ s.votedFor = [a \in Account |-> 0]
      /\ s.votes = [w \in Witness |-> 0] /\ s.canVote = [a \in Account |-> TRUE]
  BY Zenon DEF Init, State, Level
<1>2. Opening \in [Account -> Nat] /\ SumOver(Opening, Account) \in Int
  <2>1. Opening \in [Account -> Nat]
    BY Zenon, VotesAssumption
  <2>2. IntOn(Opening, Account)
    BY <2>1 DEF IntOn
  <2> QED
    BY Zenon, <2>1, <2>2, AccountFacts, SumInt
<1>3. s \in Books
  <2>1. /\ [a \in Account |-> Self] \in Proxies
        /\ [a \in Account |-> [k \in Level |-> 0]] \in [Account -> [Level -> Int]]
        /\ [a \in Account |-> 0] \in [Account -> Nat]
        /\ [w \in Witness |-> 0] \in [Witness -> Int]
        /\ [a \in Account |-> TRUE] \in [Account -> BOOLEAN]
        /\ {} \in SUBSET (Account \X Witness)
    BY DEF Proxies, Seat
  <2>2. /\ vesting \in [Account -> Nat] /\ total \in Int /\ proxy \in Proxies
        /\ proxied \in [Account -> [Level -> Int]] /\ approvals \in SUBSET (Account \X Witness)
        /\ votedFor \in [Account -> Nat] /\ votes \in [Witness -> Int] /\ canVote \in [Account -> BOOLEAN]
    BY Zenon, <1>1, <1>2, <2>1, StateFields
  <2> QED
    BY Zenon, <2>2 DEF State, Books
<1> HIDE DEF s
<1>4. s.proxy \in Proxies /\ \A x \in Account : s.proxy[x] = Self
  BY Zenon, <1>1, <1>3, BooksFacts
<1>5. Forest(s.proxy)
  <2>1. [x \in Account |-> 0] \in [Account -> Nat]
    BY Zenon
  <2>2. Ranks([x \in Account |-> 0], s.proxy)
    BY Zenon, <1>4, <2>1 DEF Ranks
  <2> QED
    BY Zenon, <2>2 DEF Forest
<1>6. Matches(s)
  <2> SUFFICES ASSUME NEW p \in Account, NEW k \in Level
               PROVE  s.proxied[p][k] = SumOver(s.vesting, Under(s.proxy, p, k + 1))
    BY Zenon DEF Matches
  <2>1. s.proxied[p][k] = 0
    BY SMT, <1>1
  <2>2. Under(s.proxy, p, k + 1) = {}
    <3> SUFFICES ASSUME NEW b \in Account PROVE Up(s.proxy, b)[k + 1] # p
      BY Zenon DEF Under
    <3> DEFINE u == Up(s.proxy, b)
    <3>1. Chain(u, s.proxy, b, MaxDepth)
      BY Zenon, <1>4, UpChain
    <3> HIDE DEF u
    <3>2. b # Self /\ p # Self
      BY Zenon, AccountFacts
    <3>3. MaxDepth \in Nat /\ MaxDepth >= 2 /\ k + 1 \in 0..MaxDepth /\ k \in Nat
      BY Zenon, DepthFacts
    <3>4. 1 \in 1..MaxDepth /\ 1 \in 0..MaxDepth /\ 1 <= k + 1 /\ 1 - 1 = 0
      BY <3>3
    <3>5. u[1] = Self
      BY Zenon, <1>4, <3>1, <3>2, <3>4 DEF Chain
    <3>6. u[k + 1] = Self
      BY Zenon, <3>1, <3>3, <3>4, <3>5, ChainSelf
    <3> QED
      BY Zenon, <3>2, <3>6 DEF u
  <2> QED
    BY Zenon, <2>1, <2>2, SumEmpty
<1>7. Tallied(s)
  <2> SUFFICES ASSUME NEW w \in Witness PROVE s.votes[w] = SumOver(Weights(s), Voters(s, w))
    BY Zenon DEF Tallied
  <2>1. s.votes[w] = 0 /\ Voters(s, w) = {}
    BY Zenon, <1>1 DEF Voters
  <2> QED
    BY Zenon, <2>1, SumEmpty
<1>8. Polled(s)
  <2>1. Unproxied(s) /\ Entitled(s) /\ IsFiniteSet(s.approvals)
    BY Zenon, <1>1, FiniteEmpty DEF Unproxied, Entitled
  <2>2. \A x \in Account : s.votedFor[x] = 0 /\ Ballots(s, x) = {}
    BY Zenon, <1>1 DEF Ballots
  <2>3. 0 <= MaxVotes
    BY VotesAssumption
  <2> QED
    BY Zenon, <2>1, <2>2, <2>3, CardinalityEmpty DEF Polled, BallotsCounted, Limited
<1>9. Sound(s)
  BY Zenon, <1>1, <1>3, <1>5, <1>6, <1>7, <1>8 DEF Sound, Good
<1>10. now \in 0..MaxTime /\ declines \subseteq Request /\ IsFiniteSet(declines)
  BY VotesAssumption, FiniteEmpty DEF Init
<1> QED
  BY Zenon, <1>9, <1>10 DEF VotesInv, s

\* The shares of a and the total, before the votes are adjusted.
EndowPut(s, a, y, m) == [s EXCEPT !.vesting[a] = y, !.total = m]
DepositPut(s, a, y) == [s EXCEPT !.vesting[a] = y]

Totals(t, m) == t.total = m
Richer(y, s, a, n) == y = s.vesting[a] + n

LEMMA EndowFields ==
    ASSUME NEW s \in Books, NEW a \in Account, NEW n \in Int, NEW y \in Nat, Richer(y, s, a, n)
    PROVE  /\ \A m \in Int : Endowed(EndowPut(s, a, y, m), s, a, n) /\ Totals(EndowPut(s, a, y, m), m)
           /\ Endowed(DepositPut(s, a, y), s, a, n) /\ DepositPut(s, a, y).total = s.total
<1> DEFINE v == [s.vesting EXCEPT ![a] = y]
<1>1. v \in [Account -> Nat]
  BY Zenon, BooksFacts
<1>2. v = [s.vesting EXCEPT ![a] = @ + n]
  BY Zenon DEF Richer
<1> HIDE DEF v
<1>3. ASSUME NEW m \in Int
      PROVE  Endowed(EndowPut(s, a, y, m), s, a, n) /\ Totals(EndowPut(s, a, y, m), m)
  <2> DEFINE t == [s EXCEPT !.vesting = v, !.total = m]
  <2>1. EndowPut(s, a, y, m) = t
    BY Zenon DEF EndowPut, v
  <2>2. t \in Books
    BY Zenon, <1>1 DEF Books
  <2>3. /\ t.vesting = v /\ t.total = m
        /\ t.proxy = s.proxy /\ t.proxied = s.proxied /\ t.approvals = s.approvals
        /\ t.votedFor = s.votedFor /\ t.votes = s.votes /\ t.canVote = s.canVote
    BY Zenon DEF Books
  <2> HIDE DEF t
  <2> QED
    BY Zenon, <1>2, <2>1, <2>2, <2>3 DEF Endowed, Totals
<1>4. Endowed(DepositPut(s, a, y), s, a, n) /\ DepositPut(s, a, y).total = s.total
  <2> DEFINE t == [s EXCEPT !.vesting = v]
  <2>1. DepositPut(s, a, y) = t
    BY Zenon DEF DepositPut, v
  <2>2. t \in Books
    BY Zenon, <1>1 DEF Books
  <2>3. /\ t.vesting = v /\ t.total = s.total
        /\ t.proxy = s.proxy /\ t.proxied = s.proxied /\ t.approvals = s.approvals
        /\ t.votedFor = s.votedFor /\ t.votes = s.votes /\ t.canVote = s.canVote
    BY Zenon DEF Books
  <2> HIDE DEF t
  <2> QED
    BY Zenon, <1>2, <2>1, <2>2, <2>3 DEF Endowed
<1> QED
  BY Zenon, <1>3, <1>4

LEMMA CreateVestingSound ==
    ASSUME VotesInv, NEW a \in Account, NEW n \in Amounts, CreateVesting(a, n)
    PROVE  VotesInv'
<1> DEFINE s == State
           y == s.vesting[a] + n
           m == s.total + n
           e == EndowPut(s, a, y, m)
           t == AdjustProxied(e, a, Single(n))
<1>1. Good(s) /\ s.total = SumOver(s.vesting, Account) /\ s \in Books
  BY Zenon DEF VotesInv, Sound, Good
<1>2. n \in Nat /\ s.vesting[a] \in Nat /\ s.total \in Int
  BY Zenon, <1>1, BooksFacts, VotesAssumption
<1>3. Becomes(t) /\ now' = now /\ declines' = declines
  BY Zenon DEF CreateVesting, EndowPut
<1> HIDE DEF s
<1>4. y \in Nat /\ n \in Int /\ m \in Int /\ Richer(y, s, a, n)
  BY <1>2 DEF Richer
<1> HIDE DEF y, m
<1>5. Endowed(e, s, a, n) /\ Totals(e, m)
  BY Zenon, <1>1, <1>4, EndowFields
<1> HIDE DEF e
<1>6. /\ Good(t) /\ t.total = e.total /\ t.vesting = e.vesting
      /\ SumOver(e.vesting, Account) = SumOver(s.vesting, Account) + n
  BY SMT, <1>1, <1>4, <1>5, EndowedGood
<1> HIDE DEF t
<1>7. Sound(t)
  BY Zenon, <1>1, <1>5, <1>6 DEF Sound, Totals, m
<1>8. Sound(State)'
  BY Zenon, <1>3, <1>7, BecomesSound
<1> QED
  BY Zenon, <1>3, <1>8 DEF VotesInv

LEMMA AccountWitnessVoteSound ==
    ASSUME VotesInv, NEW a \in Account, NEW w \in Witness, NEW approve \in BOOLEAN,
           AccountWitnessVote(a, w, approve)
    PROVE  VotesInv'
<1> DEFINE s == State
<1>1. Good(s) /\ s.total = SumOver(s.vesting, Account) /\ s \in Books
  BY Zenon DEF VotesInv, Sound, Good
<1>2. s.proxy[a] = Self /\ now' = now /\ declines' = declines
  BY Zenon, StateFields DEF AccountWitnessVote
<1>3. CASE approve
  <2> DEFINE t == VotePut(s, a, w, VoteWeight(s, a), s.approvals \cup {<<a, w>>}, s.votedFor[a] + 1)
  <2>1. s.canVote[a] /\ s.votedFor[a] < MaxVotes /\ <<a, w>> \notin s.approvals
    BY Zenon, <1>3, StateFields DEF AccountWitnessVote
  <2>2. Becomes(t)
    BY Zenon, <1>3 DEF AccountWitnessVote, VotePut
  <2> HIDE DEF s
  <2>3. Good(t) /\ t.vesting = s.vesting /\ t.total = s.total
    BY Zenon, <1>1, <1>2, <2>1, ApproveGood
  <2> HIDE DEF t
  <2>4. Sound(t)
    BY Zenon, <1>1, <2>3 DEF Sound
  <2>5. Sound(State)'
    BY Zenon, <2>2, <2>4, BecomesSound
  <2> QED
    BY Zenon, <1>2, <2>5 DEF VotesInv
<1>4. CASE ~approve
  <2> DEFINE t == VotePut(s, a, w, -VoteWeight(s, a), s.approvals \ {<<a, w>>}, s.votedFor[a] - 1)
  <2>1. <<a, w>> \in s.approvals
    BY Zenon, <1>4, StateFields DEF AccountWitnessVote
  <2>2. Becomes(t)
    BY Zenon, <1>4 DEF AccountWitnessVote, VotePut
  <2> HIDE DEF s
  <2>3. Good(t) /\ t.vesting = s.vesting /\ t.total = s.total
    BY Zenon, <1>1, <1>2, <2>1, UnapproveGood
  <2> HIDE DEF t
  <2>4. Sound(t)
    BY Zenon, <1>1, <2>3 DEF Sound
  <2>5. Sound(State)'
    BY Zenon, <2>2, <2>4, BecomesSound
  <2> QED
    BY Zenon, <1>2, <2>5 DEF VotesInv
<1> QED
  BY Zenon, <1>3, <1>4

LEMMA AccountWitnessProxySound ==
    ASSUME VotesInv, StaleProxy = {"kept"}, NEW a \in Account, NEW p \in Account \cup {Self},
           AccountWitnessProxy(a, p)
    PROVE  VotesInv'
<1> DEFINE s == State
           r == ReplaceProxy(AdjustProxied(s, a, Negated(Whole(s, a))), a, p)
<1>1. Good(s) /\ s.total = SumOver(s.vesting, Account)
  BY Zenon DEF VotesInv, Sound
<1>2. Becomes(r) /\ now' = now /\ declines' = declines
  BY Zenon DEF AccountWitnessProxy
<1>3. p # s.proxy[a] /\ p \in Seat
  BY Zenon, StateFields DEF AccountWitnessProxy, Seat
<1>4. p # Self => Walked(s.proxy, a, p)
  <2>1. "empty" \notin StaleProxy
    BY Zenon
  <2>2. p # Self => NoLoop(a, p)
    BY Zenon DEF AccountWitnessProxy
  <2> QED
    BY Zenon, <2>1, <2>2, StateFields DEF NoLoop, Walked
<1> HIDE DEF s
<1>5. Good(r) /\ r.vesting = s.vesting /\ r.total = s.total
  BY Zenon, <1>1, <1>3, <1>4, ReplaceGood
<1> HIDE DEF r
<1>6. Sound(r)
  BY Zenon, <1>1, <1>5 DEF Sound
<1>7. Sound(State)'
  BY Zenon, <1>2, <1>6, BecomesSound
<1> QED
  BY Zenon, <1>2, <1>7 DEF VotesInv

LEMMA DeclineVotingRightsSound ==
    ASSUME VotesInv, NEW a \in Account, NEW decline \in BOOLEAN, DeclineVotingRights(a, decline)
    PROVE  VotesInv'
<1>1. now \in 0..MaxTime /\ declines \subseteq Request /\ IsFiniteSet(declines) /\ Sound(State)
  BY Zenon DEF VotesInv
<1>2. State' = State /\ now' = now
  BY Zenon DEF DeclineVotingRights, State
<1>3. Sound(State)'
  BY Zenon, <1>1, <1>2
<1>4. declines' \subseteq Request /\ IsFiniteSet(declines')
  <2>1. CASE decline
    <3> DEFINE r == [account |-> a, date |-> now + DeclineDelay]
    <3>1. declines' = declines \cup {r}
      BY Zenon, <2>1 DEF DeclineVotingRights
    <3>2. now + DeclineDelay \in 0..(MaxTime + DeclineDelay)
      BY <1>1, VotesAssumption
    <3>3. r \in Request
      BY Zenon, <3>2 DEF Request
    <3> HIDE DEF r
    <3> QED
      BY Zenon, <1>1, <3>1, <3>3, FiniteAdd
  <2>2. CASE ~decline
    <3>1. declines' \subseteq declines
      BY Zenon, <2>2 DEF DeclineVotingRights
    <3> QED
      BY Zenon, <1>1, <3>1, FiniteSubset
  <2> QED
    BY Zenon, <2>1, <2>2
<1> QED
  BY Zenon, <1>1, <1>2, <1>3, <1>4 DEF VotesInv

LEMMA EndOfBlockSound ==
    ASSUME VotesInv, now < MaxTime, now' = now + 1, NEW s, Sound(s), EndOfBlock(s)
    PROVE  VotesInv'
<1> DEFINE due == DueDeclines(now')
           t == FoldSet(LAMBDA r, x : Decline(x, r.account), s, due)
<1>1. now \in 0..MaxTime /\ declines \subseteq Request /\ IsFiniteSet(declines)
  BY Zenon DEF VotesInv
<1>2. Becomes(t) /\ declines' = declines \ due
  BY Zenon DEF EndOfBlock
<1>3. due \subseteq declines
  BY Zenon DEF DueDeclines
<1> HIDE DEF due
<1>4. IsFiniteSet(due) /\ \A r \in due : r.account \in Account
  <2>1. \A r \in Request : r.account \in Account
    BY Zenon DEF Request
  <2> QED
    BY Zenon, <1>1, <1>3, <2>1, FiniteSubset
<1>5. t \in Like(s)
  BY Zenon, <1>4, DeclinesGood DEF Sound
<1> HIDE DEF t
<1>6. Sound(t)
  BY Zenon, <1>5 DEF Like, Sound
<1>7. Sound(State)'
  BY Zenon, <1>2, <1>6, BecomesSound
<1>8. declines' \subseteq Request /\ IsFiniteSet(declines')
  BY Zenon, <1>1, <1>2, FiniteSubset
<1>9. now' \in 0..MaxTime
  BY <1>1, VotesAssumption
<1> QED
  BY Zenon, <1>7, <1>8, <1>9 DEF VotesInv

LEMMA BlockWithdrawingSound ==
    ASSUME VotesInv, NEW from \in Account, NEW to \in Account, NEW n \in Amounts, NEW d \in Amounts \cup {0},
           BlockWithdrawing(from, to, n, d)
    PROVE  VotesInv'
<1> DEFINE s == State
           y == s.vesting[to] + d
           e == DepositPut(s, to, y)
           t == AdjustProxied(e, to, Single(d))
           z == t.vesting[from] - n
           m == t.total - (n - d)
           f == EndowPut(t, from, z, m)
           r == AdjustProxied(f, from, Single(-n))
<1>1. Good(s) /\ s.total = SumOver(s.vesting, Account) /\ s \in Books
  BY Zenon DEF VotesInv, Sound, Good
<1>2. n \in Nat /\ d \in Nat /\ s.vesting \in [Account -> Nat] /\ s.total \in Int
  BY <1>1, BooksFacts, VotesAssumption
<1>3. EndOfBlock(r) /\ now < MaxTime /\ now' = now + 1
  BY Zenon DEF BlockWithdrawing, Deposit, Take, DepositPut, EndowPut
<1>4. n <= s.vesting[from] /\ d <= n
  BY Zenon, StateFields DEF BlockWithdrawing
<1> HIDE DEF s
<1>5. y \in Nat /\ d \in Int /\ Richer(y, s, to, d)
  BY <1>2 DEF Richer
<1> HIDE DEF y
<1>6. Endowed(e, s, to, d) /\ e.total = s.total
  BY Zenon, <1>1, <1>5, EndowFields
<1> HIDE DEF e
<1>7. /\ Good(t) /\ t.total = e.total /\ t.vesting = e.vesting
      /\ SumOver(e.vesting, Account) = SumOver(s.vesting, Account) + d
  BY SMT, <1>1, <1>5, <1>6, EndowedGood
<1> HIDE DEF t
<1>8. t \in Books
  BY Zenon, <1>7 DEF Good
<1>9. t.vesting = [s.vesting EXCEPT ![to] = @ + d] /\ t.total = s.total
  BY Zenon, <1>6, <1>7 DEF Endowed
<1>10. t.vesting[from] \in Nat /\ t.vesting[from] >= s.vesting[from] /\ t.total \in Int
  BY <1>2, <1>9
<1>11. z \in Nat /\ m \in Int /\ -n \in Int /\ Richer(z, t, from, -n)
  BY <1>2, <1>4, <1>10 DEF Richer
<1> HIDE DEF z, m
<1>12. Endowed(f, t, from, -n) /\ Totals(f, m)
  BY Zenon, <1>8, <1>11, EndowFields
<1> HIDE DEF f
<1>13. /\ Good(r) /\ r.total = f.total /\ r.vesting = f.vesting
       /\ SumOver(f.vesting, Account) = SumOver(t.vesting, Account) + (-n)
  BY SMT, <1>7, <1>11, <1>12, EndowedGood
<1> HIDE DEF r
<1>14. r.total = SumOver(r.vesting, Account)
  <2>1. r.total = m /\ SumOver(r.vesting, Account) = SumOver(t.vesting, Account) + (-n)
    BY Zenon, <1>12, <1>13 DEF Totals
  <2>2. SumOver(t.vesting, Account) = s.total + d /\ t.total = s.total
    BY Zenon, <1>1, <1>6, <1>7
  <2> QED
    BY <1>2, <2>1, <2>2 DEF m
<1>15. Sound(r)
  BY Zenon, <1>13, <1>14 DEF Sound
<1> QED
  BY Zenon, <1>3, <1>15, EndOfBlockSound

LEMMA VotesNext ==
    ASSUME StaleProxy = {"kept"}
    PROVE  VotesInv /\ [Next]_vars => VotesInv'
<1> SUFFICES ASSUME VotesInv, [Next]_vars PROVE VotesInv'
  BY Zenon
<1>1. CASE UNCHANGED vars
  <2>1. State' = State /\ now' = now /\ declines' = declines
    BY Zenon, <1>1 DEF vars, State
  <2> QED
    BY Zenon, <2>1 DEF VotesInv
<1>2. ASSUME NEW a \in Account, NEW n \in Amounts, CreateVesting(a, n) PROVE VotesInv'
  BY Zenon, <1>2, CreateVestingSound
<1>3. ASSUME NEW a \in Account, NEW w \in Witness, NEW approve \in BOOLEAN, AccountWitnessVote(a, w, approve)
      PROVE  VotesInv'
  BY Zenon, <1>3, AccountWitnessVoteSound
<1>4. ASSUME NEW a \in Account, NEW p \in Account \cup {Self}, AccountWitnessProxy(a, p) PROVE VotesInv'
  BY Zenon, <1>4, AccountWitnessProxySound
<1>5. ASSUME NEW a \in Account, NEW decline \in BOOLEAN, DeclineVotingRights(a, decline) PROVE VotesInv'
  BY Zenon, <1>5, DeclineVotingRightsSound
<1>6. CASE Block
  <2>1. now < MaxTime /\ now' = now + 1 /\ EndOfBlock(State)
    BY Zenon, <1>6 DEF Block
  <2>2. Sound(State)
    BY Zenon DEF VotesInv
  <2> QED
    BY Zenon, <2>1, <2>2, EndOfBlockSound
<1>7. ASSUME NEW from \in Account, NEW to \in Account, NEW n \in Amounts, NEW d \in Amounts \cup {0},
             BlockWithdrawing(from, to, n, d)
      PROVE  VotesInv'
  BY Zenon, <1>7, BlockWithdrawingSound
<1> QED
  BY Zenon, <1>1, <1>2, <1>3, <1>4, <1>5, <1>6, <1>7 DEF Next

LEMMA VotesInductive ==
    ASSUME StaleProxy = {"kept"}
    PROVE  Spec => []VotesInv
  BY VotesStart, VotesNext, PTL DEF Spec

-----------------------------------------------------------------------------
(***************************************************************************)
(* What the invariant says, where the copy that the walk looks at still     *)
(* reads as the account it was made of (StaleProxy).                        *)
(***************************************************************************)
LEMMA InvGood == VotesInv => /\ Good(State) /\ State \in Books /\ Forest(proxy) /\ Matches(State)
                             /\ Tallied(State) /\ Polled(State) /\ proxy \in Proxies
                             /\ total = SumOver(vesting, Account)
<1> SUFFICES ASSUME VotesInv
             PROVE  /\ Good(State) /\ State \in Books /\ Forest(proxy) /\ Matches(State)
                    /\ Tallied(State) /\ Polled(State) /\ proxy \in Proxies
                    /\ total = SumOver(vesting, Account)
  BY Zenon
<1>1. /\ Good(State) /\ State \in Books /\ Forest(State.proxy) /\ Matches(State)
      /\ Tallied(State) /\ Polled(State) /\ State.total = SumOver(State.vesting, Account)
  BY Zenon DEF VotesInv, Sound, Good
<1>2. State.proxy \in Proxies
  BY Zenon, <1>1, BooksFacts
<1> QED
  BY Zenon, <1>1, <1>2, StateFields

\* account_witness_proxy never lets proxies close a loop, whatever the number of
\* accounts and the order in which they chose.
THEOREM NeverLoops ==
    ASSUME StaleProxy = {"kept"}
    PROVE  Spec => []NoProxyLoop
<1>1. VotesInv => NoProxyLoop
  <2> SUFFICES ASSUME VotesInv, NEW a \in Account, NEW d \in 1..Cardinality(Account)
               PROVE  Climb(proxy, a, Cardinality(Account))[d] # a
    BY Zenon DEF NoProxyLoop
  <2>1. Cardinality(Account) \in Nat
    BY Zenon, AccountFacts, CardinalityNat
  <2>2. proxy \in Proxies /\ Forest(proxy)
    BY Zenon, InvGood
  <2>3. Chain(Climb(proxy, a, Cardinality(Account)), proxy, a, Cardinality(Account))
    BY Zenon, <2>1, <2>2, Climbs
  <2> QED
    BY Zenon, <2>1, <2>2, <2>3, NoReturn
<1> QED
  BY <1>1, VotesInductive, PTL

\* proxied_vsf_votes counts, distance by distance, the shares of those below, for
\* chains of any shape and depth.
THEOREM ProxiedCounted ==
    ASSUME StaleProxy = {"kept"}
    PROVE  Spec => []ProxiedMatch
<1>1. VotesInv => ProxiedMatch
  <2> SUFFICES ASSUME VotesInv, NEW p \in Account, NEW k \in 0..MaxDepth - 1
               PROVE  proxied[p][k] = SumOver(vesting, {a \in Account : Up(proxy, a)[k + 1] = p})
    BY Zenon DEF ProxiedMatch
  <2>1. k \in Level
    BY Zenon DEF Level
  <2>2. State.proxied[p][k] = SumOver(State.vesting, Under(State.proxy, p, k + 1))
    BY Zenon, <2>1, InvGood DEF Matches
  <2> QED
    BY Zenon, <2>2, StateFields DEF Under
<1> QED
  BY <1>1, VotesInductive, PTL

\* The votes of every witness are the weights of those that approve it, who have no
\* proxy and have not declined to vote.
THEOREM VotesCounted ==
    ASSUME StaleProxy = {"kept"}
    PROVE  Spec => []VotesMatch
<1>1. VotesInv => VotesMatch
  <2> SUFFICES ASSUME VotesInv PROVE VotesMatch
    BY Zenon
  <2>1. State \in Books /\ Tallied(State) /\ Polled(State)
    BY Zenon, InvGood
  <2>2. approvals \subseteq Account \X Witness
    BY Zenon, <2>1, BooksFacts, StateFields
  <2>3. ASSUME NEW w \in Witness
        PROVE  votes[w] = SumOver([a \in Account |-> VoteWeight(State, a)],
                                  {a \in Account : <<a, w>> \in approvals})
    <3>1. State.votes[w] = SumOver(Weights(State), Voters(State, w))
      BY Zenon, <2>1 DEF Tallied
    <3> QED
      BY Zenon, <3>1, StateFields DEF Weights, Voters
  <2>4. ASSUME NEW v \in approvals
        PROVE  proxy[v[1]] = Self /\ canVote[v[1]]
    <3>1. v[1] \in Account /\ v[2] \in Witness /\ v = <<v[1], v[2]>>
      BY <2>2
    <3>2. <<v[1], v[2]>> \in State.approvals
      BY Zenon, <3>1, StateFields
    <3>3. State.proxy[v[1]] = Self /\ State.canVote[v[1]]
      BY Zenon, <2>1, <3>1, <3>2 DEF Polled, Unproxied, Entitled
    <3> QED
      BY Zenon, <3>3, StateFields
  <2>5. ASSUME NEW a \in Account
        PROVE  votedFor[a] = Cardinality({v \in approvals : v[1] = a})
    <3>1. State.votedFor[a] = Cardinality(Ballots(State, a))
      BY Zenon, <2>1 DEF Polled, BallotsCounted
    <3> QED
      BY Zenon, <3>1, StateFields DEF Ballots
  <2> QED
    BY Zenon, <2>3, <2>4, <2>5 DEF VotesMatch
<1> QED
  BY <1>1, VotesInductive, PTL

\* The shares of all accounts are the total, and every share reaches exactly one
\* account at the top or at the depth where proxies are no longer followed.
THEOREM SharesCounted ==
    ASSUME StaleProxy = {"kept"}
    PROVE  Spec => []SharesMatch
<1>1. VotesInv => SharesMatch
  <2> SUFFICES ASSUME VotesInv PROVE SharesMatch
    BY Zenon
  <2>1. SumOver(Yield(State), Account) = SumOver(State.vesting, Account)
    BY Zenon, InvGood, StateFields, YieldSum
  <2>2. Yield(State) = [a \in Account |-> IF proxy[a] = Self THEN VoteWeight(State, a)
                                            ELSE proxied[a][MaxDepth - 1]]
    BY Zenon, StateFields DEF Yield
  <2>3. total = SumOver(vesting, Account)
    BY Zenon, InvGood
  <2>4. total = SumOver(Yield(State), Account)
    BY Zenon, <2>1, <2>3, StateFields
  <2> QED
    BY Zenon, <2>2, <2>3, <2>4 DEF SharesMatch
<1> QED
  BY <1>1, VotesInductive, PTL

\* No witness has more votes than there are shares: between operations the assertion
\* of adjust_witness_vote holds.
THEOREM VotesBounded ==
    ASSUME StaleProxy = {"kept"}
    PROVE  Spec => []Asserted(State)
<1>1. VotesInv => Asserted(State)
  <2> SUFFICES ASSUME VotesInv, NEW w \in Witness PROVE State.votes[w] <= State.total
    BY Zenon DEF Asserted
  <2>1. State.votes[w] <= SumOver(State.vesting, Account)
    BY Zenon, InvGood, VotesBound
  <2>2. SumOver(State.vesting, Account) = State.total
    BY Zenon, InvGood, StateFields
  <2> QED
    BY Zenon, <2>1, <2>2
<1> QED
  BY <1>1, VotesInductive, PTL

\* Every variable keeps its type: no counter of votes goes negative, and no account
\* votes for more witnesses than it may.
THEOREM VotesTyped ==
    ASSUME StaleProxy = {"kept"}
    PROVE  Spec => []TypeOK
<1>1. VotesInv => TypeOK
  <2> SUFFICES ASSUME VotesInv PROVE TypeOK
    BY Zenon
  <2>1. Good(State) /\ State \in Books /\ Matches(State) /\ Polled(State) /\ proxy \in Proxies
    BY Zenon, InvGood
  <2>2. /\ vesting \in [Account -> Nat] /\ approvals \subseteq Account \X Witness
        /\ canVote \in [Account -> BOOLEAN] /\ votedFor \in [Account -> Nat]
        /\ votes \in [Witness -> Int] /\ proxied \in [Account -> [Level -> Int]]
    BY Zenon, <2>1, BooksFacts, StateFields
  <2>3. total \in Nat
    <3>1. NatOn(vesting, Account)
      BY Zenon, <2>2 DEF NatOn
    <3>2. SumOver(vesting, Account) \in Nat
      BY Zenon, <3>1, AccountFacts, SumNat
    <3> QED
      BY Zenon, <3>2, InvGood
  <2>4. votedFor \in [Account -> 0..MaxVotes]
    <3>1. \A x \in Account : State.votedFor[x] <= MaxVotes
      BY Zenon, <2>1 DEF Polled, Limited
    <3>2. \A x \in Account : votedFor[x] <= MaxVotes
      BY Zenon, <3>1, StateFields
    <3> QED
      BY <2>2, <3>2, VotesAssumption
  <2>5. votes \in [Witness -> Nat]
    <3>1. \A w \in Witness : State.votes[w] \in Nat
      BY Zenon, <2>1, VotesBound
    <3>2. \A w \in Witness : votes[w] \in Nat
      BY Zenon, <3>1, StateFields
    <3> QED
      BY Zenon, <2>2, <3>2
  <2>6. proxied \in [Account -> [0..MaxDepth - 1 -> Nat]]
    <3>1. \A p \in Account, k \in Level : State.proxied[p][k] \in Nat
      BY Zenon, <2>1, WeightsNat
    <3>2. \A p \in Account : \A k \in Level : proxied[p][k] \in Nat
      BY Zenon, <3>1, StateFields
    <3> QED
      BY Zenon, <2>2, <3>2 DEF Level
  <2>7. proxy \in [Account -> Account \cup {Self}]
    BY Zenon, <2>1 DEF Proxies, Seat
  <2>8. now \in 0..MaxTime /\ declines \subseteq [account : Account, date : 0..MaxTime + DeclineDelay]
    BY Zenon DEF VotesInv, Request
  <2> QED
    BY Zenon, <2>2, <2>3, <2>4, <2>5, <2>6, <2>7, <2>8 DEF TypeOK
<1> QED
  BY <1>1, VotesInductive, PTL
==============================================================================
