----------------------- MODULE IrreversibilityProofs -----------------------
(***************************************************************************)
(* What the last irreversible block promises, for every number of           *)
(* witnesses, every threshold and every sequence of blocks, rounds, fork    *)
(* switches and restarts: update_last_irreversible_block counts correctly,  *)
(* never goes back and does not jump over the transit block.                *)
(***************************************************************************)
EXTENDS Irreversibility, Induction

\* What the assumptions say of the numbers behind them.
LEMMA Constants ==
    /\ Hundred \in Nat /\ Hundred > 0
    /\ Threshold \in Nat /\ Threshold > 0 /\ Threshold <= Hundred
    /\ MaxWitnesses \in Nat /\ MaxWitnesses > 0
    /\ StartMinerVotingBlock \in Nat
BY ThresholdAssumption, ScheduleAssumption

\* A quotient is the largest number of divisors that fit.
LEMMA DivFact ==
    ASSUME NEW a \in Nat, NEW b \in Nat, b > 0
    PROVE  /\ a \div b \in Nat
           /\ (a \div b) * b <= a
OBVIOUS

(***************************************************************************)
(* The offset leaves at least the threshold of a schedule above it, and     *)
(* always more than one witness.                                            *)
(***************************************************************************)
LEMMA OffsetFact ==
    ASSUME NEW W \in Schedules
    PROVE  /\ Offset(W) \in Nat
           /\ (MaxWitnesses - Offset(W)) * Hundred >= Threshold * MaxWitnesses
           /\ Offset(W) < MaxWitnesses - 1
<1> DEFINE a == (Hundred - Threshold) * MaxWitnesses
           q == a \div Hundred
<1>1. Offset(W) = q
  BY Zenon DEF Offset, Schedules
<1>2. a \in Nat
  BY Constants
<1>3. q \in Nat /\ q * Hundred <= a
  BY Zenon, <1>2, DivFact, Constants
<1> HIDE DEF q
<1>4. q * Hundred <= Hundred * MaxWitnesses - Threshold * MaxWitnesses
  BY <1>3, Constants
<1>5. (MaxWitnesses - q) * Hundred >= Threshold * MaxWitnesses
  BY <1>4, <1>3, Constants
<1>6. q < MaxWitnesses - 1
  <2> SUFFICES ASSUME q >= MaxWitnesses - 1 PROVE FALSE
    BY <1>3, Constants
  <2>1. (MaxWitnesses - q) * Hundred <= Hundred
    BY <1>3, Constants
  <2> QED
    BY <2>1, <1>5, <1>3, Constants, QuorumAssumption
<1> QED
  BY Zenon, <1>1, <1>3, <1>5, <1>6

\* The witnesses of a schedule have confirmed less than v, or they have not.
LEMMA Split ==
    ASSUME NEW W \in Schedules, NEW c \in [Witness -> Nat], NEW v \in Nat
    PROVE  /\ IsFiniteSet(W) /\ Cardinality(W) = MaxWitnesses
           /\ IsFiniteSet(Below(W, c, v)) /\ Cardinality(Below(W, c, v)) \in Nat
           /\ Cardinality(AtLeast(W, c, v)) = MaxWitnesses - Cardinality(Below(W, c, v))
<1>1. IsFiniteSet(W) /\ Cardinality(W) = MaxWitnesses /\ W \subseteq Witness
  BY Zenon, FiniteSubset, WitnessAssumption DEF Schedules
<1>2. IsFiniteSet(Below(W, c, v)) /\ Cardinality(Below(W, c, v)) \in Nat
  BY Zenon, <1>1, FiniteSubset, CardinalityNat DEF Below
<1>3. AtLeast(W, c, v) = W \ Below(W, c, v) /\ Below(W, c, v) \subseteq W
  BY <1>1 DEF AtLeast, Below
<1> QED
  BY Zenon, <1>1, <1>2, <1>3, CardinalityMinus

(***************************************************************************)
(* nth_element finds an element: the least number that more than `offset'   *)
(* witnesses have not passed is one that a witness has confirmed.           *)
(***************************************************************************)
LEMMA NthFact ==
    ASSUME NEW W \in Schedules, NEW c \in [Witness -> Nat],
           NEW top \in Nat, \A w \in W : c[w] <= top
    PROVE  /\ NthConfirmed(W, c) \in {c[w] : w \in W}
           /\ NthConfirmed(W, c) \in Nat
           /\ IsNth(W, c, NthConfirmed(W, c))
<1> DEFINE T == {v \in Nat : Cardinality(Below(W, c, v + 1)) > Offset(W)}
<1>1. top \in T
  <2>1. W \subseteq Witness
    BY Zenon DEF Schedules
  <2>2. Below(W, c, top + 1) = W
    BY <2>1 DEF Below
  <2> QED
    BY <2>2, Split, OffsetFact, Constants
<1>2. PICK m \in T : \A k \in T : m <= k
  BY Zenon, <1>1, LeastNat
<1>3. Cardinality(Below(W, c, m)) <= Offset(W)
  <2>1. CASE m = 0
    <3>1. Below(W, c, m) = {}
      BY <2>1 DEF Below, Schedules
    <3>2. Cardinality(Below(W, c, m)) = 0
      BY Zenon, <3>1, CardinalityEmpty
    <3> QED
      BY <3>2, OffsetFact
  <2>2. CASE m # 0
    <3>1. m - 1 \in Nat /\ m - 1 \notin T /\ m - 1 + 1 = m
      BY <1>2, <2>2
    <3> QED
      BY <3>1, Split, OffsetFact, <1>2
  <2> QED
    BY Zenon, <2>1, <2>2
<1>4. \E w \in W : c[w] = m
  <2> SUFFICES ASSUME \A w \in W : c[w] # m PROVE FALSE
    BY Zenon
  <2>1. Below(W, c, m) = Below(W, c, m + 1)
    BY <1>2 DEF Below, Schedules
  <2> QED
    BY <2>1, <1>2, <1>3, Split, OffsetFact
<1>5. IsNth(W, c, m)
  BY Zenon, <1>2, <1>3 DEF IsNth
<1>6. NthConfirmed(W, c) \in {c[w] : w \in W} /\ IsNth(W, c, NthConfirmed(W, c))
  BY Zenon, <1>4, <1>5 DEF NthConfirmed
<1> QED
  BY Zenon, <1>6 DEF Schedules

-----------------------------------------------------------------------------
\* The last irreversible block while miners do not vote yet.
Early(n) == IF n > MaxWitnesses THEN n - MaxWitnesses ELSE 0

\* w has signed block n and nobody a later one.
Signed(c, n, w) == c[w] = n /\ \A x \in Witness : x # w => c[x] < n

\* The last irreversible block before block n.
Precedes(old, n) == old + 1 < n /\ (n - 1 < StartMinerVotingBlock => old = Early(n - 1))

\* What block n may do to it.
Raised(W, c, n, old, limit, transit, l) ==
    /\ l \in Nat /\ old <= l /\ l < n
    /\ n < StartMinerVotingBlock => l = Early(n)
    /\ transit > old /\ l >= transit => l = transit
    /\ n >= StartMinerVotingBlock => l <= old \/ l <= limit
    /\ l > old /\ n >= StartMinerVotingBlock
         => Cardinality(AtLeast(W, c, l)) * Hundred >= Threshold * MaxWitnesses

(***************************************************************************)
(* One call of update_last_irreversible_block, for the block n signed by w. *)
(* At least one witness of the schedule has confirmed less than n, so the   *)
(* head itself never becomes irreversible.                                  *)
(***************************************************************************)
LEMMA NewLibFact ==
    ASSUME NEW W \in Schedules, NEW c \in [Witness -> Nat], NEW n \in Nat, NEW w \in Witness,
           Signed(c, n, w),
           NEW old \in Nat, Precedes(old, n),
           NEW limit \in Nat, NEW transit \in Nat
    PROVE  Raised(W, c, n, old, limit, transit, NewLib(W, n, c, old, limit, transit))
<1> DEFINE l == NewLib(W, n, c, old, limit, transit)
<1> SUFFICES Raised(W, c, n, old, limit, transit, l)
  BY Zenon
<1> USE DEF Signed, Precedes
<1>1. CASE n < StartMinerVotingBlock
  <2>1. old = Early(n - 1)
    BY <1>1, Constants
  <2>2. l = IF n > MaxWitnesses THEN n - MaxWitnesses ELSE old
    BY Zenon, <1>1 DEF NewLib
  <2> QED
    BY <1>1, <2>1, <2>2, Constants DEF Early, Raised
<1>2. CASE n >= StartMinerVotingBlock
  <2> DEFINE v == NthConfirmed(W, c)
  <2>1. v \in Nat /\ v <= n /\ IsNth(W, c, v)
    <3>1. \A x \in W : c[x] <= n
      BY DEF Schedules
    <3>2. v \in {c[x] : x \in W} /\ v \in Nat /\ IsNth(W, c, v)
      BY Zenon, <3>1, NthFact
    <3> QED
      BY Zenon, <3>1, <3>2
  <2>2. v # n
    <3> SUFFICES ASSUME v = n PROVE FALSE
      BY Zenon
    <3>1. W \ {w} \subseteq Below(W, c, n)
      BY Zenon DEF Below, Schedules
    <3>2. Cardinality(W \ {w}) >= MaxWitnesses - 1 /\ Cardinality(W \ {w}) \in Nat
      <4>1. IsFiniteSet(W) /\ Cardinality(W) = MaxWitnesses
        BY Zenon, Split
      <4>2. Cardinality(W \ {w}) = IF w \in W THEN MaxWitnesses - 1 ELSE MaxWitnesses
        <5>1. CASE w \in W
          <6>1. Cardinality({w}) = 1
            BY FiniteEmpty, CardinalityEmpty, CardinalityAdd
          <6>2. Cardinality(W \ {w}) = Cardinality(W) - Cardinality({w})
            BY Zenon, <4>1, <5>1, CardinalityMinus
          <6> QED
            BY Zenon, <4>1, <5>1, <6>1, <6>2
        <5>2. CASE w \notin W
          <6>1. W \ {w} = W
            BY Zenon, <5>2
          <6> QED
            BY Zenon, <4>1, <5>2, <6>1
        <5> QED
          BY Zenon, <5>1, <5>2
      <4> QED
        BY <4>2, Constants
    <3>3. Cardinality(W \ {w}) <= Cardinality(Below(W, c, n))
      BY Zenon, <3>1, Split, CardinalityMinus
    <3>4. Cardinality(Below(W, c, n)) <= Offset(W)
      BY Zenon, <2>1 DEF IsNth
    <3> QED
      BY <3>2, <3>3, <3>4, Split, OffsetFact, Constants
  <2> HIDE DEF v, l
  <2>3. /\ l = IF Lesser(v, limit) <= old THEN old
               ELSE IF transit > old /\ transit <= Lesser(v, limit) THEN transit
               ELSE Lesser(v, limit)
        /\ Lesser(v, limit) \in Nat /\ Lesser(v, limit) <= v /\ Lesser(v, limit) <= limit
    BY <1>2, <2>1, Constants DEF NewLib, Lesser, v, l
  <2>4. l \in Nat /\ old <= l /\ l < n /\ (l > old => l <= v)
    BY <2>1, <2>2, <2>3
  <2>5. (transit > old /\ l >= transit => l = transit) /\ (l <= old \/ l <= limit)
    BY <2>1, <2>3
  <2>6. ASSUME l <= v
        PROVE  Cardinality(AtLeast(W, c, l)) * Hundred >= Threshold * MaxWitnesses
    <3>1. Cardinality(Below(W, c, v)) <= Offset(W)
      BY Zenon, <2>1 DEF IsNth
    <3>2. Below(W, c, l) \subseteq Below(W, c, v)
      BY <2>1, <2>4, <2>6 DEF Below, Schedules
    <3>3. Cardinality(Below(W, c, l)) <= Cardinality(Below(W, c, v))
      BY Zenon, <3>2, <2>1, Split, CardinalityMinus
    <3>4. /\ Cardinality(AtLeast(W, c, l)) = MaxWitnesses - Cardinality(Below(W, c, l))
          /\ Cardinality(Below(W, c, l)) \in Nat /\ Cardinality(Below(W, c, v)) \in Nat
      BY Zenon, <2>1, <2>4, Split
    <3>5. Cardinality(AtLeast(W, c, l)) >= MaxWitnesses - Offset(W)
      BY <3>1, <3>3, <3>4, OffsetFact, Constants
    <3>6. Cardinality(AtLeast(W, c, l)) * Hundred >= (MaxWitnesses - Offset(W)) * Hundred
      <4> DEFINE a == Cardinality(AtLeast(W, c, l))
                 b == MaxWitnesses - Offset(W)
      <4>1. a \in Int /\ b \in Int /\ a >= b
        BY <3>4, <3>5, OffsetFact, Constants
      <4> HIDE DEF a, b
      <4>2. a * Hundred >= b * Hundred
        BY <4>1, Constants
      <4> QED
        BY Zenon, <4>2 DEF a, b
    <3> DEFINE A == Cardinality(AtLeast(W, c, l)) * Hundred
               B == (MaxWitnesses - Offset(W)) * Hundred
               C == Threshold * MaxWitnesses
    <3>7. A \in Int /\ B \in Int /\ C \in Int /\ A >= B /\ B >= C
      BY <3>4, <3>6, OffsetFact, Constants
    <3> HIDE DEF A, B, C
    <3>8. A >= C
      BY <3>7
    <3> QED
      BY Zenon, <3>8 DEF A, C
  <2>7. l > old => Cardinality(AtLeast(W, c, l)) * Hundred >= Threshold * MaxWitnesses
    BY Zenon, <2>4, <2>6
  <2> QED
    BY <1>2, <2>4, <2>5, <2>7, Constants DEF Raised
<1> QED
  BY <1>1, <1>2, Constants

-----------------------------------------------------------------------------
(***************************************************************************)
(* What holds at every block n of a chain c.  The number of the block       *)
(* bounds what witnesses have confirmed; a block that raised the last       *)
(* irreversible block did so by the threshold of its schedule; and an       *)
(* irreversible transit block was the last irreversible block once.         *)
(***************************************************************************)
Bounded(c, n) ==
    /\ \A w \in Witness : c[n].confirmed[w] <= n
    /\ c[n].lib < n
    /\ c[n].transit > 0
    /\ n < StartMinerVotingBlock => c[n].lib = Early(n)

Rises(c, n) == \A m \in 1..n : c[m].lib <= c[n].lib

Backed(c, n) ==
    n > 1 /\ n >= StartMinerVotingBlock /\ c[n].lib > c[n - 1].lib
      => Cardinality(AtLeast(c[n - 1].schedule, c[n].confirmed, c[n].lib)) * Hundred
           >= Threshold * MaxWitnesses

Noticed(c, n) ==
    TransitEnabled(c[n]) /\ c[n].lib >= c[n].transit
      => \E m \in 1..n : c[m].lib = c[n].transit /\ TransitEnabled(c[m])

\* The transit block is the one that enabled the transit, and stays it.
Enabled(c, n) ==
    /\ TransitEnabled(c[n]) => c[n].transit \in 1..n /\ c[c[n].transit].transit = c[n].transit
    /\ \A m \in 1..n : TransitEnabled(c[m]) => c[n].transit = c[m].transit

BlockSound(c, n) == Bounded(c, n) /\ Rises(c, n) /\ Backed(c, n) /\ Noticed(c, n) /\ Enabled(c, n)

Sound(c) == c \in Seq(ChainState) /\ \A n \in 1..Len(c) : BlockSound(c, n)

\* Only the blocks up to n matter for it.
LEMMA SoundUpTo ==
    ASSUME NEW c, NEW d, NEW n \in Nat, n > 0, \A m \in 1..n : d[m] = c[m], BlockSound(c, n)
    PROVE  BlockSound(d, n)
<1>1. d[n] = c[n] /\ (n > 1 => d[n - 1] = c[n - 1])
  OBVIOUS
<1>2. Bounded(d, n)
  BY Zenon, <1>1 DEF Bounded, BlockSound
<1>3. Rises(d, n)
  BY Zenon, <1>1 DEF Rises, BlockSound
<1>4. Backed(d, n)
  BY Zenon, <1>1 DEF Backed, BlockSound
<1>5. Noticed(d, n)
  BY Zenon, <1>1 DEF Noticed, BlockSound
<1>6. Enabled(d, n)
  BY Zenon, <1>1 DEF Enabled, BlockSound
<1> QED
  BY Zenon, <1>2, <1>3, <1>4, <1>5, <1>6 DEF BlockSound

\* Undoing blocks leaves a sound chain.
LEMMA PrefixSound ==
    ASSUME NEW c, Sound(c), NEW k \in 1..Len(c)
    PROVE  /\ Sound(SubSeq(c, 1, k))
           /\ Len(SubSeq(c, 1, k)) = k
<1> DEFINE d == SubSeq(c, 1, k)
<1>1. c \in Seq(ChainState) /\ Len(c) \in Nat
  BY DEF Sound
<1>2. d \in Seq(ChainState) /\ Len(d) = k /\ \A n \in 1..k : d[n] = c[n]
  BY <1>1
<1> HIDE DEF d
<1>3. ASSUME NEW n \in 1..k PROVE BlockSound(d, n)
  <2>1. n \in Nat /\ n > 0 /\ BlockSound(c, n) /\ \A m \in 1..n : d[m] = c[m]
    BY <1>1, <1>2 DEF Sound
  <2> QED
    BY Zenon, <2>1, SoundUpTo
<1>4. Sound(d) /\ Len(d) = k
  BY Zenon, <1>2, <1>3 DEF Sound
<1> QED
  BY Zenon, <1>4 DEF d

\* The state that ApplyBlock appends.
After(s, n, w, V, r, limit) ==
    [confirmed |-> [s.confirmed EXCEPT ![w] = n], schedule |-> r.all, top |-> r.top, votes |-> V,
     transit |-> NewTransit(s, n, r.top, V),
     lib |-> NewLib(s.schedule, n, [s.confirmed EXCEPT ![w] = n], s.lib, limit, TransitLimit(s))]

\* How the state t after block n follows from the state s before it.
Follows(s, n, limit, t) ==
    /\ t.lib \in Nat /\ t.lib < n /\ t.lib < NoLimit
    /\ n >= StartMinerVotingBlock => t.lib <= s.lib \/ t.lib <= limit
    /\ IF TransitEnabled(s) THEN t.transit = s.transit ELSE TransitEnabled(t) => t.transit = n
    /\ TransitEnabled(s) /\ s.transit > s.lib /\ t.lib >= s.transit => t.lib = s.transit

(***************************************************************************)
(* A block keeps a chain sound, whichever witness signs it, whatever the    *)
(* votes and the next round are and wherever the fixed limit stands.        *)
(***************************************************************************)
LEMMA ExtendSound ==
    ASSUME NEW c, Sound(c), Len(c) > 0, Len(c) < MaxBlockNum,
           NEW w \in c[Len(c)].schedule,
           NEW V \in NewVotes(c[Len(c)]),
           NEW r \in NewRounds(c[Len(c)], Len(c) + 1),
           NEW limit \in Nat,
           NEW t, t = After(c[Len(c)], Len(c) + 1, w, V, r, limit)
    PROVE  Sound(Append(c, t)) /\ Follows(c[Len(c)], Len(c) + 1, limit, t)
<1> DEFINE k == Len(c)
           s == c[k]
           n == k + 1
           d == Append(c, t)
<1>1. k \in Nat /\ k \in 1..Len(c) /\ s \in ChainState /\ c \in Seq(ChainState)
  BY DEF Sound
<1>2. Bounded(c, k) /\ Rises(c, k) /\ Noticed(c, k) /\ Enabled(c, k)
  BY Zenon, <1>1 DEF Sound, BlockSound
<1>3. /\ s.confirmed \in [Witness -> Nat] /\ s.schedule \in Schedules
      /\ s.top \in SUBSET Witness /\ s.votes \in SUBSET Witness
      /\ s.transit \in Nat /\ s.lib \in Nat
  BY Zenon, <1>1 DEF ChainState
<1>4. w \in Witness
  BY Zenon, <1>3 DEF Schedules
<1>5. V \in SUBSET Witness
  BY Zenon, <1>3, ScheduleAssumption DEF NewVotes, Voted
<1>6. r.all \in Schedules /\ r.top \in SUBSET Witness
  BY <1>3 DEF NewRounds, Rounds
<1> DEFINE f == [s.confirmed EXCEPT ![w] = n]
           l == NewLib(s.schedule, n, f, s.lib, limit, TransitLimit(s))
<1>7. /\ t.confirmed = f /\ t.schedule = r.all /\ t.top = r.top /\ t.votes = V
      /\ t.transit = NewTransit(s, n, r.top, V) /\ t.lib = l
  BY Zenon DEF After
<1>8. /\ f \in [Witness -> Nat] /\ f[w] = n
      /\ \A x \in Witness : x # w => f[x] < n
  BY SMTT(60), <1>1, <1>2, <1>3, <1>4 DEF Bounded
<1>9. TransitLimit(s) \in Nat
  BY Zenon, <1>3 DEF TransitLimit
<1> HIDE DEF f
<1>10. /\ l \in Nat /\ s.lib <= l /\ l < n
       /\ n < StartMinerVotingBlock => l = Early(n)
       /\ TransitLimit(s) > s.lib /\ l >= TransitLimit(s) => l = TransitLimit(s)
       /\ n >= StartMinerVotingBlock => l <= s.lib \/ l <= limit
       /\ l > s.lib /\ n >= StartMinerVotingBlock
            => Cardinality(AtLeast(s.schedule, f, l)) * Hundred >= Threshold * MaxWitnesses
  <2>1. n \in Nat /\ Precedes(s.lib, n)
    BY SMTT(60), <1>1, <1>2, <1>3 DEF Bounded, Precedes
  <2>2. Signed(f, n, w)
    BY Zenon, <1>8 DEF Signed
  <2>3. Raised(s.schedule, f, n, s.lib, limit, TransitLimit(s), l)
    BY Zenon, <2>1, <2>2, <1>3, <1>4, <1>8, <1>9, NewLibFact
  <2> QED
    BY Zenon, <2>3 DEF Raised
<1> HIDE DEF l
<1>11. /\ t.transit \in Nat /\ t.transit > 0
       /\ TransitEnabled(s) => t.transit = s.transit
       /\ TransitEnabled(t) /\ ~TransitEnabled(s) => t.transit = n
  <2>1. n \in Nat /\ n > 0 /\ s.transit \in Nat /\ s.transit > 0
    BY SMTT(60), <1>1, <1>2, <1>3 DEF Bounded
  <2>2. t.transit = IF ~TransitEnabled(s) /\ Cardinality(r.top \cap V) >= Required THEN n ELSE s.transit
    BY Zenon, <1>7 DEF NewTransit
  <2>3. t.transit \in Nat /\ t.transit > 0
    BY Zenon, <2>1, <2>2
  <2> HIDE DEF n, s
  <2> QED
    BY Zenon, <2>2, <2>3 DEF TransitEnabled
<1>12. t \in ChainState
  <2>1. t = [confirmed |-> f, schedule |-> r.all, top |-> r.top, votes |-> V,
             transit |-> t.transit, lib |-> l]
    BY Zenon, <1>7 DEF After, f, l
  <2> QED
    BY SMTT(60), <2>1, <1>5, <1>6, <1>8, <1>10, <1>11 DEF ChainState
<1>13. /\ d \in Seq(ChainState) /\ Len(d) = n /\ d[n] = t
       /\ \A m \in 1..k : d[m] = c[m]
  BY SMTT(60), <1>1, <1>12
<1> HIDE DEF d
<1>14. ASSUME NEW m \in 1..k PROVE BlockSound(d, m)
  <2>1. m \in Nat /\ m > 0 /\ BlockSound(c, m) /\ \A j \in 1..m : d[j] = c[j]
    BY <1>1, <1>13 DEF Sound
  <2> QED
    BY Zenon, <2>1, SoundUpTo
<1>15. Bounded(d, n)
  <2>1. \A x \in Witness : t.confirmed[x] <= n
    BY <1>1, <1>7, <1>8
  <2>2. t.lib < n /\ t.transit > 0 /\ (n < StartMinerVotingBlock => t.lib = Early(n))
    BY Zenon, <1>7, <1>10, <1>11
  <2> QED
    BY Zenon, <2>1, <2>2, <1>13 DEF Bounded
<1>16. Rises(d, n)
  <2> SUFFICES ASSUME NEW m \in 1..n PROVE d[m].lib <= d[n].lib
    BY Zenon DEF Rises
  <2>1. CASE m = n
    BY SMTT(60), <2>1, <1>7, <1>10, <1>13
  <2>2. CASE m # n
    <3>1. m \in 1..k /\ c[m] \in ChainState
      BY <2>2, <1>1
    <3>2. c[m].lib \in Nat
      BY Zenon, <3>1 DEF ChainState
    <3> QED
      <4>1. c[m].lib <= s.lib /\ d[m] = c[m]
        BY Zenon, <3>1, <1>2, <1>13 DEF Rises
      <4>2. d[n].lib \in Nat /\ s.lib <= d[n].lib
        BY Zenon, <1>7, <1>10, <1>13
      <4> QED
        BY SMTT(60), <3>2, <4>1, <4>2, <1>3
  <2> QED
    BY Zenon, <2>1, <2>2
<1>17. Backed(d, n)
  <2>1. n - 1 = k /\ d[n - 1] = s
    BY <1>1, <1>13
  <2> QED
    BY Zenon, <2>1, <1>7, <1>10, <1>13 DEF Backed
<1>18. Noticed(d, n)
  <2> SUFFICES ASSUME TransitEnabled(t), l >= t.transit
               PROVE  \E m \in 1..n : d[m].lib = t.transit /\ TransitEnabled(d[m])
    BY Zenon, <1>7, <1>13 DEF Noticed
  <2>1. TransitEnabled(s) /\ t.transit = s.transit /\ TransitLimit(s) = s.transit
    BY SMTT(60), <1>10, <1>11, <1>1 DEF TransitLimit
  <2>2. CASE s.lib >= s.transit
    <3>1. PICK m \in 1..k : c[m].lib = s.transit /\ TransitEnabled(c[m])
      BY Zenon, <2>1, <2>2, <1>2 DEF Noticed
    <3> QED
      BY SMTT(60), <3>1, <2>1, <1>13, <1>1
  <2>3. CASE s.lib < s.transit
    <3>1. l = s.transit
      BY Zenon, <2>1, <2>3, <1>3, <1>10
    <3>2. n \in 1..n /\ d[n] = t /\ t.lib = l
      BY <1>1, <1>7, <1>13
    <3> QED
      BY Zenon, <2>1, <3>1, <3>2
  <2> QED
    BY SMTT(60), <2>2, <2>3, <1>3
<1>19. Enabled(d, n)
  <2>1. CASE TransitEnabled(s)
    <3>1. t.transit = s.transit /\ s.transit \in 1..k /\ c[s.transit].transit = s.transit
      BY Zenon, <2>1, <1>2, <1>11 DEF Enabled
    <3>2. d[s.transit] = c[s.transit] /\ d[n].transit = s.transit
      BY Zenon, <3>1, <1>13
    <3>3. ASSUME NEW m \in 1..n, TransitEnabled(d[m]) PROVE d[n].transit = d[m].transit
      <4>1. CASE m = n
        BY Zenon, <4>1
      <4>2. CASE m # n
        <5>1. m \in 1..k /\ d[m] = c[m]
          BY SMTT(60), <4>2, <1>1, <1>13
        <5> QED
          BY Zenon, <5>1, <3>2, <3>3, <1>2 DEF Enabled
      <4> QED
        BY Zenon, <4>1, <4>2
    <3> QED
      BY SMTT(60), <3>1, <3>2, <3>3, <1>1 DEF Enabled
  <2>2. CASE ~TransitEnabled(s)
    <3>1. \A m \in 1..k : ~TransitEnabled(d[m])
      BY Zenon, <2>2, <1>2, <1>13 DEF Enabled, TransitEnabled
    <3>2. TransitEnabled(d[n]) => d[n].transit = n
      BY Zenon, <2>2, <1>11, <1>13
    <3> QED
      BY SMTT(60), <3>1, <3>2, <1>1, <1>13 DEF Enabled
  <2> QED
    BY Zenon, <2>1, <2>2
<1>20. Sound(d)
  <2>1. \A m \in 1..n : m \in 1..k \/ m = n
    BY <1>1
  <2> QED
    BY Zenon, <2>1, <1>13, <1>14, <1>15, <1>16, <1>17, <1>18, <1>19 DEF Sound, BlockSound
<1>21. l < NoLimit
  BY SMTT(60), <1>1, <1>10, ScheduleAssumption
<1>22. Follows(s, n, limit, t)
  BY Zenon, <1>7, <1>10, <1>11, <1>21 DEF Follows, TransitLimit
<1> QED
  BY Zenon, <1>20, <1>22 DEF d
-----------------------------------------------------------------------------
(***************************************************************************)
(* The invariant behind LibRises, IrreversibleIsConfirmed and               *)
(* TransitNotSkipped: the chain is sound, and what is committed is on it.   *)
(***************************************************************************)
LibInv ==
    /\ Sound(chain) /\ Len(chain) > 0
    /\ committed \in Nat /\ committed <= Len(chain)
    /\ fixed \in Nat
    /\ timer \in BOOLEAN /\ (timer => committed > 0)

\* The chain before its first block is sound.
LEMMA LibInit == Init => LibInv
<1> SUFFICES ASSUME Init PROVE LibInv
  BY Zenon
<1>1. PICK r \in Rounds : \E w \in r.all :
        chain = << [confirmed |-> [x \in Witness |-> IF x = w THEN 1 ELSE 0],
                    schedule |-> r.all, top |-> r.top, votes |-> {},
                    transit |-> NoLimit, lib |-> 0] >>
  BY Zenon DEF Init
<1>2. r.all \in Schedules /\ r.top \in SUBSET Witness
  BY Zenon DEF Rounds
<1>3. NoLimit \in Nat /\ NoLimit > 0
  BY ScheduleAssumption
<1>4. chain \in Seq(ChainState) /\ Len(chain) = 1
  BY <1>1, <1>2, <1>3 DEF ChainState
<1>5. /\ chain[1].lib = 0 /\ chain[1].transit = NoLimit
      /\ \A x \in Witness : chain[1].confirmed[x] <= 1
  BY SMTT(60), <1>1
<1>6. Bounded(chain, 1)
  BY <1>3, <1>5, Constants DEF Bounded, Early
<1>7. Rises(chain, 1) /\ Backed(chain, 1) /\ Noticed(chain, 1) /\ Enabled(chain, 1)
  BY <1>5 DEF Rises, Backed, Noticed, Enabled, TransitEnabled
<1>8. Sound(chain)
  BY <1>4, <1>6, <1>7 DEF Sound, BlockSound
<1>9. timer \in BOOLEAN /\ ~timer
  BY Zenon DEF Init
<1>10. committed \in Nat /\ committed <= Len(chain) /\ Len(chain) > 0 /\ fixed \in Nat
  BY <1>3, <1>4 DEF Init
<1> QED
  BY Zenon, <1>8, <1>9, <1>10 DEF LibInv

\* ApplyBlock in terms of the state it appends.
LEMMA ApplyFact ==
    ASSUME LibInv, NEW w \in State.schedule, NEW V \in NewVotes(State),
           NEW r \in NewRounds(State, headNum + 1), ApplyBlock(w, V, r)
    PROVE  \E t : /\ chain' = Append(chain, t) /\ Sound(chain')
                  /\ Follows(State, headNum + 1, fixed, t)
                  /\ committed' = IF t.lib > committed THEN t.lib ELSE committed
                  /\ LET starts == t.transit = t.lib /\ SerializeState /\ fixed = NoLimit
                     IN  /\ fixed' = IF starts THEN t.lib ELSE fixed
                         /\ timer' = (starts \/ timer)
<1> DEFINE t == After(State, headNum + 1, w, V, r, fixed)
<1>1. Sound(Append(chain, t)) /\ Follows(State, headNum + 1, fixed, t)
  <2>1. Len(chain) < MaxBlockNum /\ Sound(chain) /\ Len(chain) > 0 /\ fixed \in Nat
    BY Zenon DEF LibInv, ApplyBlock, headNum
  <2> QED
    BY Zenon, <2>1, ExtendSound DEF State, headNum
<1>2. chain' = Append(chain, t)
  BY Zenon DEF ApplyBlock, After
<1>3. /\ committed' = IF t.lib > committed THEN t.lib ELSE committed
      /\ fixed' = IF t.transit = t.lib /\ SerializeState /\ fixed = NoLimit THEN t.lib ELSE fixed
      /\ timer' = ((t.transit = t.lib /\ SerializeState /\ fixed = NoLimit) \/ timer)
  BY Zenon DEF ApplyBlock, After
<1> HIDE DEF t
<1> QED
  BY Zenon, <1>1, <1>2, <1>3

\* Blocks, pops, fork switches, restarts and the transit keep it sound.
LEMMA LibNext == LibInv /\ [Next]_vars => LibInv'
<1> SUFFICES ASSUME LibInv, [Next]_vars PROVE LibInv'
  BY Zenon
<1>1. Len(chain) \in Nat /\ chain \in Seq(ChainState)
  BY DEF LibInv, Sound
<1>2. ASSUME NEW w \in State.schedule, NEW V \in NewVotes(State),
             NEW r \in NewRounds(State, headNum + 1), ApplyBlock(w, V, r)
      PROVE  LibInv'
  <2>1. PICK t : /\ chain' = Append(chain, t) /\ Sound(chain')
                 /\ Follows(State, headNum + 1, fixed, t)
                 /\ committed' = IF t.lib > committed THEN t.lib ELSE committed
                 /\ LET starts == t.transit = t.lib /\ SerializeState /\ fixed = NoLimit
                    IN  /\ fixed' = IF starts THEN t.lib ELSE fixed
                        /\ timer' = (starts \/ timer)
    BY Zenon, <1>2, ApplyFact
  <2>2. Len(chain') = Len(chain) + 1 /\ chain'[Len(chain) + 1] = t
    BY <1>1, <2>1
  <2>3. t.lib \in Nat /\ t.lib <= Len(chain)
    BY <1>1, <2>1 DEF Follows, headNum
  <2>4. committed' \in Nat /\ committed' <= Len(chain') /\ committed' >= committed /\ fixed' \in Nat
    BY <1>1, <2>1, <2>2, <2>3 DEF LibInv
  <2>5. timer' \in BOOLEAN
    BY Zenon, <2>1 DEF LibInv
  <2>6. timer' => committed' > 0
    <3>1. CASE timer
      BY <3>1, <2>4 DEF LibInv
    <3>2. CASE ~timer
      <4>1. timer' => t.transit = t.lib
        BY Zenon, <2>1, <3>2
      <4>2. t.transit > 0
        <5>1. BlockSound(chain', Len(chain) + 1)
          BY <1>1, <2>1, <2>2 DEF Sound
        <5> QED
          BY Zenon, <5>1, <2>2 DEF BlockSound, Bounded
      <4> QED
        BY <4>1, <4>2, <2>1, <2>3, <2>4 DEF LibInv
    <3> QED
      BY Zenon, <3>1, <3>2
  <2> QED
    BY <1>1, <2>1, <2>2, <2>4, <2>5, <2>6 DEF LibInv
<1>3. CASE PopBlock
  <2>1. headNum - 1 \in 1..Len(chain) /\ committed <= headNum - 1
    BY <1>1, <1>3 DEF PopBlock, headNum, LibInv
  <2>2. Sound(chain') /\ Len(chain') = headNum - 1
    BY Zenon, <1>3, <2>1, PrefixSound DEF PopBlock, LibInv
  <2> QED
    BY <1>3, <2>1, <2>2 DEF PopBlock, LibInv
<1>4. CASE Serialize
  <2>1. State.lib \in 1..Len(chain) /\ committed <= State.lib
    <3>1. State \in ChainState /\ BlockSound(chain, Len(chain))
      BY <1>1 DEF LibInv, Sound, State, headNum
    <3>2. State.lib \in Nat /\ State.lib < Len(chain)
      BY Zenon, <3>1 DEF ChainState, BlockSound, Bounded, State, headNum
    <3> QED
      BY <3>2, <1>1, <1>4 DEF Serialize, CanRevert, LibInv
  <2>2. Sound(chain') /\ Len(chain') = State.lib
    BY Zenon, <1>4, <2>1, PrefixSound DEF Serialize, LibInv
  <2>3. timer' \in BOOLEAN /\ ~timer'
    BY <1>4, Zenon DEF Serialize
  <2>4. committed' \in Nat /\ committed' <= Len(chain') /\ Len(chain') > 0 /\ fixed' \in Nat
    BY <1>4, <2>1, <2>2 DEF Serialize, LibInv
  <2> QED
    BY Zenon, <2>2, <2>3, <2>4 DEF LibInv
<1>5. CASE SerializeThrows
  <2>1. committed \in 1..Len(chain)
    BY <1>1, <1>5 DEF SerializeThrows, LibInv
  <2>2. Sound(chain') /\ Len(chain') = committed
    BY Zenon, <1>5, <2>1, PrefixSound DEF SerializeThrows, LibInv
  <2>3. timer' \in BOOLEAN /\ ~timer'
    BY <1>5, Zenon DEF SerializeThrows
  <2>4. committed' \in Nat /\ committed' <= Len(chain') /\ Len(chain') > 0 /\ fixed' \in Nat
    BY <1>5, <2>1, <2>2 DEF SerializeThrows, LibInv
  <2> QED
    BY Zenon, <2>2, <2>3, <2>4 DEF LibInv
<1>6. CASE Restart
  <2>1. committed \in 1..Len(chain)
    BY <1>1, <1>6 DEF Restart, LibInv
  <2>2. Sound(chain') /\ Len(chain') = committed
    BY Zenon, <1>6, <2>1, PrefixSound DEF Restart, LibInv
  <2>3. timer' \in BOOLEAN /\ ~timer'
    BY <1>6, Zenon DEF Restart
  <2>4. committed' \in Nat /\ committed' <= Len(chain') /\ Len(chain') > 0 /\ fixed' \in Nat
    BY <1>6, <2>1, <2>2, ScheduleAssumption DEF Restart, LibInv
  <2> QED
    BY Zenon, <2>2, <2>3, <2>4 DEF LibInv
<1>7. CASE UNCHANGED vars
  BY Zenon, <1>7 DEF vars, LibInv
<1> QED
  BY Zenon, <1>2, <1>3, <1>4, <1>5, <1>6, <1>7 DEF Next

(***************************************************************************)
(* The inductive invariant: every block of the chain was applied to a sound *)
(* state by update_last_irreversible_block, so that what one block leaves   *)
(* to the next (last irreversible block, confirmations, schedule) can be    *)
(* relied on after any pop.                                                 *)
(***************************************************************************)
THEOREM LibInvariant == Spec => []LibInv
<1> QED
  BY LibInit, LibNext, PTL DEF Spec

(***************************************************************************)
(* Along the chain the last irreversible block only rises and stays below   *)
(* the head, and nothing above the head is committed, for every number of   *)
(* witnesses and every threshold that needs more than one of them.          *)
(***************************************************************************)
THEOREM Rising == Spec => []LibRises
<1>1. LibInv => LibRises
  <2> SUFFICES ASSUME LibInv PROVE LibRises
    BY Zenon
  <2>1. \A n \in 1..headNum : Rises(chain, n) /\ Bounded(chain, n)
    BY Zenon DEF LibInv, Sound, BlockSound, headNum
  <2>2. headNum \in Nat
    BY DEF LibInv, Sound, headNum
  <2>3. \A m, n \in 1..headNum : m <= n => chain[m].lib <= chain[n].lib
    BY <2>1, <2>2 DEF Rises
  <2>4. \A n \in 1..headNum : chain[n].lib < n
    BY Zenon, <2>1 DEF Bounded
  <2> QED
    BY <2>3, <2>4 DEF LibRises, LibInv, headNum
<1> QED
  BY <1>1, LibInvariant, PTL

(***************************************************************************)
(* A block that is made irreversible by votes has been confirmed by at      *)
(* least the threshold of the witnesses scheduled then: nth_element at the  *)
(* offset of update_last_irreversible_block counts right, however the       *)
(* percentages divide.                                                      *)
(***************************************************************************)
THEOREM Confirmed == Spec => []IrreversibleIsConfirmed
<1>1. LibInv => IrreversibleIsConfirmed
  <2> SUFFICES ASSUME LibInv, NEW n \in 2..headNum,
                      chain[n].lib > chain[n - 1].lib, n >= StartMinerVotingBlock
               PROVE  Cardinality(AtLeast(chain[n - 1].schedule, chain[n].confirmed, chain[n].lib)) * Hundred
                        >= Threshold * MaxWitnesses
    BY Zenon DEF IrreversibleIsConfirmed
  <2>1. n \in 1..Len(chain) /\ n > 1
    BY DEF LibInv, Sound, headNum
  <2>2. Backed(chain, n)
    BY Zenon, <2>1 DEF LibInv, Sound, BlockSound
  <2> QED
    BY <2>1, <2>2 DEF Backed
<1> QED
  BY <1>1, LibInvariant, PTL

(***************************************************************************)
(* The last irreversible block is never raised past the transit block       *)
(* without having been it, so whoever waits for it is told.                 *)
(***************************************************************************)
THEOREM NotSkipped == Spec => []TransitNotSkipped
<1>1. LibInv => TransitNotSkipped
  <2> SUFFICES ASSUME LibInv PROVE TransitNotSkipped
    BY Zenon
  <2>1. Noticed(chain, headNum)
    BY DEF LibInv, Sound, BlockSound, headNum
  <2> QED
    BY <2>1 DEF Noticed, TransitNotSkipped, State
<1> QED
  BY <1>1, LibInvariant, PTL
-----------------------------------------------------------------------------
(***************************************************************************)
(* The operation that votes for the transit came with a hardfork, long      *)
(* after the block from which the last irreversible block depends on votes. *)
(***************************************************************************)
LateTransit ==
    \A n \in 1..Len(chain) : TransitEnabled(chain[n]) => n >= StartMinerVotingBlock

LibsCommitted == \A n \in 1..Len(chain) : chain[n].lib <= committed

\* The fixed limit is the transit block, which is committed.
LimitIsTransit == fixed # NoLimit => /\ fixed = committed /\ committed > 0
                                     /\ chain[committed].transit = committed

\* An irreversible transit block has fixed the limit.
LimitIsSet ==
    SerializeState /\ fixed = NoLimit
      => \A n \in 1..Len(chain) : TransitEnabled(chain[n]) => chain[n].lib < chain[n].transit

CommittedUpToTransit ==
    SerializeState /\ TransitEnabled(chain[Len(chain)]) => committed <= chain[Len(chain)].transit

EndsAtTransit == exited => ~timer /\ Len(chain) = chain[Len(chain)].transit

(***************************************************************************)
(* The invariant behind StopsAtTransit.  Nothing above the transit block is *)
(* committed because the block that makes it irreversible fixes the limit;  *)
(* once it is committed no switch and no restart can leave its branch.      *)
(***************************************************************************)
StopInv ==
    /\ LibInv
    /\ LibsCommitted /\ LimitIsTransit /\ LimitIsSet /\ CommittedUpToTransit
    /\ timer => fixed # NoLimit
    /\ EndsAtTransit

\* Nothing is committed and no limit is set at the start.
LEMMA StopInit == Init => StopInv
<1> SUFFICES ASSUME Init PROVE StopInv
  BY Zenon
<1>1. LibInv
  BY Zenon, LibInit
<1>2. Len(chain) = 1 /\ chain[1].lib = 0 /\ chain[1].transit = NoLimit
  BY DEF Init
<1>3. LibsCommitted /\ LimitIsTransit /\ LimitIsSet /\ CommittedUpToTransit
  BY <1>2 DEF Init, LibsCommitted, LimitIsTransit, LimitIsSet, CommittedUpToTransit, TransitEnabled
<1>4. ~timer /\ ~exited
  BY Zenon DEF Init
<1> QED
  BY Zenon, <1>1, <1>3, <1>4 DEF StopInv, EndsAtTransit

(***************************************************************************)
(* What undoing blocks down to a block k, not below the committed one, does *)
(* not disturb.                                                             *)
(***************************************************************************)
LEMMA PrefixStop ==
    ASSUME StopInv, NEW k \in 1..Len(chain), committed <= k,
           chain' = SubSeq(chain, 1, k), committed' = committed
    PROVE  /\ Len(chain') = k /\ \A n \in 1..k : chain'[n] = chain[n]
           /\ LibsCommitted' /\ CommittedUpToTransit'
           /\ fixed' = fixed => LimitIsTransit' /\ LimitIsSet'
<1>1. chain \in Seq(ChainState) /\ Len(chain) \in Nat /\ k \in Nat /\ committed \in Nat
  BY DEF StopInv, LibInv, Sound
<1>2. Len(chain') = k /\ \A n \in 1..k : chain'[n] = chain[n] /\ n \in 1..Len(chain)
  BY <1>1
<1>3. LibsCommitted'
  BY Zenon, <1>2 DEF StopInv, LibsCommitted
<1>4. CommittedUpToTransit'
  <2>1. TransitEnabled(chain[k]) => chain[Len(chain)].transit = chain[k].transit
    <3>1. Enabled(chain, Len(chain))
      BY <1>1 DEF StopInv, LibInv, Sound, BlockSound
    <3> QED
      BY Zenon, <3>1 DEF Enabled
  <2>2. k \in 1..k
    BY <1>1
  <2> QED
    BY Zenon, <1>2, <2>1, <2>2 DEF StopInv, CommittedUpToTransit, TransitEnabled
<1>5. ASSUME fixed' = fixed PROVE LimitIsTransit'
  <2>1. committed > 0 => committed \in 1..k
    BY <1>1
  <2> QED
    BY Zenon, <1>2, <1>5, <2>1 DEF StopInv, LimitIsTransit
<1>6. ASSUME fixed' = fixed PROVE LimitIsSet'
  BY Zenon, <1>2, <1>6 DEF StopInv, LimitIsSet
<1> QED
  BY Zenon, <1>2, <1>3, <1>4, <1>5, <1>6

\* A block commits nothing above a transit block that is already irreversible.
LEMMA StopApply ==
    ASSUME StopInv, LateTransit, NEW w \in State.schedule, NEW V \in NewVotes(State),
           NEW r \in NewRounds(State, headNum + 1), ApplyBlock(w, V, r), LibInv'
    PROVE  StopInv'
<1> DEFINE k == Len(chain)
           s == chain[k]
<1>1. /\ k \in Nat /\ k > 0 /\ chain \in Seq(ChainState) /\ BlockSound(chain, k)
      /\ committed \in Nat /\ committed <= k /\ fixed \in Nat /\ s.lib \in Nat /\ s.transit \in Nat
  <2>1. k \in Nat /\ k > 0 /\ chain \in Seq(ChainState) /\ BlockSound(chain, k) /\ s \in ChainState
    BY DEF StopInv, LibInv, Sound
  <2> QED
    BY Zenon, <2>1 DEF StopInv, LibInv, ChainState
<1>2. PICK t : /\ chain' = Append(chain, t) /\ Sound(chain')
               /\ Follows(s, k + 1, fixed, t)
               /\ committed' = IF t.lib > committed THEN t.lib ELSE committed
               /\ LET starts == t.transit = t.lib /\ SerializeState /\ fixed = NoLimit
                  IN  /\ fixed' = IF starts THEN t.lib ELSE fixed
                      /\ timer' = (starts \/ timer)
  <2>1. LibInv /\ State = s /\ headNum = k
    BY Zenon DEF StopInv, State, headNum
  <2> QED
    BY Zenon, <2>1, ApplyFact
<1>3. Len(chain') = k + 1 /\ chain'[k + 1] = t /\ \A n \in 1..k : chain'[n] = chain[n]
  BY SMTT(60), <1>1, <1>2
<1>4. /\ t.lib \in Nat /\ t.lib < k + 1 /\ t.lib < NoLimit /\ t.transit \in Nat
      /\ committed' \in {committed, t.lib} /\ committed <= committed' /\ t.lib <= committed'
  <2>1. t \in ChainState
    BY SMTT(60), <1>1, <1>3, <1>2 DEF Sound
  <2>2. t.transit \in Nat
    BY Zenon, <2>1 DEF ChainState
  <2>3. t.lib \in Nat /\ t.lib < k + 1 /\ t.lib < NoLimit
    BY Zenon, <1>2 DEF Follows
  <2>4. committed' = IF t.lib > committed THEN t.lib ELSE committed
    BY Zenon, <1>2
  <2> QED
    BY <2>2, <2>3, <2>4, <1>1
<1>5. s.lib <= committed
  BY SMTT(60), <1>1 DEF StopInv, LibsCommitted
<1>6. LibsCommitted'
  <2> SUFFICES ASSUME NEW n \in 1..k + 1 PROVE chain'[n].lib <= committed'
    BY Zenon, <1>3 DEF LibsCommitted
  <2>1. CASE n = k + 1
    BY Zenon, <2>1, <1>3, <1>4
  <2>2. CASE n \in 1..k
    <3>1. chain[n].lib <= committed /\ chain[n] \in ChainState
      BY SMTT(60), <2>2, <1>1 DEF StopInv, LibsCommitted
    <3>2. chain[n].lib \in Nat
      BY Zenon, <3>1 DEF ChainState
    <3> QED
      BY SMTT(60), <2>2, <3>1, <3>2, <1>1, <1>3, <1>4
  <2> QED
    BY SMTT(60), <2>1, <2>2, <1>1
\* The transit block of the new state.
<1>7. ASSUME TransitEnabled(t), t.lib >= t.transit
      PROVE  TransitEnabled(s) /\ t.transit = s.transit
  <2>1. Follows(s, k + 1, fixed, t)
    BY Zenon, <1>2
  <2>2. t.transit # k + 1
    BY <1>1, <1>4, <1>7
  <2> QED
    BY Zenon, <2>1, <2>2, <1>7 DEF Follows
\* The limit was fixed before: nothing more is committed.
<1>8. ASSUME fixed # NoLimit
      PROVE  /\ committed' = committed /\ fixed' = fixed
             /\ t.transit = committed
             /\ LimitIsTransit' /\ LimitIsSet' /\ CommittedUpToTransit'
  <2>1. fixed = committed /\ committed \in 1..k /\ chain[committed].transit = committed
    BY <1>1, <1>8 DEF StopInv, LimitIsTransit
  <2>2. committed # NoLimit
    BY Zenon, <1>1, <2>1, ScheduleAssumption, <1>8
  <2>3. s.transit = committed /\ TransitEnabled(s)
    BY Zenon, <1>1, <2>1, <2>2 DEF BlockSound, Enabled, TransitEnabled
  <2>4. k + 1 >= StartMinerVotingBlock
    BY <1>1, <2>3, Constants DEF LateTransit
  <2>5. t.lib <= committed
    <3>1. t.lib <= s.lib \/ t.lib <= fixed
      BY Zenon, <1>2, <2>4 DEF Follows
    <3> QED
      BY SMTT(60), <3>1, <1>1, <1>4, <1>5, <2>1
  <2>6. committed' = committed /\ fixed' = fixed
    BY SMTT(60), <1>1, <1>2, <1>4, <1>8, <2>5
  <2>7. t.transit = committed
    BY Zenon, <1>2, <2>3 DEF Follows
  <2>8. LimitIsTransit'
    BY <1>3, <2>1, <2>6 DEF LimitIsTransit
  <2>9. LimitIsSet'
    BY Zenon, <1>8, <2>6 DEF LimitIsSet
  <2>10. CommittedUpToTransit'
    BY SMTT(60), <1>1, <1>3, <2>6, <2>7 DEF CommittedUpToTransit
  <2> QED
    BY Zenon, <2>6, <2>7, <2>8, <2>9, <2>10
\* The block makes the transit block irreversible.
<1>9. ASSUME fixed = NoLimit, SerializeState, t.transit = t.lib
      PROVE  LimitIsTransit' /\ LimitIsSet' /\ CommittedUpToTransit' /\ fixed' # NoLimit
  <2>1. TransitEnabled(t) /\ t.transit = s.transit /\ TransitEnabled(s)
    BY <1>4, <1>7, <1>9 DEF TransitEnabled
  <2>2. committed <= t.lib
    BY Zenon, <1>9, <2>1 DEF StopInv, CommittedUpToTransit
  <2>3. committed' = t.lib /\ fixed' = t.lib /\ fixed' # NoLimit
    BY SMTT(60), <1>1, <1>2, <1>4, <1>9, <2>2
  <2>4. s.transit \in 1..k /\ chain[s.transit].transit = s.transit
    BY Zenon, <1>1, <2>1 DEF BlockSound, Enabled
  <2>5. LimitIsTransit'
    <3>1. committed' = s.transit /\ fixed' = committed'
      BY Zenon, <1>9, <2>1, <2>3
    <3>2. s.transit > 0 /\ chain'[s.transit] = chain[s.transit]
      BY <1>3, <2>4
    <3> QED
      BY Zenon, <3>1, <3>2, <2>4 DEF LimitIsTransit
  <2>6. LimitIsSet'
    BY Zenon, <2>3 DEF LimitIsSet
  <2>7. CommittedUpToTransit'
    BY Zenon, <1>1, <1>3, <1>4, <1>9, <2>3 DEF CommittedUpToTransit
  <2> QED
    BY Zenon, <2>3, <2>5, <2>6, <2>7
\* It does not, and no earlier block did.
<1>10. ASSUME fixed = NoLimit, ~(SerializeState /\ t.transit = t.lib)
       PROVE  fixed' = fixed /\ LimitIsTransit' /\ LimitIsSet' /\ CommittedUpToTransit'
  <2>1. fixed' = NoLimit
    BY Zenon, <1>2, <1>10
  <2>2. ASSUME SerializeState, TransitEnabled(t) PROVE t.lib < t.transit
    <3> SUFFICES ASSUME t.lib >= t.transit PROVE FALSE
      BY <1>4
    <3>1. TransitEnabled(s) /\ t.transit = s.transit
      BY Zenon, <1>7, <2>2
    <3>2. s.lib < s.transit
      BY SMTT(60), <1>1, <1>10, <2>2, <3>1 DEF StopInv, LimitIsSet
    <3>3. t.lib = t.transit
      BY Zenon, <1>1, <1>2, <3>1, <3>2 DEF Follows
    <3> QED
      BY Zenon, <1>10, <2>2, <3>3
  <2>3. LimitIsSet'
    <3> SUFFICES ASSUME SerializeState, NEW n \in 1..k + 1, TransitEnabled(chain'[n])
                 PROVE  chain'[n].lib < chain'[n].transit
      BY Zenon, <1>3 DEF LimitIsSet
    <3>1. CASE n = k + 1
      BY Zenon, <3>1, <1>3, <2>2
    <3>2. CASE n \in 1..k
      BY Zenon, <3>2, <1>3, <1>10 DEF StopInv, LimitIsSet
    <3> QED
      BY SMTT(60), <3>1, <3>2, <1>1
  <2>4. CommittedUpToTransit'
    <3> SUFFICES ASSUME SerializeState, TransitEnabled(t) PROVE committed' <= t.transit
      BY Zenon, <1>3 DEF CommittedUpToTransit
    <3>1. t.lib < t.transit
      BY Zenon, <2>2
    <3>2. CASE TransitEnabled(s)
      <4>1. t.transit = s.transit /\ committed <= s.transit
        BY Zenon, <1>2, <3>2 DEF Follows, StopInv, CommittedUpToTransit
      <4> QED
        BY SMTT(60), <1>1, <1>4, <3>1, <4>1
    <3>3. CASE ~TransitEnabled(s)
      <4>1. t.transit = k + 1
        BY Zenon, <1>2, <3>3 DEF Follows
      <4> QED
        BY SMTT(60), <1>1, <1>4, <3>1, <4>1
    <3> QED
      BY Zenon, <3>2, <3>3
  <2>5. LimitIsTransit'
    BY Zenon, <2>1 DEF LimitIsTransit
  <2> QED
    BY Zenon, <2>1, <2>3, <2>4, <2>5, <1>10
<1>11. timer' => fixed' # NoLimit
  <2>1. timer => fixed # NoLimit
    BY Zenon DEF StopInv
  <2> QED
    BY Zenon, <2>1, <1>2, <1>8, <1>9
<1>12. ~exited'
  BY Zenon DEF ApplyBlock
<1> QED
  BY Zenon, <1>6, <1>8, <1>9, <1>10, <1>11, <1>12 DEF StopInv, EndsAtTransit

\* Every step keeps it, once the votes decide about the last irreversible block.
LEMMA StopNext == StopInv /\ LateTransit /\ [Next]_vars => StopInv'
<1> SUFFICES ASSUME StopInv, LateTransit, [Next]_vars PROVE StopInv'
  BY Zenon
<1>1. LibInv'
  BY Zenon, LibNext DEF StopInv
<1>2. /\ Len(chain) \in Nat /\ chain \in Seq(ChainState) /\ Len(chain) > 0
      /\ committed \in Nat /\ committed <= Len(chain)
  BY DEF StopInv, LibInv, Sound
<1>3. ASSUME NEW w \in State.schedule, NEW V \in NewVotes(State),
             NEW r \in NewRounds(State, headNum + 1), ApplyBlock(w, V, r)
      PROVE  StopInv'
  BY Zenon, <1>1, <1>3, StopApply
<1>4. CASE PopBlock
  <2>1. /\ Len(chain) - 1 \in 1..Len(chain) /\ committed <= Len(chain) - 1
        /\ chain' = SubSeq(chain, 1, Len(chain) - 1) /\ committed' = committed /\ fixed' = fixed
    BY <1>2, <1>4 DEF PopBlock, headNum
  <2>2. LibsCommitted' /\ CommittedUpToTransit' /\ LimitIsTransit' /\ LimitIsSet'
    BY Zenon, <2>1, PrefixStop
  <2>3. ~exited' /\ timer' = timer
    BY <1>4, Zenon DEF PopBlock
  <2> QED
    BY Zenon, <1>1, <2>1, <2>2, <2>3 DEF StopInv, EndsAtTransit
<1>5. CASE Serialize
  <2>1. timer /\ fixed # NoLimit
    BY Zenon, <1>5 DEF Serialize, StopInv
  <2>2. State.lib = committed /\ committed > 0 /\ chain[committed].transit = committed
    <3>1. State.lib <= committed /\ State \in ChainState
      BY <1>2 DEF StopInv, LibsCommitted, State, headNum
    <3>2. State.lib >= committed /\ State.lib \in Nat
      BY Zenon, <1>5, <3>1 DEF Serialize, CanRevert, ChainState
    <3> QED
      BY <1>2, <2>1, <3>1, <3>2 DEF StopInv, LimitIsTransit
  <2>3. /\ committed \in 1..Len(chain) /\ committed <= committed
        /\ chain' = SubSeq(chain, 1, committed) /\ committed' = committed /\ fixed' = fixed
    BY <1>2, <1>5, <2>2 DEF Serialize
  <2>4. /\ Len(chain') = committed /\ \A n \in 1..committed : chain'[n] = chain[n]
        /\ LibsCommitted' /\ CommittedUpToTransit' /\ LimitIsTransit' /\ LimitIsSet'
    BY Zenon, <2>3, PrefixStop
  <2>5. ~timer'
    BY <1>5, Zenon DEF Serialize
  <2>6. Len(chain') = chain'[Len(chain')].transit
    <3>1. committed \in 1..committed
      BY <2>3
    <3> QED
      BY Zenon, <3>1, <2>2, <2>4
  <2> QED
    BY Zenon, <1>1, <2>4, <2>5, <2>6 DEF StopInv, EndsAtTransit
<1>6. CASE SerializeThrows
  <2>1. timer /\ ~exited /\ fixed # NoLimit
    BY Zenon, <1>6 DEF SerializeThrows, StopInv, EndsAtTransit
  <2>2. /\ committed \in 1..Len(chain) /\ committed <= committed
        /\ chain' = SubSeq(chain, 1, committed) /\ committed' = committed /\ fixed' = fixed
    BY <1>2, <1>6, <2>1 DEF SerializeThrows, StopInv, LimitIsTransit
  <2>3. LibsCommitted' /\ CommittedUpToTransit' /\ LimitIsTransit' /\ LimitIsSet'
    BY Zenon, <2>2, PrefixStop
  <2>4. ~exited' /\ ~timer'
    BY <1>6, <2>1, Zenon DEF SerializeThrows
  <2> QED
    BY Zenon, <1>1, <2>3, <2>4 DEF StopInv, EndsAtTransit
<1>7. CASE Restart
  <2>1. /\ committed \in 1..Len(chain) /\ committed <= committed
        /\ chain' = SubSeq(chain, 1, committed) /\ committed' = committed /\ fixed' = NoLimit
    BY <1>2, <1>7 DEF Restart
  <2>2. /\ Len(chain') = committed /\ \A n \in 1..committed : chain'[n] = chain[n]
        /\ LibsCommitted' /\ CommittedUpToTransit'
    BY Zenon, <2>1, PrefixStop
  <2>3. LimitIsSet'
    <3> SUFFICES ASSUME SerializeState, NEW n \in 1..committed, TransitEnabled(chain[n])
                 PROVE  chain[n].lib < chain[n].transit
      BY Zenon, <2>2 DEF LimitIsSet
    <3>1. n \in 1..Len(chain) /\ n <= committed /\ n \in Nat
      BY <1>2
    <3>2. chain[Len(chain)].transit = chain[n].transit
      BY SMTT(60), <1>2, <3>1 DEF StopInv, LibInv, Sound, BlockSound, Enabled
    <3>3. committed <= chain[n].transit
      BY Zenon, <3>2 DEF StopInv, CommittedUpToTransit, TransitEnabled
    <3>4. chain[n].lib < n
      BY Zenon, <3>1 DEF StopInv, LibInv, Sound, BlockSound, Bounded
    <3>5. chain[n] \in ChainState
      BY <1>2, <3>1
    <3>6. chain[n].lib \in Nat /\ chain[n].transit \in Nat
      BY Zenon, <3>5 DEF ChainState
    <3> QED
      BY <1>2, <3>1, <3>3, <3>4, <3>6
  <2>4. LimitIsTransit'
    BY Zenon, <2>1 DEF LimitIsTransit
  <2>5. ~exited' /\ ~timer'
    BY <1>7, Zenon DEF Restart
  <2> QED
    BY Zenon, <1>1, <2>2, <2>3, <2>4, <2>5 DEF StopInv, EndsAtTransit
<1>8. CASE UNCHANGED vars
  BY Zenon, <1>1, <1>8 DEF vars, StopInv, LibsCommitted, LimitIsTransit, LimitIsSet, CommittedUpToTransit,
     EndsAtTransit
<1> QED
  BY Zenon, <1>3, <1>4, <1>5, <1>6, <1>7, <1>8 DEF Next

(***************************************************************************)
(* A node that writes its state out does so at the transit block, and never *)
(* commits a later one, through every fork switch and restart: for every    *)
(* number of witnesses, once the last irreversible block depends on votes.  *)
(***************************************************************************)
THEOREM Stops == Spec /\ []LateTransit => []StopsAtTransit
<1>1. StopInv => StopsAtTransit
  <2> SUFFICES ASSUME StopInv PROVE StopsAtTransit
    BY Zenon
  <2>1. exited => headNum = chain[headNum].transit
    BY Zenon DEF StopInv, EndsAtTransit, headNum
  <2>2. SerializeState /\ TransitEnabled(State) => committed <= State.transit
    BY Zenon DEF StopInv, CommittedUpToTransit, State, headNum
  <2> QED
    BY <2>1, <2>2 DEF StopsAtTransit
<1> QED
  BY <1>1, StopInit, StopNext, PTL DEF Spec
=============================================================================
