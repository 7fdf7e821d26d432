--------------------------- MODULE PendingProofs ---------------------------
(***************************************************************************)
(* No transaction is applied twice on a chain, the pending state is what    *)
(* the chain and the pending transactions give, and none is lost, for every *)
(* expiration and every sequence of blocks, switches and productions.       *)
(***************************************************************************)
EXTENDS PendingTransactions, Induction

(***************************************************************************)
(* A transaction of the chain is still in the index of unique transactions  *)
(* after every later block, or its expiration has passed.                   *)
(***************************************************************************)
Remembered(c) ==
    \A m, n \in 1..Len(c) : \A i \in 1..Len(c[m].txs) :
      m <= n => \/ c[m].txs[i] \in c[n].state.known
                \/ c[n].state.time > expiration[c[m].txs[i]]

Numbered(c) == \A n \in 1..Len(c) : c[n].state.num = n

Clean(c) == c \in Seq(Block) /\ Numbered(c) /\ Remembered(c) /\ Unique(c)

GenTimed == /\ DOMAIN gen = {"stage", "time", "txs", "previous", "retry"}
            /\ gen.time \in Nat

LEMMA StateAtType ==
    ASSUME NEW c \in Seq(Block)
    PROVE  StateAt(c) \in State
<1>1. CASE c = <<>>
  BY Zenon, <1>1 DEF StateAt, Genesis, State
<1>2. CASE c # <<>>
  <2>1. c[Len(c)] \in Block
    BY <1>2
  <2> QED
    BY Zenon, <2>1, <1>2 DEF StateAt, Block
<1> QED
  BY Zenon, <1>1, <1>2

LEMMA BlockTxs ==
    ASSUME NEW c \in Seq(Block), NEW m \in 1..Len(c)
    PROVE  /\ c[m].txs \in Seq(Tx)
           /\ Len(c[m].txs) \in Nat
           /\ \A i \in 1..Len(c[m].txs) : c[m].txs[i] \in Tx
<1>1. c[m] \in Block
  OBVIOUS
<1>2. c[m].txs \in Seq(Tx)
  BY Zenon, <1>1 DEF Block
<1> QED
  BY <1>2

LEMMA AfterBlockType ==
    ASSUME NEW s \in State, NEW now \in Nat, NEW txs \in Seq(Tx), NEW tag \in Tag
    PROVE  AfterBlock(s, now, txs, tag) \in State
BY TxAssumption DEF AfterBlock, State, ClearExpired, First

\* Two equal transactions of a chain without duplicates stand in one place.
LEMMA UniqueAt ==
    ASSUME NEW c, Unique(c), NEW m \in 1..Len(c), NEW n \in 1..Len(c),
           NEW i \in 1..Len(c[m].txs), NEW j \in 1..Len(c[n].txs),
           c[m].txs[i] = c[n].txs[j]
    PROVE  m = n /\ i = j
BY Zenon DEF Unique

\* The first blocks of a chain.
LEMMA PrefixClean ==
    ASSUME NEW c, Clean(c), NEW k \in 0..Len(c)
    PROVE  Clean(SubSeq(c, 1, Len(c) - k))
<1> DEFINE d == SubSeq(c, 1, Len(c) - k)
<1>1. /\ d \in Seq(Block)
      /\ Len(d) = Len(c) - k
      /\ \A n \in 1..Len(d) : n \in 1..Len(c) /\ d[n] = c[n]
  BY DEF Clean
<1> SUFFICES Clean(d)
  BY Zenon
<1> HIDE DEF d
<1>2. Numbered(d)
  BY Zenon, <1>1 DEF Clean, Numbered
<1>3. Remembered(d)
  BY Zenon, <1>1 DEF Clean, Remembered
<1>4. Unique(d)
  <2> SUFFICES ASSUME NEW m \in 1..Len(d), NEW n \in 1..Len(d),
                      NEW i \in 1..Len(d[m].txs), NEW j \in 1..Len(d[n].txs),
                      d[m].txs[i] = d[n].txs[j]
               PROVE  m = n /\ i = j
    BY Zenon DEF Unique
  <2>1. m \in 1..Len(c) /\ n \in 1..Len(c) /\ d[m] = c[m] /\ d[n] = c[n]
    BY Zenon, <1>1
  <2>2. Unique(c)
    BY Zenon DEF Clean
  <2>3. i \in 1..Len(c[m].txs) /\ j \in 1..Len(c[n].txs) /\ c[m].txs[i] = c[n].txs[j]
    BY Zenon, <2>1
  <2>4. \A x \in 1..Len(c[m].txs), y \in 1..Len(c[n].txs) : c[m].txs[x] = c[n].txs[y] => m = n /\ x = y
    BY Zenon, <2>1, <2>2 DEF Unique
  <2> QED
    BY Zenon, <2>3, <2>4
<1> QED
  BY Zenon, <1>1, <1>2, <1>3, <1>4 DEF Clean

(***************************************************************************)
(* A block that applies.  A transaction of it is not in the index, so if it *)
(* were on the chain its expiration would have passed, and it would not be  *)
(* in time.                                                                 *)
(***************************************************************************)
LEMMA ExtendClean ==
    ASSUME NEW c, Clean(c), NEW now \in Nat, NEW txs, NEW tag \in Tag,
           BlockApplies(c, now, txs)
    PROVE  Clean(Extend(c, now, txs, tag)) /\ Extend(c, now, txs, tag) # <<>>
<1> DEFINE s == StateAt(c)
           r == AfterBlock(s, now, txs, tag)
           b == [txs |-> txs, state |-> r]
           d == Append(c, b)
<1>1. txs \in Seq(Tx) /\ s.time < now
  BY Zenon DEF BlockApplies
<1>2. s \in State /\ r \in State
  BY Zenon, <1>1, StateAtType, AfterBlockType DEF Clean
<1>3. /\ r.num = s.num + 1
      /\ r.time = now
      /\ \A t \in s.known \cup First(txs, Len(txs)) : t \in r.known \/ now > expiration[t]
  <2>1. \A t \in s.known \cup First(txs, Len(txs)) : t \in Tx
    BY <1>1, <1>2 DEF State, First
  <2> QED
    BY <2>1, TxAssumption DEF AfterBlock, ClearExpired
<1>4. b \in Block /\ b.txs = txs /\ b.state = r
  BY Zenon, <1>1, <1>2 DEF Block
<1>5. /\ c \in Seq(Block) /\ d \in Seq(Block)
      /\ Len(d) = Len(c) + 1
      /\ \A n \in 1..Len(c) : d[n] = c[n]
      /\ d[Len(d)] = b
  BY <1>4 DEF Clean
<1>6. /\ s.num = Len(c)
      /\ Len(c) > 0 => s = c[Len(c)].state
  BY <1>5 DEF Clean, Numbered, StateAt, Genesis
<1>7. /\ Len(txs) \in Nat
      /\ \A i \in 1..Len(txs) : txs[i] \in Tx
      /\ \A i \in 1..Len(txs) : Applies(With(s, First(txs, i - 1)), txs[i], TRUE)
  <2>1. AllApply(s, txs)
    BY Zenon DEF BlockApplies
  <2>2. \A i \in 1..Len(txs) : Applies(With(s, First(txs, i - 1)), txs[i], TRUE)
    BY Zenon, <2>1 DEF AllApply
  <2>3. Len(txs) \in Nat /\ \A i \in 1..Len(txs) : txs[i] \in Tx
    BY <1>1
  <2> QED
    BY Zenon, <2>2, <2>3
<1>8. \A i \in 1..Len(txs) : /\ txs[i] \notin s.known
                             /\ txs[i] \notin First(txs, i - 1)
                             /\ s.num > 0 => s.time < expiration[txs[i]]
  <2> TAKE i \in 1..Len(txs)
  <2> DEFINE F == First(txs, i - 1)
  <2>1. /\ With(s, F).known = s.known \cup F
        /\ With(s, F).num = s.num
        /\ With(s, F).time = s.time
    BY Zenon, <1>2 DEF With, State
  <2> HIDE DEF F
  <2>2. Applies(With(s, F), txs[i], TRUE)
    BY Zenon, <1>7 DEF F
  <2>3. txs[i] \notin s.known \cup F /\ (s.num > 0 => s.time < expiration[txs[i]])
    BY Zenon, <2>1, <2>2 DEF Applies, InTime
  <2> QED
    BY Zenon, <2>3 DEF F
<1> HIDE DEF s, r, b, d
<1>9. \A m \in 1..Len(c) : \A i \in 1..Len(c[m].txs) :
        /\ c[m].txs[i] \in Tx
        /\ c[m].txs[i] \in s.known \/ s.time > expiration[c[m].txs[i]]
  <2> SUFFICES ASSUME NEW m \in 1..Len(c), NEW i \in 1..Len(c[m].txs)
               PROVE  /\ c[m].txs[i] \in Tx
                      /\ c[m].txs[i] \in s.known \/ s.time > expiration[c[m].txs[i]]
    BY Zenon
  <2>1. Len(c) \in 1..Len(c) /\ m <= Len(c) /\ s = c[Len(c)].state
    BY <1>5, <1>6
  <2>3. c[m].txs[i] \in Tx
    BY Zenon, BlockTxs DEF Clean
  <2>4. Remembered(c)
    BY Zenon DEF Clean
  <2>5. \/ c[m].txs[i] \in c[Len(c)].state.known
        \/ c[Len(c)].state.time > expiration[c[m].txs[i]]
    BY Zenon, <2>1, <2>4 DEF Remembered
  <2> QED
    BY Zenon, <2>1, <2>3, <2>5
<1>10. \A m \in 1..Len(c) : \A i \in 1..Len(c[m].txs), j \in 1..Len(txs) : c[m].txs[i] # txs[j]
  <2> SUFFICES ASSUME NEW m \in 1..Len(c), NEW i \in 1..Len(c[m].txs), NEW j \in 1..Len(txs),
                      c[m].txs[i] = txs[j]
               PROVE  FALSE
    BY Zenon
  <2>1. s.num > 0
    BY <1>5, <1>6
  <2>3. s.time \in Nat /\ expiration[txs[j]] \in Nat
    BY Zenon, <1>2, <1>7, TxAssumption DEF State
  <2>2. s.time > expiration[txs[j]]
    BY Zenon, <1>8, <1>9
  <2> QED
    BY <2>1, <2>2, <2>3, <1>8
<1>11. \A i, j \in 1..Len(txs) : txs[i] = txs[j] => i = j
  <2>1. \A i, j \in 1..Len(txs) : i < j => txs[i] # txs[j]
    <3> TAKE i, j \in 1..Len(txs)
    <3> HAVE i < j
    <3>1. txs[i] \in First(txs, j - 1)
      BY <1>7 DEF First
    <3> QED
      BY Zenon, <3>1, <1>8
  <2> QED
    BY <2>1, <1>7
<1>12. Numbered(d)
  BY <1>3, <1>4, <1>5, <1>6 DEF Clean, Numbered
<1>13. Remembered(d)
  <2> SUFFICES ASSUME NEW m \in 1..Len(d), NEW n \in 1..Len(d),
                      NEW i \in 1..Len(d[m].txs), m <= n
               PROVE  \/ d[m].txs[i] \in d[n].state.known
                      \/ d[n].state.time > expiration[d[m].txs[i]]
    BY Zenon DEF Remembered
  <2>1. CASE n \in 1..Len(c)
    <3>1. m \in 1..Len(c) /\ d[m] = c[m] /\ d[n] = c[n]
      BY <2>1, <1>5
    <3> QED
      BY Zenon, <2>1, <3>1 DEF Clean, Remembered
  <2>2. CASE n = Len(d) /\ m \in 1..Len(c)
    <3>1. d[m].txs[i] \in Tx /\ (d[m].txs[i] \in s.known \/ s.time > expiration[d[m].txs[i]])
      BY Zenon, <2>2, <1>5, <1>9
    <3>2. expiration[d[m].txs[i]] \in Nat /\ s.time \in Nat
      BY Zenon, <3>1, <1>2, TxAssumption DEF State
    <3>3. d[n].state = r /\ r.time = now
      BY Zenon, <2>2, <1>3, <1>4, <1>5
    <3> DEFINE t == d[m].txs[i]
    <3>4. t \in s.known => t \in r.known \/ now > expiration[t]
      BY Zenon, <1>3
    <3>5. s.time > expiration[t] => now > expiration[t]
      BY <3>2, <1>1
    <3> QED
      BY Zenon, <3>1, <3>3, <3>4, <3>5
  <2>3. CASE n = Len(d) /\ m = Len(d)
    <3>1. i \in 1..Len(txs) /\ d[m].txs[i] = txs[i]
      BY Zenon, <2>3, <1>4, <1>5
    <3>2. txs[i] \in First(txs, Len(txs))
      BY Zenon, <3>1, <1>7 DEF First
    <3> QED
      BY Zenon, <3>1, <3>2, <2>3, <1>3, <1>4, <1>5
  <2> QED
    BY SMTT(60), <2>1, <2>2, <2>3, <1>5
<1>14. Unique(d)
  <2> SUFFICES ASSUME NEW m \in 1..Len(d), NEW n \in 1..Len(d),
                      NEW i \in 1..Len(d[m].txs), NEW j \in 1..Len(d[n].txs),
                      d[m].txs[i] = d[n].txs[j]
               PROVE  m = n /\ i = j
    BY Zenon DEF Unique
  <2>1. CASE m \in 1..Len(c) /\ n \in 1..Len(c)
    <3>1. d[m] = c[m] /\ d[n] = c[n]
      BY Zenon, <2>1, <1>5
    <3>2. Unique(c)
      BY Zenon DEF Clean
    <3>3. /\ i \in 1..Len(c[m].txs) /\ j \in 1..Len(c[n].txs)
          /\ c[m].txs[i] = c[n].txs[j]
      BY Zenon, <3>1
    <3> QED
      BY <2>1, <3>2, <3>3, UniqueAt
  <2>2. CASE m = Len(d) /\ n = Len(d)
    BY Zenon, <2>2, <1>4, <1>5, <1>11
  <2>3. CASE m \in 1..Len(c) /\ n = Len(d)
    BY SMTT(60), <2>3, <1>4, <1>5, <1>10
  <2>4. CASE m = Len(d) /\ n \in 1..Len(c)
    BY SMTT(60), <2>4, <1>4, <1>5, <1>10
  <2> QED
    BY <2>1, <2>2, <2>3, <2>4, <1>5
<1> QED
  BY <1>5, <1>12, <1>13, <1>14 DEF Clean, Extend, d, b, r, s

\* Empty blocks after a chain: nothing new to remember, and time goes on.
LEMMA EmptyBlocksClean ==
    ASSUME NEW c, Clean(c), NEW n \in Nat, NEW tag \in Tag
    PROVE  Clean(EmptyBlocks(c, n, tag))
<1> DEFINE s == StateAt(c)
           r(i) == [num   |-> s.num + i,
                    time  |-> s.time + i,
                    known |-> ClearExpired(s.known, s.time + i),
                    done  |-> s.done,
                    tags  |-> s.tags \cup {tag}]
           e == [i \in 1..n |-> [txs |-> <<>>, state |-> r(i)]]
           d == c \o e
<1>1. s \in State
  BY Zenon, StateAtType DEF Clean
<1>2. ASSUME NEW i \in 1..n
      PROVE  [txs |-> <<>>, state |-> r(i)] \in Block
  <2>1. r(i) \in State
    BY <1>1 DEF State, ClearExpired
  <2> HIDE DEF r
  <2> QED
    BY <2>1 DEF Block
<1>3. e \in Seq(Block) /\ Len(e) = n
  BY <1>2
<1>4. \A i \in 1..n : e[i].txs = <<>> /\ e[i].state = r(i)
  BY Zenon
<1>5. d = EmptyBlocks(c, n, tag)
  BY Zenon DEF EmptyBlocks
<1>6. /\ s.num = Len(c)
      /\ Len(c) > 0 => s = c[Len(c)].state
  BY DEF Clean, Numbered, StateAt, Genesis
<1> HIDE DEF e
<1>7. /\ c \in Seq(Block) /\ d \in Seq(Block)
      /\ Len(d) = Len(c) + n
      /\ \A k \in 1..Len(c) : d[k] = c[k]
      /\ \A k \in 1..Len(d) : k > Len(c) => k - Len(c) \in 1..n /\ d[k] = e[k - Len(c)]
  BY <1>3 DEF Clean
<1> HIDE DEF d
<1>8. \A k \in 1..Len(d) : k > Len(c) => /\ d[k].txs = <<>>
                                       /\ d[k].state = r(k - Len(c))
  BY SMTT(60), <1>4, <1>7
<1>8a. \A x : /\ r(x).num = s.num + x
              /\ r(x).time = s.time + x
              /\ r(x).known = ClearExpired(s.known, s.time + x)
  BY Zenon
<1> HIDE DEF r, s
<1>9. \A k \in 1..Len(d) : \A i \in 1..Len(d[k].txs) : k \in 1..Len(c)
  <2>1. 1..Len(<<>>) = {}
    OBVIOUS
  <2>2. \A k \in 1..Len(d) : k \in 1..Len(c) \/ k > Len(c)
    BY <1>7
  <2> QED
    BY Zenon, <2>1, <2>2, <1>8
<1>10. Numbered(d)
  <2> SUFFICES ASSUME NEW k \in 1..Len(d) PROVE d[k].state.num = k
    BY Zenon DEF Numbered
  <2>1. CASE k \in 1..Len(c)
    BY Zenon, <2>1, <1>7 DEF Clean, Numbered
  <2>2. CASE k > Len(c)
    <3>1. d[k].state.num = s.num + (k - Len(c))
      BY Zenon, <2>2, <1>8, <1>8a
    <3> QED
      BY <3>1, <2>2, <1>6, <1>7
  <2> QED
    BY <2>1, <2>2, <1>7
<1>11. Remembered(d)
  <2> SUFFICES ASSUME NEW m \in 1..Len(d), NEW k \in 1..Len(d),
                      NEW i \in 1..Len(d[m].txs), m <= k
               PROVE  \/ d[m].txs[i] \in d[k].state.known
                      \/ d[k].state.time > expiration[d[m].txs[i]]
    BY Zenon DEF Remembered
  <2>1. m \in 1..Len(c) /\ d[m] = c[m] /\ i \in 1..Len(c[m].txs) /\ Remembered(c)
    BY Zenon, <1>7, <1>9 DEF Clean
  <2>2. CASE k \in 1..Len(c)
    BY Zenon, <2>1, <2>2, <1>7 DEF Remembered
  <2>3. CASE k > Len(c)
    <3> DEFINE t == c[m].txs[i]
    <3>1. Len(c) \in 1..Len(c) /\ m <= Len(c) /\ s = c[Len(c)].state
      BY SMTT(60), <2>1, <1>6, <1>7
    <3>2. t \in s.known \/ s.time > expiration[t]
      BY Zenon, <3>1, <2>1 DEF Remembered
    <3>3. t \in Tx
      BY Zenon, <2>1, <1>7, BlockTxs
    <3>4. expiration[t] \in Nat /\ s.time \in Nat
      BY Zenon, <3>3, <1>1, TxAssumption DEF State
    <3>5. /\ d[k].state.time = s.time + (k - Len(c))
          /\ d[k].state.known = ClearExpired(s.known, s.time + (k - Len(c)))
      BY Zenon, <2>3, <1>8, <1>8a
    <3>6. k - Len(c) \in Nat
      BY <2>3, <1>7
    <3>7. d[m].txs[i] = t
      BY Zenon, <2>1
    <3> HIDE DEF t
    <3>8. CASE s.time + (k - Len(c)) > expiration[t]
      BY Zenon, <3>5, <3>7, <3>8
    <3>9. CASE ~(s.time + (k - Len(c)) > expiration[t])
      <4>1. s.time + (k - Len(c)) <= expiration[t] /\ ~(s.time > expiration[t])
        BY <3>9, <3>4, <3>6
      <4>2. t \in ClearExpired(s.known, s.time + (k - Len(c)))
        BY Zenon, <4>1, <3>2 DEF ClearExpired
      <4> QED
        BY Zenon, <4>2, <3>5, <3>7
    <3> QED
      BY Zenon, <3>8, <3>9
  <2> QED
    BY SMTT(60), <2>2, <2>3, <1>7
<1>12. Unique(d)
  <2> SUFFICES ASSUME NEW m \in 1..Len(d), NEW k \in 1..Len(d),
                      NEW i \in 1..Len(d[m].txs), NEW j \in 1..Len(d[k].txs),
                      d[m].txs[i] = d[k].txs[j]
               PROVE  m = k /\ i = j
    BY Zenon DEF Unique
  <2>1. m \in 1..Len(c) /\ k \in 1..Len(c) /\ d[m] = c[m] /\ d[k] = c[k]
    BY Zenon, <1>7, <1>9
  <2>2. Unique(c)
    BY Zenon DEF Clean
  <2>3. /\ i \in 1..Len(c[m].txs) /\ j \in 1..Len(c[k].txs)
        /\ c[m].txs[i] = c[k].txs[j]
    BY Zenon, <2>1
  <2> QED
    BY <2>1, <2>2, <2>3, UniqueAt
<1> QED
  BY Zenon, <1>5, <1>7, <1>10, <1>11, <1>12 DEF Clean

LEMMA BranchesClean ==
    ASSUME NEW c, Clean(c), NEW n \in Nat \ {0}, NEW d \in Branches(c, n)
    PROVE  Clean(d)
<1>1. StateAt(c).time \in Nat
  BY Zenon, StateAtType DEF Clean, State
<1>2. PICK now \in {StateAt(c).time + 1, StateAt(c).time + 2}, txs \in Offered, tag \in Tag :
              /\ BlockApplies(c, now, txs)
              /\ d = EmptyBlocks(Extend(c, now, txs, tag), n - 1, tag)
  BY DEF Branches
<1>3. Clean(Extend(c, now, txs, tag))
  BY <1>1, <1>2, ExtendClean
<1> QED
  BY <1>2, <1>3, EmptyBlocksClean
-----------------------------------------------------------------------------
\* The inductive invariant.
PoolInv == Clean(chain) /\ GenTimed

LEMMA PoolInit == Init => PoolInv
<1> SUFFICES ASSUME Init PROVE PoolInv
  BY Zenon
<1>1. chain = <<>> /\ gen = Idle
  BY Zenon DEF Init
<1>2. Clean(chain)
  BY <1>1 DEF Clean, Numbered, Remembered, Unique
<1>3. GenTimed
  BY Zenon, <1>1 DEF GenTimed, Idle
<1> QED
  BY Zenon, <1>2, <1>3 DEF PoolInv

LEMMA PoolNext == PoolInv /\ [Next]_vars => PoolInv'
<1> SUFFICES ASSUME PoolInv, [Next]_vars PROVE PoolInv'
  BY Zenon
<1>0. Clean(chain) /\ GenTimed /\ chain \in Seq(Block)
  BY Zenon DEF PoolInv, Clean
<1>1. ASSUME chain' = chain, gen' = gen PROVE PoolInv'
  BY Zenon, <1>0, <1>1 DEF PoolInv, GenTimed
<1>2. ASSUME chain' = chain, GenTimed' PROVE PoolInv'
  BY Zenon, <1>0, <1>2 DEF PoolInv
<1>3. CASE vars' = vars
  BY Zenon, <1>1, <1>3 DEF vars
<1>4. CASE \E t \in Tx : ValidateTransaction(t) \/ PushTransaction(t)
  BY Zenon, <1>1, <1>4 DEF ValidateTransaction, PushTransaction
<1>5. CASE PushBlock
  <2>1. PICK now \in Times(chain), txs \in Offered, tag \in Tag :
              /\ BlockApplies(chain, now, txs)
              /\ chain' = Extend(chain, now, txs, tag)
    BY Zenon, <1>5 DEF PushBlock, Restore
  <2>2. now \in Nat
    BY <1>0, StateAtType, PoolBoundAssumption DEF Times, State
  <2>3. Clean(chain')
    BY Zenon, <2>1, <2>2, <1>0, ExtendClean
  <2>4. gen' = gen
    BY Zenon, <1>5 DEF PushBlock
  <2> QED
    BY Zenon, <2>3, <2>4, <1>0 DEF PoolInv, GenTimed
<1>6. CASE PushBlockNotApplied
  BY Zenon, <1>1, <1>6 DEF PushBlockNotApplied, Restore
<1>7. CASE SwitchFork
  <2>1. PICK k \in 1..MaxUndone : /\ k <= Len(chain)
                                  /\ chain' \in Branches(Base(k), k + 1)
    BY Zenon, <1>7 DEF SwitchFork, Restore
  <2>2. k \in Nat /\ k \in 0..Len(chain) /\ k + 1 \in Nat \ {0}
    BY <2>1, <1>0, PoolBoundAssumption
  <2>3. Clean(Base(k))
    BY Zenon, <2>2, <1>0, PrefixClean DEF Base
  <2>4. Clean(chain')
    BY Zenon, <2>1, <2>2, <2>3, BranchesClean
  <2>5. gen' = gen
    BY Zenon, <1>7 DEF SwitchFork
  <2> QED
    BY Zenon, <2>4, <2>5, <1>0 DEF PoolInv, GenTimed
<1>8. CASE SwitchForkFails
  BY Zenon, <1>1, <1>8 DEF SwitchForkFails, Restore
<1>9. CASE Produce
  <2>1. CASE StartProducing
    <3>1. chain' = chain
      BY Zenon, <2>1 DEF StartProducing
    <3>2. PICK now \in Times(chain) : gen' = [Idle EXCEPT !.stage = "build", !.time = now]
      BY Zenon, <2>1 DEF StartProducing
    <3>3. now \in Nat
      BY <1>0, StateAtType, PoolBoundAssumption DEF Times, State
    <3>4. GenTimed'
      BY Zenon, <3>2, <3>3 DEF GenTimed, Idle
    <3> QED
      BY Zenon, <1>2, <3>1, <3>4
  <2>2. CASE BuildBlock \/ BuildBlockThrows \/ ReadHead
    BY Zenon, <1>2, <1>0, <2>2 DEF BuildBlock, BuildBlockThrows, ReadHead, GenTimed
  <2>3. CASE PushGenerated
    <3>1. GenTimed'
      BY <1>0, <2>3 DEF PushGenerated, GenTimed, Idle
    <3>2. CASE chain' = chain
      BY Zenon, <1>2, <3>1, <3>2
    <3>3. CASE \E tag \in Tag : /\ BlockApplies(chain, gen.time, gen.txs)
                                /\ chain' = Extend(chain, gen.time, gen.txs, tag)
      <4>1. gen.time \in Nat
        BY Zenon, <1>0 DEF GenTimed
      <4>2. Clean(chain')
        BY Zenon, <3>3, <4>1, <1>0, ExtendClean
      <4> QED
        BY Zenon, <4>2, <3>1 DEF PoolInv
    <3> QED
      BY Zenon, <2>3, <3>2, <3>3 DEF PushGenerated, Restore
  <2>4. CASE PushGeneratedToFork
    BY Zenon, <1>2, <2>4 DEF PushGeneratedToFork, Restore, GenTimed, Idle
  <2>5. CASE ClearPending
    BY Zenon, <1>2, <1>0, <2>5 DEF ClearPending, GenTimed, Idle
  <2> QED
    BY Zenon, <1>9, <2>1, <2>2, <2>3, <2>4, <2>5 DEF Produce
<1> QED
  BY Zenon, <1>3, <1>4, <1>5, <1>6, <1>7, <1>8, <1>9 DEF Next

(***************************************************************************)
(* No transaction is on a chain twice: the index of unique transactions and *)
(* the check of the expiration together suffice, for every set of           *)
(* transactions and whatever is undone, put back or produced.               *)
(***************************************************************************)
THEOREM UniqueTransactions == Spec => []NoDuplicates
<1>1. PoolInv => NoDuplicates
  BY DEF PoolInv, Clean, NoDuplicates
<1> QED
  BY <1>1, PoolInit, PoolNext, PTL DEF Spec

-----------------------------------------------------------------------------
(***************************************************************************)
(* What the restorer and _generate_block keep.                              *)
(***************************************************************************)

\* The run of the fold in Kept: what is kept after each transaction.
KeepRun(r, s, txs, room, when) ==
    /\ r \in [0..Len(txs) -> Seq(Tx)]
    /\ r[0] = <<>>
    /\ \A i \in 1..Len(txs) : r[i] = Keep(s, r[i - 1], txs[i], room, when)

KeepTable(it, s, txs, room, when) ==
    it = [T \in SUBSET DOMAIN txs |->
            IF T = {} THEN <<>>
            ELSE Keep(s, it[T \ {CHOOSE x \in T : \A y \in T : x >= y}],
                      txs[CHOOSE x \in T : \A y \in T : x >= y], room, when)]

LEMMA KeptRuns ==
    ASSUME NEW s, NEW txs \in Seq(Tx), NEW room, NEW when
    PROVE  \E r : KeepRun(r, s, txs, room, when) /\ Kept(s, txs, room, when) = r[Len(txs)]
<1> DEFINE n == Len(txs)
           V == Seq(Tx)
           G == [i \in 1..n |-> [v \in V |-> Keep(s, v, txs[i], room, when)]]
           ch == Greatest(n)
<1>1. n \in Nat /\ DOMAIN txs = 1..n /\ \A i \in 1..n : txs[i] \in Tx
  OBVIOUS
<1>2. G \in [1..n -> [V -> V]]
  <2>1. ASSUME NEW i \in 1..n, NEW v \in V
        PROVE  Keep(s, v, txs[i], room, when) \in V
    <3>1. Append(v, txs[i]) \in V
      BY <1>1
    <3> QED
      BY Zenon, <3>1 DEF Keep
  <2> HIDE DEF V, n
  <2> QED
    BY Zenon, <2>1
<1>3. <<>> \in V
  OBVIOUS
<1>4. PICK it : FoldTable(it, 1..n, V, <<>>, ch, G) /\ Runs([i \in 0..n |-> it[1..i]], n, V, <<>>, G)
  <2> HIDE DEF n, V, G
  <2> QED
    BY Zenon, <1>1, <1>2, <1>3, FoldRuns
<1>5. Chooses(ch, 1..n)
  BY Zenon, <1>1, GreatestIn
<1>6. KeepTable(it, s, txs, room, when)
  <2>1. ASSUME NEW T \in SUBSET DOMAIN txs, T # {}
        PROVE  it[T] = Keep(s, it[T \ {ch[T]}], txs[ch[T]], room, when)
    <3>1. ch[T] \in 1..n /\ T \ {ch[T]} \in SUBSET (1..n)
      BY Zenon, <1>1, <1>5, <2>1 DEF Chooses
    <3>2. it[T \ {ch[T]}] \in V
      BY Zenon, <1>4, <3>1 DEF FoldTable
    <3>3. it[T] = G[ch[T]][it[T \ {ch[T]}]]
      BY Zenon, <1>1, <1>4, <2>1 DEF FoldTable
    <3> QED
      BY Zenon, <3>1, <3>2, <3>3
  <2>2. it = [T \in SUBSET DOMAIN txs |-> it[T]] /\ it[{}] = <<>>
    BY Zenon, <1>1, <1>4 DEF FoldTable
  <2>3. \A T \in SUBSET DOMAIN txs : ch[T] = CHOOSE x \in T : \A y \in T : x >= y
    BY Zenon, <1>1 DEF Greatest
  <2> HIDE DEF ch
  <2> QED
    BY Zenon, <2>1, <2>2, <2>3 DEF KeepTable
<1> DEFINE jt == CHOOSE jt : KeepTable(jt, s, txs, room, when)
<1>7. KeepTable(jt, s, txs, room, when)
  BY Zenon, <1>6
<1>8. Kept(s, txs, room, when) = jt[DOMAIN txs]
  BY Zenon DEF Kept, MapThenFoldSet, Max, KeepTable
<1> HIDE DEF jt
<1>9. SameStep(it, jt, 1..n, ch)
  <2>1. it[{}] = jt[{}]
    BY Zenon, <1>6, <1>7 DEF KeepTable
  <2>2. ASSUME NEW T \in SUBSET (1..n), T # {}, it[T \ {ch[T]}] = jt[T \ {ch[T]}]
        PROVE  it[T] = jt[T]
    <3>1. ch[T] = CHOOSE x \in T : \A y \in T : x >= y
      BY Zenon DEF Greatest
    <3>2. it[T] = Keep(s, it[T \ {ch[T]}], txs[ch[T]], room, when)
      BY Zenon, <1>1, <1>6, <2>2, <3>1 DEF KeepTable
    <3>3. jt[T] = Keep(s, jt[T \ {ch[T]}], txs[ch[T]], room, when)
      BY Zenon, <1>1, <1>7, <2>2, <3>1 DEF KeepTable
    <3> QED
      BY Zenon, <2>2, <3>2, <3>3
  <2> QED
    BY Zenon, <2>1, <2>2 DEF SameStep
<1>10. it[1..n] = jt[1..n]
  <2>1. IsFiniteSet(1..n)
    BY <1>1, FiniteInterval
  <2>2. 1..n \in SUBSET (1..n)
    BY Zenon
  <2> DEFINE D == 1..n
  <2>3. D \in SUBSET D /\ IsFiniteSet(D) /\ Chooses(ch, D) /\ SameStep(it, jt, D, ch)
    BY Zenon, <1>5, <1>9, <2>1, <2>2
  <2> HIDE DEF D, ch
  <2>4. \A T \in SUBSET D : it[T] = jt[T]
    BY <2>3, FoldUnique
  <2>5. it[D] = jt[D]
    BY Zenon, <2>3, <2>4
  <2> QED
    BY Zenon, <2>5 DEF D
<1> DEFINE r == [i \in 0..n |-> it[1..i]]
<1>11. r \in [0..n -> V] /\ r[0] = <<>> /\ \A i \in 1..n : r[i] = G[i][r[i - 1]]
  BY Zenon, <1>4 DEF Runs
<1>12. r[n] = it[1..n]
  BY <1>1
<1> HIDE DEF r
<1>13. \A i \in 1..n : r[i] = Keep(s, r[i - 1], txs[i], room, when)
  <2> TAKE i \in 1..n
  <2>1. i - 1 \in 0..n
    BY <1>1
  <2>2. r[i - 1] \in V /\ r[i] = G[i][r[i - 1]]
    BY Zenon, <1>11, <2>1
  <2> QED
    BY Zenon, <2>2
<1>14. KeepRun(r, s, txs, room, when)
  BY Zenon, <1>11, <1>13 DEF KeepRun
<1>15. Kept(s, txs, room, when) = r[Len(txs)]
  BY Zenon, <1>1, <1>8, <1>10, <1>12
<1> HIDE DEF n, V, G, ch
<1> QED
  BY Zenon, <1>14, <1>15

LEMMA AppendSets ==
    ASSUME NEW q \in Seq(Tx), NEW t \in Tx
    PROVE  /\ Append(q, t) \in Seq(Tx) /\ Len(Append(q, t)) = Len(q) + 1
           /\ \A i \in 1..Len(q) : Append(q, t)[i] = q[i]
           /\ Append(q, t)[Len(q) + 1] = t
           /\ Range(q) = First(q, Len(q))
           /\ Range(Append(q, t)) = Range(q) \cup {t}
           /\ \A i \in 1..(Len(q) + 1) : First(Append(q, t), i - 1) = First(q, i - 1)
<1> DEFINE p == Append(q, t)
<1>1. /\ p \in Seq(Tx) /\ Len(p) = Len(q) + 1 /\ Len(q) \in Nat
      /\ DOMAIN p = 1..(Len(q) + 1) /\ DOMAIN q = 1..Len(q)
      /\ \A i \in 1..Len(q) : p[i] = q[i]
      /\ p[Len(q) + 1] = t
  OBVIOUS
<1> HIDE DEF p
<1>2. Range(q) = First(q, Len(q))
  BY Zenon, <1>1 DEF Range, First
<1>3. Range(p) = Range(q) \cup {t}
  <2>1. 1..(Len(q) + 1) = (1..Len(q)) \cup {Len(q) + 1}
    BY <1>1
  <2>2. Range(p) = {p[i] : i \in (1..Len(q)) \cup {Len(q) + 1}}
    BY Zenon, <1>1, <2>1 DEF Range
  <2>3. Range(q) = {q[i] : i \in 1..Len(q)}
    BY Zenon, <1>1 DEF Range
  <2> QED
    BY Zenon, <2>2, <2>3, <1>1
<1>4. ASSUME NEW i \in 1..(Len(q) + 1) PROVE First(p, i - 1) = First(q, i - 1)
  <2>1. \A j \in 1..(i - 1) : p[j] = q[j]
    BY <1>1
  <2> QED
    BY Zenon, <2>1 DEF First
<1> QED
  BY Zenon, <1>1, <1>2, <1>3, <1>4 DEF p

LEMMA WithFields ==
    ASSUME NEW s \in State, NEW T \in SUBSET Tx
    PROVE  /\ With(s, T) \in State
           /\ With(s, T).num = s.num /\ With(s, T).time = s.time /\ With(s, T).tags = s.tags
           /\ With(s, T).known = s.known \cup T
           /\ With(s, T).done = s.done \cup T
BY Zenon DEF With, State

\* What is kept applies in its order and is among what was offered.
LEMMA RunGood ==
    ASSUME NEW s, NEW txs \in Seq(Tx), NEW room \in Nat, NEW when,
           NEW r, KeepRun(r, s, txs, room, when)
    PROVE  \A i \in 0..Len(txs) : /\ r[i] \in Seq(Tx)
                                  /\ Len(r[i]) <= i /\ Len(r[i]) <= room
                                  /\ AllApply(s, r[i])
                                  /\ Range(r[i]) \subseteq First(txs, i)
<1> DEFINE Good(i) == /\ r[i] \in Seq(Tx)
                      /\ Len(r[i]) <= i /\ Len(r[i]) <= room
                      /\ AllApply(s, r[i])
                      /\ Range(r[i]) \subseteq First(txs, i)
           n == Len(txs)
           P == {i \in 0..n : Good(i)}
<1>1. n \in Nat /\ \A i \in 1..n : txs[i] \in Tx
  OBVIOUS
<1>2. Good(0)
  <2>1. r[0] = <<>>
    BY Zenon DEF KeepRun
  <2>2. Range(<<>>) = {}
    BY DEF Range
  <2> QED
    BY <2>1, <2>2 DEF AllApply
<1>3. ASSUME NEW i \in 1..n, Good(i - 1) PROVE Good(i)
  <2> DEFINE q == r[i - 1]
             t == txs[i]
  <2>1. /\ q \in Seq(Tx) /\ Len(q) \in Nat /\ Len(q) <= i - 1 /\ Len(q) <= room
        /\ AllApply(s, q) /\ Range(q) \subseteq First(txs, i - 1)
    BY <1>3
  <2>2. t \in Tx /\ First(txs, i - 1) \cup {t} \subseteq First(txs, i)
    BY <1>1 DEF First
  <2>3. r[i] = Keep(s, q, t, room, when)
    BY Zenon DEF KeepRun
  <2> HIDE DEF q, t
  <2>4. CASE r[i] = q
    BY <2>1, <2>2, <2>4, <1>1
  <2>5. CASE r[i] = Append(q, t) /\ Len(q) < room /\ Applies(With(s, Range(q)), t, TRUE)
    <3> DEFINE p == Append(q, t)
    <3>1. /\ p \in Seq(Tx) /\ Len(p) = Len(q) + 1
          /\ \A j \in 1..Len(q) : p[j] = q[j]
          /\ p[Len(q) + 1] = t
          /\ Range(q) = First(q, Len(q))
          /\ Range(p) = Range(q) \cup {t}
          /\ \A j \in 1..(Len(q) + 1) : First(p, j - 1) = First(q, j - 1)
      BY Zenon, <2>1, <2>2, AppendSets
    <3> HIDE DEF p
    <3>2. ASSUME NEW j \in 1..Len(p)
          PROVE  Applies(With(s, First(p, j - 1)), p[j], TRUE)
      <4>1. CASE j \in 1..Len(q)
        <5>1. Applies(With(s, First(q, j - 1)), q[j], TRUE)
          BY Zenon, <2>1, <4>1 DEF AllApply
        <5>2. First(p, j - 1) = First(q, j - 1) /\ p[j] = q[j]
          BY Zenon, <3>1, <2>1, <4>1
        <5> QED
          BY Zenon, <5>1, <5>2
      <4>2. CASE j = Len(q) + 1
        <5>1. j - 1 = Len(q) /\ j \in 1..(Len(q) + 1)
          BY <4>2, <2>1
        <5>2. First(p, j - 1) = Range(q) /\ p[j] = t
          BY Zenon, <3>1, <4>2, <5>1
        <5> QED
          BY Zenon, <2>5, <5>2
      <4>3. j \in 1..Len(q) \/ j = Len(q) + 1
        BY <3>1, <2>1
      <4> QED
        BY Zenon, <4>1, <4>2, <4>3
    <3>3. AllApply(s, p)
      BY Zenon, <3>2 DEF AllApply
    <3>4. Len(p) <= i /\ Len(p) <= room
      BY <3>1, <2>1, <2>5
    <3> QED
      BY Zenon, <3>1, <3>3, <3>4, <2>1, <2>2, <2>5 DEF p
  <2> QED
    BY Zenon, <2>3, <2>4, <2>5 DEF Keep
<1>4. P = 0..n
  <2>1. P \in SUBSET (0..n) /\ 0 \in P /\ \A i \in 1..n : i - 1 \in P => i \in P
    BY <1>1, <1>2, <1>3
  <2> HIDE DEF P, n
  <2> QED
    BY Zenon, <2>1, <1>1, InductionUpTo
<1> QED
  BY Zenon, <1>4

\* What is kept stays kept.
LEMMA RunGrows ==
    ASSUME NEW s, NEW txs \in Seq(Tx), NEW room \in Nat, NEW when,
           NEW r, KeepRun(r, s, txs, room, when), NEW i \in 0..Len(txs), NEW j \in i..Len(txs)
    PROVE  Range(r[i]) \subseteq Range(r[j])
<1> DEFINE n == Len(txs)
           P == {k \in 0..n : i <= k => Range(r[i]) \subseteq Range(r[k])}
<1>1. n \in Nat /\ \A k \in 1..n : txs[k] \in Tx
  OBVIOUS
<1>2. \A k \in 1..n : Range(r[k - 1]) \subseteq Range(r[k])
  <2> TAKE k \in 1..n
  <2>1. r[k] = Keep(s, r[k - 1], txs[k], room, when)
    BY Zenon DEF KeepRun
  <2>2. r[k - 1] \in Seq(Tx) /\ txs[k] \in Tx
    <3>1. k - 1 \in 0..Len(txs) /\ txs[k] \in Tx
      BY <1>1
    <3> QED
      BY Zenon, <3>1 DEF KeepRun
  <2>3. Range(Append(r[k - 1], txs[k])) = Range(r[k - 1]) \cup {txs[k]}
    BY Zenon, <2>2, AppendSets
  <2> QED
    BY Zenon, <2>1, <2>3 DEF Keep
<1>3. P \in SUBSET (0..n) /\ 0 \in P /\ \A k \in 1..n : k - 1 \in P => k \in P
  <2>1. 0 \in P
    BY <1>1
  <2>2. ASSUME NEW k \in 1..n, k - 1 \in P PROVE k \in P
    <3>1. CASE i = k
      BY Zenon, <3>1
    <3>2. CASE i <= k - 1
      BY <3>2, <2>2, <1>2
    <3> QED
      BY <3>1, <3>2
  <2> QED
    BY Zenon, <2>1, <2>2
<1> HIDE DEF P, n
<1>4. P = 0..n
  BY Zenon, <1>1, <1>3, InductionUpTo
<1>5. j \in P /\ i <= j
  BY <1>4 DEF n
<1> QED
  BY Zenon, <1>5 DEF P

\* What is kept applied when it was offered.
LEMMA RunFrom ==
    ASSUME NEW s, NEW txs \in Seq(Tx), NEW room \in Nat, NEW when,
           NEW r, KeepRun(r, s, txs, room, when),
           NEW i \in 0..Len(txs), NEW u \in Range(r[i])
    PROVE  \E j \in 1..i : txs[j] = u /\ Applies(With(s, Range(r[j - 1])), u, TRUE)
<1> DEFINE n == Len(txs)
           From(k) == \E j \in 1..k : txs[j] = u /\ Applies(With(s, Range(r[j - 1])), u, TRUE)
           P == {k \in 0..n : u \in Range(r[k]) => From(k)}
<1>1. n \in Nat /\ \A k \in 1..n : txs[k] \in Tx
  OBVIOUS
<1>2. 0 \in P
  <2>1. r[0] = <<>>
    BY Zenon DEF KeepRun
  <2>2. Range(<<>>) = {}
    BY DEF Range
  <2>3. u \notin Range(r[0]) /\ 0 \in 0..n
    BY <1>1, <2>1, <2>2
  <2> HIDE DEF From
  <2> QED
    BY Zenon, <2>3
<1>3. ASSUME NEW k \in 1..n, k - 1 \in P PROVE k \in P
  <2> HIDE DEF From
  <2> SUFFICES ASSUME u \in Range(r[k]) PROVE From(k)
    OBVIOUS
  <2>1. r[k] = Keep(s, r[k - 1], txs[k], room, when)
    BY Zenon DEF KeepRun
  <2>2. r[k - 1] \in Seq(Tx) /\ txs[k] \in Tx
    <3>1. k - 1 \in 0..Len(txs) /\ txs[k] \in Tx
      BY <1>1
    <3> QED
      BY Zenon, <3>1 DEF KeepRun
  <2>3. Range(Append(r[k - 1], txs[k])) = Range(r[k - 1]) \cup {txs[k]}
    BY Zenon, <2>2, AppendSets
  <2>4. CASE u \in Range(r[k - 1])
    <3>1. From(k - 1)
      BY Zenon, <1>3, <2>4
    <3>2. PICK j \in 1..(k - 1) : txs[j] = u /\ Applies(With(s, Range(r[j - 1])), u, TRUE)
      BY Zenon, <3>1 DEF From
    <3>3. j \in 1..k
      OBVIOUS
    <3> QED
      BY Zenon, <3>2, <3>3 DEF From
  <2>5. CASE u \notin Range(r[k - 1])
    <3>1. u = txs[k] /\ Applies(With(s, Range(r[k - 1])), txs[k], TRUE)
      BY Zenon, <2>1, <2>3, <2>5 DEF Keep
    <3>2. k \in 1..k
      OBVIOUS
    <3> QED
      BY Zenon, <3>1, <3>2 DEF From
  <2> QED
    BY Zenon, <2>4, <2>5
<1>4. P \in SUBSET (0..n)
  BY Zenon
<1> HIDE DEF P, n
<1>5. P = 0..n
  BY Zenon, <1>1, <1>2, <1>3, <1>4, InductionUpTo
<1>6. i \in P
  BY Zenon, <1>5 DEF n
<1> QED
  BY Zenon, <1>6 DEF P

\* Applying is easier with fewer transactions before, but for what is needed.
LEMMA AppliesLess ==
    ASSUME NEW s \in State, NEW K \in SUBSET Tx, NEW L \in SUBSET Tx, K \subseteq L,
           NEW t \in Tx, Applies(With(s, L), t, TRUE), needs[t] \subseteq s.done \cup K
    PROVE  Applies(With(s, K), t, TRUE)
<1>1. /\ t \notin s.known \cup L
      /\ s.num > 0 => /\ expiration[t] <= s.time + MaxUntil /\ s.time < expiration[t]
                      /\ ref[t] \subseteq s.tags
      /\ rivals[t] \cap (s.done \cup L) = {}
  BY WithFields DEF Applies, InTime, RefersToChain, Executes
<1>2. t \notin s.known \cup K /\ rivals[t] \cap (s.done \cup K) = {}
  BY Zenon, <1>1
<1> QED
  BY <1>1, <1>2, WithFields DEF Applies, InTime, RefersToChain, Executes

\* Each transaction comes after those it needs, or these are in D.
Ordered(q, D) == \A i \in 1..Len(q) : needs[q[i]] \subseteq D \cup First(q, i - 1)

LEMMA KeptGood ==
    ASSUME NEW s, NEW txs \in Seq(Tx), NEW room \in Nat, NEW when
    PROVE  /\ Kept(s, txs, room, when) \in Seq(Tx)
           /\ Len(Kept(s, txs, room, when)) <= room
           /\ AllApply(s, Kept(s, txs, room, when))
           /\ Range(Kept(s, txs, room, when)) \subseteq Range(txs)
<1>1. PICK r : KeepRun(r, s, txs, room, when) /\ Kept(s, txs, room, when) = r[Len(txs)]
  BY Zenon, KeptRuns
<1>2. Len(txs) \in 0..Len(txs) /\ Range(txs) = First(txs, Len(txs))
  BY DEF Range, First
<1>3. /\ r[Len(txs)] \in Seq(Tx)
      /\ Len(r[Len(txs)]) <= room
      /\ AllApply(s, r[Len(txs)])
      /\ Range(r[Len(txs)]) \subseteq First(txs, Len(txs))
  BY Zenon, <1>1, <1>2, RunGood
<1> QED
  BY Zenon, <1>1, <1>2, <1>3

(***************************************************************************)
(* What the restorer drops does not apply after what it keeps.  A needed    *)
(* transaction that is kept was offered earlier, and kept then: had it been *)
(* refused for want of another, this one would have been kept too late as   *)
(* well, and so on down to the first.                                       *)
(***************************************************************************)
LEMMA KeptAll ==
    ASSUME NEW s \in State, NEW q \in Seq(Tx), Ordered(q, s.done),
           NEW t \in Range(q), t \notin Range(Kept(s, q, Len(q), 0))
    PROVE  ~Applies(With(s, Range(Kept(s, q, Len(q), 0))), t, TRUE)
<1> DEFINE n == Len(q)
<1>1. n \in Nat /\ (\A i \in 1..n : q[i] \in Tx) /\ DOMAIN q = 1..n
  OBVIOUS
<1>2. PICK r : KeepRun(r, s, q, n, 0) /\ Kept(s, q, n, 0) = r[n]
  BY Zenon, <1>1, KeptRuns
<1> DEFINE K == [i \in 0..n |-> Range(r[i])]
<1>3. \A i \in 0..n : r[i] \in Seq(Tx) /\ Len(r[i]) <= i
  BY Zenon, <1>1, <1>2, RunGood
<1>4. \A i \in 0..n : K[i] \in SUBSET Tx /\ K[i] = Range(r[i])
  <2> TAKE i \in 0..n
  <2>1. r[i] \in Seq(Tx)
    BY Zenon, <1>3
  <2>2. Range(r[i]) \in SUBSET Tx
    BY <2>1 DEF Range
  <2> QED
    BY Zenon, <2>2
<1>5. \A i, j \in 0..n : i <= j => K[i] \subseteq K[j]
  <2> TAKE i, j \in 0..n
  <2> HAVE i <= j
  <2>1. j \in i..n
    BY <1>1
  <2>2. Range(r[i]) \subseteq Range(r[j])
    BY Zenon, <1>1, <1>2, <2>1, RunGrows
  <2> QED
    BY Zenon, <1>4, <2>2
<1> HIDE DEF K
<1>6. \A i \in 1..n : Applies(With(s, K[i - 1]), q[i], TRUE) => q[i] \in K[i]
  <2> SUFFICES ASSUME NEW i \in 1..n, Applies(With(s, K[i - 1]), q[i], TRUE) PROVE q[i] \in K[i]
    BY Zenon
  <2>1. i - 1 \in 0..n /\ i \in 0..n /\ q[i] \in Tx
    BY <1>1
  <2>2. r[i] = Keep(s, r[i - 1], q[i], n, 0)
    BY Zenon, <1>2 DEF KeepRun
  <2>3. r[i - 1] \in Seq(Tx) /\ Len(r[i - 1]) \in Nat /\ Len(r[i - 1]) <= i - 1
    BY <1>3, <2>1
  <2>4. Len(r[i - 1]) < n /\ expiration[q[i]] >= 0
    BY <1>1, <2>1, <2>3, TxAssumption
  <2>5. r[i] = Append(r[i - 1], q[i])
    BY Zenon, <1>4, <2>1, <2>2, <2>4 DEF Keep
  <2>6. Range(Append(r[i - 1], q[i])) = Range(r[i - 1]) \cup {q[i]}
    BY Zenon, <2>1, <2>3, AppendSets
  <2> QED
    BY Zenon, <1>4, <2>1, <2>5, <2>6
<1>7. \A u \in K[n] : \E j \in 1..n : q[j] = u /\ Applies(With(s, K[j - 1]), u, TRUE)
  <2> SUFFICES ASSUME NEW u \in K[n]
               PROVE  \E j \in 1..n : q[j] = u /\ Applies(With(s, K[j - 1]), u, TRUE)
    BY Zenon
  <2>1. n \in 0..Len(q) /\ u \in Range(r[n])
    BY <1>1, <1>4
  <2>2. PICK j \in 1..n : q[j] = u /\ Applies(With(s, Range(r[j - 1])), u, TRUE)
    BY Zenon, <1>1, <1>2, <2>1, RunFrom
  <2>3. j - 1 \in 0..n
    BY <1>1
  <2> QED
    BY Zenon, <1>4, <2>2, <2>3
<1> DEFINE P == {i \in 1..n : needs[q[i]] \subseteq s.done \cup K[n]
                                => needs[q[i]] \subseteq s.done \cup K[i - 1]}
<1>8. ASSUME NEW i \in 1..n, \A m \in 1..(i - 1) : m \in P
      PROVE  i \in P
  <2> SUFFICES ASSUME needs[q[i]] \subseteq s.done \cup K[n],
                      NEW u \in needs[q[i]], u \notin s.done
               PROVE  u \in K[i - 1]
    BY Zenon
  <2>1. u \in K[n]
    BY Zenon
  <2>2. u \in First(q, i - 1)
    BY Zenon DEF Ordered
  <2>3. PICK m \in 1..(i - 1) : q[m] = u
    BY Zenon, <2>2 DEF First
  <2>4. PICK j \in 1..n : q[j] = u /\ Applies(With(s, K[j - 1]), u, TRUE)
    BY Zenon, <1>7, <2>1
  <2>5. m \in 1..n /\ m \in 0..n /\ m - 1 \in 0..n /\ j - 1 \in 0..n /\ j \in 0..n /\ n \in 0..n /\ i - 1 \in 0..n
    BY <1>1
  <2>6. CASE j <= i - 1
    <3>1. u \in K[j]
      BY Zenon, <1>6, <2>4
    <3> QED
      BY Zenon, <3>1, <1>5, <2>5, <2>6
  <2>7. CASE i - 1 < j
    <3>1. K[m - 1] \subseteq K[j - 1] /\ K[j - 1] \subseteq K[n] /\ K[m] \subseteq K[i - 1]
      BY <1>1, <1>5, <2>5, <2>7
    <3>2. K[m - 1] \in SUBSET Tx /\ K[j - 1] \in SUBSET Tx /\ u \in Tx
      BY Zenon, <1>1, <1>4, <2>4, <2>5
    <3>3. needs[u] \subseteq s.done \cup K[j - 1]
      BY <2>4, <3>2, WithFields DEF Applies, Executes
    <3>4. needs[u] \subseteq s.done \cup K[m - 1]
      BY Zenon, <1>8, <2>3, <3>1, <3>3
    <3>5. Applies(With(s, K[m - 1]), u, TRUE)
      BY Zenon, <2>4, <3>1, <3>2, <3>4, AppliesLess
    <3>6. u \in K[m]
      BY Zenon, <1>6, <2>3, <2>5, <3>5
    <3> QED
      BY Zenon, <3>1, <3>6
  <2> QED
    BY <2>5, <2>6, <2>7
<1> HIDE DEF P
<1>9. \A i \in 1..n : i \in P
  <2> HIDE DEF n
  <2> QED
    BY Zenon, <1>1, <1>8, StrongUpTo
<1>9a. K[n] = Range(Kept(s, q, Len(q), 0))
  <2>1. n \in 0..n
    BY <1>1
  <2> QED
    BY Zenon, <1>2, <1>4, <2>1
<1> SUFFICES ASSUME Applies(With(s, K[n]), t, TRUE) PROVE FALSE
  BY Zenon, <1>9a
<1>10. PICK i \in 1..n : q[i] = t
  BY Zenon, <1>1 DEF Range
<1>11. i - 1 \in 0..n /\ n \in 0..n /\ i \in 0..n
  BY <1>1
<1>12. K[i - 1] \subseteq K[n] /\ K[i] \subseteq K[n] /\ t \in Tx
  BY <1>1, <1>5, <1>10, <1>11
<1>13. needs[t] \subseteq s.done \cup K[n]
  BY <1>4, <1>11, WithFields DEF Applies, Executes
<1>14. needs[t] \subseteq s.done \cup K[i - 1]
  BY Zenon, <1>9, <1>10, <1>13 DEF P
<1>15. Applies(With(s, K[i - 1]), t, TRUE)
  BY Zenon, <1>4, <1>11, <1>12, <1>14, AppliesLess
<1>16. t \in K[n]
  BY Zenon, <1>6, <1>10, <1>12, <1>15
<1> QED
  BY Zenon, <1>2, <1>4, <1>11, <1>16

-----------------------------------------------------------------------------
(***************************************************************************)
(* The order of the transactions on a chain and of those undone with it.    *)
(***************************************************************************)
LEMMA ConcatSets ==
    ASSUME NEW p \in Seq(Tx), NEW q \in Seq(Tx)
    PROVE  /\ p \o q \in Seq(Tx) /\ Len(p \o q) = Len(p) + Len(q)
           /\ Range(p) \subseteq Tx
           /\ Range(p \o q) = Range(p) \cup Range(q)
<1> DEFINE c == p \o q
<1>1. /\ c \in Seq(Tx) /\ Len(c) = Len(p) + Len(q)
      /\ Len(p) \in Nat /\ Len(q) \in Nat
      /\ DOMAIN p = 1..Len(p) /\ DOMAIN q = 1..Len(q) /\ DOMAIN c = 1..Len(c)
      /\ \A i \in 1..Len(p) : c[i] = p[i] /\ p[i] \in Tx
      /\ \A i \in 1..Len(c) : i > Len(p) => c[i] = q[i - Len(p)]
  OBVIOUS
<1> HIDE DEF c
<1>2. ASSUME NEW x \in Range(c) PROVE x \in Range(p) \cup Range(q)
  <2>1. PICK i \in 1..Len(c) : x = c[i]
    BY Zenon, <1>1 DEF Range
  <2>2. i \in 1..Len(p) \/ (i > Len(p) /\ i - Len(p) \in 1..Len(q))
    BY <1>1
  <2> QED
    BY Zenon, <1>1, <2>1, <2>2 DEF Range
<1>3. ASSUME NEW x \in Range(p) PROVE x \in Range(c)
  <2>1. PICK i \in 1..Len(p) : x = p[i]
    BY Zenon, <1>1 DEF Range
  <2>2. i \in 1..Len(c)
    BY <1>1
  <2> QED
    BY Zenon, <1>1, <2>1, <2>2 DEF Range
<1>4. ASSUME NEW x \in Range(q) PROVE x \in Range(c)
  <2>1. PICK i \in 1..Len(q) : x = q[i]
    BY Zenon, <1>1 DEF Range
  <2> DEFINE j == i + Len(p)
  <2>2. j \in 1..Len(c) /\ j > Len(p) /\ j - Len(p) = i
    BY <1>1
  <2> HIDE DEF j
  <2>3. c[j] = x
    BY Zenon, <1>1, <2>1, <2>2
  <2> QED
    BY Zenon, <1>1, <2>2, <2>3 DEF Range
<1>5. Range(p) \subseteq Tx
  BY Zenon, <1>1 DEF Range
<1>6. Range(c) = Range(p) \cup Range(q)
  BY Zenon, <1>2, <1>3, <1>4
<1> QED
  BY Zenon, <1>1, <1>5, <1>6 DEF c

LEMMA ConcatOrdered ==
    ASSUME NEW p \in Seq(Tx), NEW q \in Seq(Tx), NEW D,
           Ordered(p, D), Ordered(q, D \cup Range(p))
    PROVE  Ordered(p \o q, D)
<1> DEFINE c == p \o q
<1>1. /\ Len(c) = Len(p) + Len(q)
      /\ Len(p) \in Nat /\ Len(q) \in Nat
      /\ DOMAIN p = 1..Len(p)
      /\ \A i \in 1..Len(p) : c[i] = p[i]
      /\ \A i \in 1..Len(q) : c[Len(p) + i] = q[i]
  OBVIOUS
<1> HIDE DEF c
<1> SUFFICES ASSUME NEW i \in 1..Len(c)
             PROVE  needs[c[i]] \subseteq D \cup First(c, i - 1)
  BY Zenon DEF Ordered, c
<1>2. CASE i \in 1..Len(p)
  <2>1. c[i] = p[i] /\ \A j \in 1..(i - 1) : c[j] = p[j]
    BY <1>1, <1>2
  <2>2. First(c, i - 1) = First(p, i - 1)
    BY Zenon, <2>1 DEF First
  <2> QED
    BY Zenon, <1>2, <2>1, <2>2 DEF Ordered
<1>3. CASE i > Len(p)
  <2> DEFINE k == i - Len(p)
  <2>1. k \in 1..Len(q) /\ Len(p) + k = i
    BY <1>1, <1>3
  <2> HIDE DEF k
  <2>2. c[i] = q[k]
    BY Zenon, <1>1, <2>1
  <2>3. needs[q[k]] \subseteq D \cup Range(p) \cup First(q, k - 1)
    BY Zenon, <2>1 DEF Ordered
  <2>4. Range(p) \subseteq First(c, i - 1)
    <3>1. \A j \in 1..Len(p) : j \in 1..(i - 1) /\ c[j] = p[j]
      BY <1>1, <1>3
    <3> QED
      BY Zenon, <1>1, <3>1 DEF Range, First
  <2>5. First(q, k - 1) \subseteq First(c, i - 1)
    <3>1. \A j \in 1..(k - 1) : Len(p) + j \in 1..(i - 1) /\ c[Len(p) + j] = q[j]
      BY <1>1, <2>1
    <3> QED
      BY Zenon, <3>1 DEF First
  <2> QED
    BY Zenon, <2>2, <2>3, <2>4, <2>5
<1> QED
  BY <1>1, <1>2, <1>3

LEMMA OrderedMore ==
    ASSUME NEW q, NEW D, NEW E, Ordered(q, D), D \subseteq E
    PROVE  Ordered(q, E)
BY Zenon DEF Ordered

\* What applies one after the other is in order.
LEMMA AppliedOrdered ==
    ASSUME NEW s \in State, NEW q \in Seq(Tx), AllApply(s, q)
    PROVE  Ordered(q, s.done)
<1> SUFFICES ASSUME NEW i \in 1..Len(q)
             PROVE  needs[q[i]] \subseteq s.done \cup First(q, i - 1)
  BY Zenon DEF Ordered
<1>1. First(q, i - 1) \in SUBSET Tx
  BY DEF First
<1>2. Applies(With(s, First(q, i - 1)), q[i], TRUE)
  BY Zenon DEF AllApply
<1> QED
  BY Zenon, <1>1, <1>2, WithFields DEF Applies, Executes

DoneBefore(c, n) == IF n = 1 THEN {} ELSE c[n - 1].state.done

\* A chain has the effects of its transactions and each of them comes after
\* those it needs.
Grounded(c) ==
    \A n \in 1..Len(c) : /\ c[n].state.done = DoneBefore(c, n) \cup Range(c[n].txs)
                         /\ Ordered(c[n].txs, DoneBefore(c, n))

LEMMA PrefixGrounded ==
    ASSUME NEW c \in Seq(Block), Grounded(c), NEW k \in 0..Len(c)
    PROVE  Grounded(SubSeq(c, 1, Len(c) - k))
<1> DEFINE d == SubSeq(c, 1, Len(c) - k)
<1>1. /\ Len(d) = Len(c) - k
      /\ \A n \in 1..Len(d) : n \in 1..Len(c) /\ d[n] = c[n]
  OBVIOUS
<1> HIDE DEF d
<1>2. ASSUME NEW n \in 1..Len(d)
      PROVE  /\ d[n].state.done = DoneBefore(d, n) \cup Range(d[n].txs)
             /\ Ordered(d[n].txs, DoneBefore(d, n))
  <2>1. n = 1 \/ n - 1 \in 1..Len(d)
    BY <1>1
  <2>2. DoneBefore(d, n) = DoneBefore(c, n)
    BY Zenon, <1>1, <2>1 DEF DoneBefore
  <2> QED
    BY Zenon, <1>1, <2>2 DEF Grounded
<1> QED
  BY Zenon, <1>2 DEF Grounded, d

LEMMA StateAtDone ==
    ASSUME NEW c \in Seq(Block)
    PROVE  StateAt(c).done = DoneBefore(c, Len(c) + 1)
BY DEF StateAt, Genesis, DoneBefore

LEMMA ExtendGrounded ==
    ASSUME NEW c, Clean(c), Grounded(c), NEW now \in Nat, NEW txs, NEW tag \in Tag,
           BlockApplies(c, now, txs)
    PROVE  Grounded(Extend(c, now, txs, tag))
<1> DEFINE s == StateAt(c)
           b == [txs |-> txs, state |-> AfterBlock(s, now, txs, tag)]
           d == Append(c, b)
<1>1. c \in Seq(Block) /\ txs \in Seq(Tx) /\ AllApply(s, txs)
  BY Zenon DEF BlockApplies, Clean
<1>2. s \in State
  BY Zenon, <1>1, StateAtType
<1>3. b \in Block
  BY Zenon, <1>1, <1>2, AfterBlockType DEF Block
<1>4. Range(txs) = First(txs, Len(txs))
  BY <1>1 DEF Range, First
<1>5. b.txs = txs /\ b.state.done = s.done \cup Range(txs)
  BY Zenon, <1>4 DEF AfterBlock
<1>6. s.done = DoneBefore(c, Len(c) + 1)
  BY Zenon, <1>1, StateAtDone
<1>7. Ordered(txs, s.done)
  BY Zenon, <1>1, <1>2, AppliedOrdered
<1> HIDE DEF s, b
<1>8. /\ Len(d) = Len(c) + 1 /\ Len(c) \in Nat
      /\ \A n \in 1..Len(c) : d[n] = c[n]
      /\ d[Len(c) + 1] = b
  BY <1>1, <1>3
<1>9. d = Extend(c, now, txs, tag)
  BY Zenon DEF Extend, b, s
<1> HIDE DEF d
<1>10. \A n \in 1..(Len(c) + 1) : DoneBefore(d, n) = DoneBefore(c, n)
  <2> TAKE n \in 1..(Len(c) + 1)
  <2>1. n = 1 \/ n - 1 \in 1..Len(c)
    BY <1>8
  <2> QED
    BY Zenon, <1>8, <2>1 DEF DoneBefore
<1>11. ASSUME NEW n \in 1..Len(d)
       PROVE  /\ d[n].state.done = DoneBefore(d, n) \cup Range(d[n].txs)
              /\ Ordered(d[n].txs, DoneBefore(d, n))
  <2>1. CASE n \in 1..Len(c)
    <3>1. DoneBefore(d, n) = DoneBefore(c, n) /\ d[n] = c[n]
      BY Zenon, <1>8, <1>10, <2>1
    <3> QED
      BY Zenon, <2>1, <3>1 DEF Grounded
  <2>2. CASE n = Len(c) + 1
    <3>1. DoneBefore(d, n) = s.done /\ d[n] = b
      BY Zenon, <1>6, <1>8, <1>10, <2>2
    <3> QED
      BY Zenon, <3>1, <1>5, <1>7
  <2> QED
    BY <1>8, <2>1, <2>2
<1> QED
  BY Zenon, <1>9, <1>11 DEF Grounded

LEMMA EmptyBlocksGrounded ==
    ASSUME NEW c, Clean(c), Grounded(c), NEW n \in Nat, NEW tag \in Tag
    PROVE  /\ Grounded(EmptyBlocks(c, n, tag))
           /\ Len(EmptyBlocks(c, n, tag)) = Len(c) + n
           /\ \A i \in 1..Len(c) : EmptyBlocks(c, n, tag)[i] = c[i]
<1> DEFINE s == StateAt(c)
           r(i) == [num   |-> s.num + i,
                    time  |-> s.time + i,
                    known |-> ClearExpired(s.known, s.time + i),
                    done  |-> s.done,
                    tags  |-> s.tags \cup {tag}]
           e == [i \in 1..n |-> [txs |-> <<>>, state |-> r(i)]]
           d == c \o e
<1>1. c \in Seq(Block) /\ Len(c) \in Nat
  BY DEF Clean
<1>2. d = EmptyBlocks(c, n, tag)
  BY Zenon DEF EmptyBlocks
<1>3. \A i \in 1..n : e[i].txs = <<>> /\ e[i].state.done = s.done
  BY Zenon
<1>4. e \in Seq(Block) /\ Len(e) = n
  <2>1. s \in State
    BY Zenon, <1>1, StateAtType
  <2>2. ASSUME NEW i \in 1..n
        PROVE  [txs |-> <<>>, state |-> r(i)] \in Block
    <3>1. r(i) \in State
      BY <2>1 DEF State, ClearExpired
    <3> HIDE DEF r
    <3> QED
      BY <3>1 DEF Block
  <2> QED
    BY <2>2
<1>5. s.done = DoneBefore(c, Len(c) + 1)
  BY Zenon, <1>1, StateAtDone
<1> HIDE DEF e, s
<1>6. /\ Len(d) = Len(c) + n
      /\ \A k \in 1..Len(c) : d[k] = c[k]
      /\ \A k \in 1..Len(d) : k > Len(c) => k - Len(c) \in 1..n /\ d[k] = e[k - Len(c)]
  BY <1>1, <1>4
<1> HIDE DEF d
<1>7. \A k \in 1..Len(d) : k > Len(c) => d[k].txs = <<>> /\ d[k].state.done = s.done
  BY Zenon, <1>3, <1>6
<1>8. ASSUME NEW k \in 1..Len(d)
      PROVE  /\ d[k].state.done = DoneBefore(d, k) \cup Range(d[k].txs)
             /\ Ordered(d[k].txs, DoneBefore(d, k))
  <2>1. CASE k \in 1..Len(c)
    <3>1. k = 1 \/ k - 1 \in 1..Len(c)
      BY <1>1, <2>1
    <3>2. DoneBefore(d, k) = DoneBefore(c, k) /\ d[k] = c[k]
      BY Zenon, <1>6, <2>1, <3>1 DEF DoneBefore
    <3> QED
      BY Zenon, <2>1, <3>2 DEF Grounded
  <2>2. CASE k > Len(c)
    <3>1. d[k].txs = <<>> /\ d[k].state.done = s.done
      BY Zenon, <1>7, <2>2
    <3>2. DoneBefore(d, k) = s.done
      <4>1. CASE k = Len(c) + 1
        <5>1. k = 1 \/ k - 1 \in 1..Len(c)
          BY <1>1, <4>1
        <5> QED
          BY Zenon, <1>5, <1>6, <4>1, <5>1 DEF DoneBefore
      <4>2. CASE k > Len(c) + 1
        <5>1. k - 1 \in 1..Len(d) /\ k - 1 > Len(c) /\ k # 1
          BY <1>1, <4>2
        <5> QED
          BY Zenon, <1>7, <5>1 DEF DoneBefore
      <4> QED
        BY <1>1, <2>2, <4>1, <4>2
    <3>3. Range(<<>>) = {} /\ 1..Len(<<>>) = {}
      BY DEF Range
    <3> QED
      BY Zenon, <3>1, <3>2, <3>3 DEF Ordered
  <2> QED
    BY <1>1, <2>1, <2>2
<1> QED
  BY Zenon, <1>2, <1>6, <1>8 DEF Grounded

\* A branch has the chain it starts from, and its effects.
LEMMA BranchesGrounded ==
    ASSUME NEW c, Clean(c), Grounded(c), NEW n \in Nat \ {0}, NEW d \in Branches(c, n)
    PROVE  /\ Grounded(d) /\ Len(d) = Len(c) + n /\ Len(d) # 0
           /\ \A i \in 1..Len(c) : d[i] = c[i]
<1>1. StateAt(c).time \in Nat /\ c \in Seq(Block) /\ Len(c) \in Nat
  BY StateAtType DEF Clean, State
<1>2. PICK now \in {StateAt(c).time + 1, StateAt(c).time + 2}, txs \in Offered, tag \in Tag :
              /\ BlockApplies(c, now, txs)
              /\ d = EmptyBlocks(Extend(c, now, txs, tag), n - 1, tag)
  BY DEF Branches
<1> DEFINE e == Extend(c, now, txs, tag)
<1>3. now \in Nat /\ n - 1 \in Nat
  BY <1>1
<1>4. Clean(e) /\ Grounded(e)
  BY Zenon, <1>2, <1>3, ExtendClean, ExtendGrounded
<1>5. Len(e) = Len(c) + 1 /\ \A i \in 1..Len(c) : e[i] = c[i]
  BY <1>1 DEF Extend
<1> HIDE DEF e
<1>6. /\ Grounded(EmptyBlocks(e, n - 1, tag))
      /\ Len(EmptyBlocks(e, n - 1, tag)) = Len(e) + (n - 1)
      /\ \A i \in 1..Len(e) : EmptyBlocks(e, n - 1, tag)[i] = e[i]
  BY Zenon, <1>3, <1>4, EmptyBlocksGrounded
<1>7. d = EmptyBlocks(e, n - 1, tag)
  BY Zenon, <1>2 DEF e
<1> HIDE <1>2
<1>8. \A i \in 1..Len(c) : i \in 1..Len(e)
  BY <1>1, <1>5
<1> QED
  BY <1>1, <1>3, <1>5, <1>6, <1>7, <1>8

\* The effects of the first blocks of a chain stay.
LEMMA DoneGrows ==
    ASSUME NEW c \in Seq(Block), Grounded(c), NEW m \in 1..(Len(c) + 1),
           NEW n \in m..(Len(c) + 1)
    PROVE  DoneBefore(c, m) \subseteq DoneBefore(c, n)
<1> DEFINE l == Len(c) + 1
           P == {k \in 0..l : m <= k => DoneBefore(c, m) \subseteq DoneBefore(c, k)}
<1>1. l \in Nat /\ Len(c) \in Nat
  OBVIOUS
<1>2. P \in SUBSET (0..l) /\ 0 \in P
  BY <1>1
<1>3. ASSUME NEW k \in 1..l, k - 1 \in P PROVE k \in P
  <2>1. CASE m = k
    BY <2>1
  <2>2. CASE m <= k - 1
    <3>1. k - 1 \in 1..Len(c) /\ k # 1
      BY <1>1, <2>2
    <3>2. DoneBefore(c, k) = c[k - 1].state.done
      BY Zenon, <3>1 DEF DoneBefore
    <3>3. c[k - 1].state.done = DoneBefore(c, k - 1) \cup Range(c[k - 1].txs)
      BY Zenon, <3>1 DEF Grounded
    <3> QED
      BY <1>3, <2>2, <3>2, <3>3
  <2> QED
    BY <2>1, <2>2
<1> HIDE DEF P, l
<1>4. P = 0..l
  BY Zenon, <1>1, <1>2, <1>3, InductionUpTo
<1>5. n \in P /\ m <= n
  BY <1>4 DEF l
<1> QED
  BY Zenon, <1>5 DEF P

\* Joined, one sequence after the other.
FlatRun(f, seqs) ==
    /\ f \in [0..Len(seqs) -> Seq(Tx)]
    /\ f[0] = <<>>
    /\ \A i \in 1..Len(seqs) : f[i] = f[i - 1] \o seqs[i]

FlatTable(g, seqs) ==
    g = [i \in 0..Len(seqs) |-> IF i = 0 THEN <<>> ELSE g[i - 1] \o seqs[i]]

LEMMA FlattenRuns ==
    ASSUME NEW seqs \in Seq(Seq(Tx))
    PROVE  \E f : FlatRun(f, seqs) /\ Joined(seqs) = f[Len(seqs)]
<1> DEFINE n == Len(seqs)
           V == Seq(Tx)
           G == [i \in 1..n |-> [v \in V |-> v \o seqs[i]]]
<1>1. n \in Nat /\ \A i \in 1..n : seqs[i] \in V
  OBVIOUS
<1>2. G \in [1..n -> [V -> V]]
  <2>1. \A i \in 1..n, v \in V : v \o seqs[i] \in V
    BY <1>1
  <2> HIDE DEF V, n
  <2> QED
    BY Zenon, <2>1
<1>3. <<>> \in V
  OBVIOUS
<1>4. PICK f : Runs(f, n, V, <<>>, G)
  <2> HIDE DEF n, V, G
  <2> QED
    BY Zenon, <1>1, <1>2, <1>3, FoldRuns
<1>5. f \in [0..n -> V] /\ f[0] = <<>> /\ \A i \in 1..n : f[i] = G[i][f[i - 1]]
  BY Zenon, <1>4 DEF Runs
<1>6. \A i \in 1..n : f[i] = f[i - 1] \o seqs[i]
  <2> SUFFICES ASSUME NEW i \in 1..n PROVE f[i] = f[i - 1] \o seqs[i]
    BY Zenon
  <2>1. i - 1 \in 0..n
    BY <1>1
  <2>2. f[i - 1] \in V /\ f[i] = G[i][f[i - 1]]
    BY Zenon, <1>5, <2>1
  <2> QED
    BY Zenon, <2>2
<1>7. FlatRun(f, seqs)
  BY Zenon, <1>5, <1>6 DEF FlatRun
<1>8. Joined(seqs) = f[n]
  <2>1. FlatTable(f, seqs)
    <3>1. f = [i \in 0..n |-> f[i]]
      BY Zenon, <1>5
    <3>2. ASSUME NEW i \in 0..n
          PROVE  f[i] = IF i = 0 THEN <<>> ELSE f[i - 1] \o seqs[i]
      <4>1. i = 0 \/ i \in 1..n
        BY <1>1
      <4> QED
        BY Zenon, <1>5, <1>6, <4>1
    <3> QED
      BY Zenon, <3>1, <3>2 DEF FlatTable
  <2> DEFINE g == CHOOSE g : FlatTable(g, seqs)
  <2>2. FlatTable(g, seqs)
    BY Zenon, <2>1
  <2>3. Joined(seqs) = g[n]
    BY Zenon DEF Joined, FlatTable
  <2> HIDE DEF g
  <2> DEFINE P == {i \in 0..n : g[i] = f[i]}
  <2>4. P \in SUBSET (0..n) /\ 0 \in P
    <3>1. g[0] = <<>> /\ 0 \in 0..n
      BY <1>1, <2>2 DEF FlatTable
    <3> QED
      BY Zenon, <1>5, <3>1
  <2>5. ASSUME NEW i \in 1..n, i - 1 \in P PROVE i \in P
    <3>1. i \in 0..n /\ i # 0
      BY <1>1
    <3>2. g[i] = g[i - 1] \o seqs[i]
      BY Zenon, <2>2, <3>1 DEF FlatTable
    <3> QED
      BY Zenon, <1>6, <2>5, <3>1, <3>2
  <2> HIDE DEF P, n
  <2>6. P = 0..n
    BY Zenon, <1>1, <2>4, <2>5, InductionUpTo
  <2>7. n \in P
    BY <1>1, <2>6
  <2> QED
    BY Zenon, <2>3, <2>7 DEF P
<1> QED
  BY Zenon, <1>7, <1>8

(***************************************************************************)
(* The transactions of the last k blocks, in the order of the chain, lead   *)
(* from the effects below them to those at the head.                        *)
(***************************************************************************)
LEMMA PoppedOrdered ==
    ASSUME NEW c \in Seq(Block), Grounded(c), NEW k \in 0..Len(c), NEW q,
           q = Joined([n \in 1..k |-> c[Len(c) - k + n].txs])
    PROVE  /\ q \in Seq(Tx)
           /\ Ordered(q, DoneBefore(c, Len(c) - k + 1))
           /\ DoneBefore(c, Len(c) + 1) = DoneBefore(c, Len(c) - k + 1) \cup Range(q)
           /\ \A m \in (Len(c) - k + 1)..Len(c) : Range(c[m].txs) \subseteq Range(q)
<1> DEFINE b == Len(c) - k
           seqs == [n \in 1..k |-> c[b + n].txs]
           D == DoneBefore(c, b + 1)
<1>1. k \in Nat /\ b \in Nat /\ Len(c) \in Nat /\ b + k = Len(c)
  OBVIOUS
<1>2. \A n \in 1..k : b + n \in 1..Len(c)
  BY <1>1
<1>3. seqs \in Seq(Seq(Tx)) /\ Len(seqs) = k
  <2>1. ASSUME NEW n \in 1..k PROVE c[b + n].txs \in Seq(Tx)
    <3>1. b + n \in 1..Len(c)
      BY Zenon, <1>2
    <3> HIDE DEF b
    <3> QED
      BY Zenon, <3>1, BlockTxs
  <2> HIDE DEF b
  <2> QED
    BY <1>1, <2>1
<1>4. \A n \in 1..k : seqs[n] = c[b + n].txs /\ seqs[n] \in Seq(Tx)
  <2>1. \A n \in 1..k : seqs[n] = c[b + n].txs
    BY Zenon
  <2> HIDE DEF seqs
  <2> QED
    BY <1>3, <2>1
<1>5. PICK f : FlatRun(f, seqs) /\ q = f[k]
  BY Zenon, <1>3, FlattenRuns
<1> HIDE DEF seqs, b
<1>6. f \in [0..k -> Seq(Tx)] /\ f[0] = <<>> /\ \A i \in 1..k : f[i] = f[i - 1] \o seqs[i]
  BY Zenon, <1>3, <1>5 DEF FlatRun
<1> DEFINE Good(i) == /\ f[i] \in Seq(Tx)
                      /\ Ordered(f[i], D)
                      /\ DoneBefore(c, b + i + 1) = D \cup Range(f[i])
                      /\ \A m \in 1..i : Range(c[b + m].txs) \subseteq Range(f[i])
           P == {i \in 0..k : Good(i)}
<1>7. Good(0)
  <2>1. Range(<<>>) = {} /\ b + 0 + 1 = b + 1
    BY <1>1 DEF Range
  <2>2. Ordered(<<>>, D)
    BY DEF Ordered
  <2> HIDE DEF D
  <2>3. D = DoneBefore(c, b + 1)
    BY Zenon DEF D
  <2> QED
    BY <1>6, <2>1, <2>2, <2>3
<1>8. ASSUME NEW i \in 1..k, Good(i - 1) PROVE Good(i)
  <2>1. f[i - 1] \in Seq(Tx) /\ seqs[i] \in Seq(Tx) /\ seqs[i] = c[b + i].txs
    BY Zenon, <1>4, <1>8
  <2>2. f[i] = f[i - 1] \o seqs[i]
    BY Zenon, <1>6
  <2>3. f[i] \in Seq(Tx) /\ Range(f[i]) = Range(f[i - 1]) \cup Range(seqs[i])
    BY Zenon, <2>1, <2>2, ConcatSets
  <2>4. DoneBefore(c, b + i) = D \cup Range(f[i - 1])
    <3>1. b + (i - 1) + 1 = b + i
      BY <1>1
    <3> QED
      BY Zenon, <1>8, <3>1
  <2>5. /\ c[b + i].state.done = DoneBefore(c, b + i) \cup Range(seqs[i])
        /\ Ordered(seqs[i], DoneBefore(c, b + i))
    BY Zenon, <1>2, <2>1 DEF Grounded
  <2>6. DoneBefore(c, b + i + 1) = c[b + i].state.done
    BY <1>1 DEF DoneBefore
  <2> HIDE DEF D
  <2>7. Ordered(f[i], D)
    BY Zenon, <1>8, <2>1, <2>2, <2>4, <2>5, ConcatOrdered
  <2>8. ASSUME NEW m \in 1..i PROVE Range(c[b + m].txs) \subseteq Range(f[i])
    <3>1. CASE m = i
      BY Zenon, <2>1, <2>3, <3>1
    <3>2. CASE m \in 1..(i - 1)
      BY Zenon, <1>8, <2>3, <3>2
    <3> QED
      BY <3>1, <3>2
  <2> QED
    BY Zenon, <2>3, <2>4, <2>5, <2>6, <2>7, <2>8
<1>9. P \in SUBSET (0..k) /\ 0 \in P /\ \A i \in 1..k : i - 1 \in P => i \in P
  <2> HIDE DEF Good
  <2> QED
    BY <1>1, <1>7, <1>8
<1>10. k \in P
  <2> HIDE DEF P
  <2>1. P = 0..k
    BY Zenon, <1>1, <1>9, InductionUpTo
  <2> QED
    BY <1>1, <2>1
<1>11. Good(k) /\ b + k + 1 = Len(c) + 1
  BY Zenon, <1>1, <1>10
<1>12. \A m \in (b + 1)..Len(c) : m - b \in 1..k /\ b + (m - b) = m
  BY <1>1
<1>13. \A m \in (b + 1)..Len(c) : Range(c[m].txs) \subseteq Range(f[k])
  <2> TAKE m \in (b + 1)..Len(c)
  <2> DEFINE j == m - b
  <2>1. j \in 1..k /\ b + j = m
    BY Zenon, <1>12
  <2> HIDE DEF j
  <2>2. Range(c[b + j].txs) \subseteq Range(f[k])
    BY Zenon, <1>11, <2>1
  <2> QED
    BY Zenon, <2>1, <2>2
<1> QED
  BY Zenon, <1>5, <1>11, <1>13 DEF b

-----------------------------------------------------------------------------
(***************************************************************************)
(* The pending transactions and the state they lead to.                     *)
(***************************************************************************)
SessionOk(s, q, open, w) ==
    /\ q # <<>> => open
    /\ w = With(s, Range(q))
    /\ \A i \in 1..Len(q) : Applies(With(s, First(q, i - 1)), q[i], FALSE)

Typed == /\ pending \in Seq(Tx)
         /\ session \in BOOLEAN
         /\ work \in State
         /\ checked \in SUBSET Tx
         /\ gen.stage \in {"none", "build", "head", "push", "clear"}
         /\ gen.txs \in Seq(Tx)
         /\ singleWrite \in BOOLEAN

\* The pending transactions can be put back in their order, also while a block
\* is being generated.
Ready == /\ Grounded(chain)
         /\ Ordered(pending, HeadState.done)
         /\ work.done \subseteq HeadState.done \cup Range(pending)

Opened == gen.stage \in {"none", "build", "clear"} => SessionOk(HeadState, pending, session, work)

\* With a single write thread the head does not move during a production.
Alone ==
    singleWrite =>
      /\ gen.stage # "clear"
      /\ gen.stage \in {"build", "head", "push"} => HeadState.time < gen.time
      /\ gen.stage \in {"head", "push"} => BlockApplies(chain, gen.time, gen.txs)
      /\ gen.stage = "push" => gen.previous = Len(chain)

ReadyInv == PoolInv /\ Typed /\ Ready /\ Opened /\ Alone

LEMMA RestoreGood ==
    ASSUME pending \in Seq(Tx), NEW c \in Seq(Block), Grounded(c), NEW popped \in Seq(Tx),
           Restore(c, popped)
    PROVE  /\ pending' \in Seq(Tx) /\ session' \in BOOLEAN /\ work' \in State
           /\ pending' = Kept(StateAt(c), popped \o pending, Len(popped \o pending), 0)
           /\ chain' = c /\ HeadState' = StateAt(c)
           /\ SessionOk(StateAt(c), pending', session', work')
           /\ Ready'
<1> DEFINE s == StateAt(c)
           q == popped \o pending
           kept == Kept(s, q, Len(q), 0)
<1>1. s \in State /\ q \in Seq(Tx) /\ Len(q) \in Nat /\ DOMAIN q = 1..Len(q)
  BY StateAtType
<1>2. /\ chain' = c /\ pending' = kept /\ work' = With(s, Range(kept))
      /\ session' = \E i \in 1..Len(q) : q[i] \notin s.known
  BY Zenon DEF Restore, Restored
<1> HIDE DEF s, q
<1>3. kept \in Seq(Tx) /\ AllApply(s, kept) /\ Range(kept) \subseteq Range(q)
  BY Zenon, <1>1, KeptGood
<1> HIDE DEF kept
<1>4. Range(kept) \in SUBSET Tx
  BY <1>3 DEF Range
<1>5. work' \in State /\ work'.done = s.done \cup Range(kept)
  BY Zenon, <1>1, <1>2, <1>4, WithFields
<1>6. Ordered(kept, s.done)
  BY Zenon, <1>1, <1>3, AppliedOrdered
<1>7. HeadState' = s
  BY Zenon, <1>2 DEF HeadState, s
<1>8. \A i \in 1..Len(kept) : Applies(With(s, First(kept, i - 1)), kept[i], FALSE)
  BY Zenon, <1>3 DEF AllApply, Applies
<1>9. kept # <<>> => \E i \in 1..Len(q) : q[i] \notin s.known
  <2> HAVE kept # <<>>
  <2>1. 1 \in 1..Len(kept) /\ kept[1] \in Range(kept) /\ First(kept, 1 - 1) \in SUBSET Tx
    BY <1>3 DEF Range, First
  <2>2. Applies(With(s, First(kept, 1 - 1)), kept[1], TRUE)
    BY Zenon, <1>3, <2>1 DEF AllApply
  <2>3. kept[1] \notin s.known
    BY <1>1, <2>1, <2>2, WithFields DEF Applies
  <2>4. kept[1] \in Range(q)
    BY Zenon, <1>3, <2>1
  <2> QED
    BY Zenon, <1>1, <2>3, <2>4 DEF Range
<1>10. SessionOk(s, kept, session', work')
  BY Zenon, <1>2, <1>8, <1>9 DEF SessionOk
<1>11. Ready'
  BY Zenon, <1>2, <1>5, <1>6, <1>7 DEF Ready
<1>12. session' \in BOOLEAN
  BY Zenon, <1>2
<1> QED
  BY Zenon, <1>2, <1>3, <1>5, <1>7, <1>10, <1>11, <1>12 DEF s, q, kept

\* A handler that puts the pending transactions back.
LEMMA RestoreReady ==
    ASSUME ReadyInv, NEW c, Clean(c), Grounded(c), NEW popped \in Seq(Tx), Restore(c, popped),
           checked' = checked, singleWrite' = singleWrite, GenTimed',
           gen'.stage \in {"none", "build", "head", "push", "clear"}, gen'.txs \in Seq(Tx),
           singleWrite => gen'.stage = "none"
    PROVE  ReadyInv'
<1>1. pending \in Seq(Tx) /\ c \in Seq(Block)
  BY Zenon DEF ReadyInv, Typed, Clean
<1>2. /\ pending' \in Seq(Tx) /\ session' \in BOOLEAN /\ work' \in State
      /\ chain' = c /\ HeadState' = StateAt(c)
      /\ SessionOk(StateAt(c), pending', session', work')
      /\ Ready'
  BY Zenon, <1>1, RestoreGood
<1>3. Typed'
  BY Zenon, <1>2 DEF ReadyInv, Typed
<1>4. Opened'
  BY Zenon, <1>2 DEF Opened
<1>5. Alone'
  BY Zenon DEF Alone
<1>6. PoolInv'
  BY Zenon, <1>2 DEF PoolInv
<1> QED
  BY Zenon, <1>2, <1>3, <1>4, <1>5, <1>6 DEF ReadyInv

LEMMA ReadyInit == Init => ReadyInv
<1> SUFFICES ASSUME Init PROVE ReadyInv
  BY Zenon
<1>1. /\ chain = <<>> /\ pending = <<>> /\ session = FALSE /\ work = Genesis
      /\ checked = {} /\ gen = Idle /\ singleWrite \in BOOLEAN
  BY Zenon, PoolBoundAssumption DEF Init
<1>2. HeadState = Genesis /\ Genesis \in State
  BY Zenon, <1>1 DEF HeadState, StateAt, Genesis, State
<1>3. Range(<<>>) = {} /\ Len(<<>>) = 0 /\ 1..0 = {}
  BY DEF Range
<1>4. Typed
  <2>1. gen.stage = "none" /\ gen.txs = <<>>
    BY Zenon, <1>1 DEF Idle
  <2>2. <<>> \in Seq(Tx)
    OBVIOUS
  <2> QED
    BY Zenon, <1>1, <1>2, <2>1, <2>2 DEF Typed
<1>5. Ready
  BY Zenon, <1>1, <1>2, <1>3 DEF Ready, Grounded, Ordered
<1>6. With(Genesis, {}) = Genesis
  BY Zenon DEF With, Genesis
<1>7. Opened
  BY Zenon, <1>1, <1>2, <1>3, <1>6 DEF Opened, SessionOk
<1>8. Alone
  BY Zenon, <1>1 DEF Alone, Idle
<1> QED
  BY Zenon, PoolInit, <1>4, <1>5, <1>7, <1>8 DEF ReadyInv

\* push_transaction.
LEMMA PushReady ==
    ASSUME ReadyInv, PoolInv', NEW t \in Tx, PushTransaction(t)
    PROVE  ReadyInv'
<1>1. /\ chain' = chain /\ gen' = gen /\ singleWrite' = singleWrite /\ session' = TRUE
      /\ checked' \in SUBSET Tx
  BY Zenon DEF PushTransaction, ReadyInv, Typed
<1>2. HeadState' = HeadState /\ HeadState \in State
  BY Zenon, <1>1, StateAtType DEF HeadState, ReadyInv, PoolInv, Clean
<1>3. /\ pending \in Seq(Tx) /\ work \in State /\ Grounded(chain)
      /\ Ordered(pending, HeadState.done)
      /\ work.done \subseteq HeadState.done \cup Range(pending)
  BY Zenon DEF ReadyInv, Typed, Ready
<1>4. Alone'
  BY Zenon, <1>1, <1>2 DEF ReadyInv, Alone
<1>5. CASE pending' = pending /\ work' = work
  <2>1. Typed'
    BY Zenon, <1>1, <1>5 DEF ReadyInv, Typed
  <2>2. Ready'
    BY Zenon, <1>1, <1>2, <1>3, <1>5 DEF Ready
  <2>3. Opened'
    BY Zenon, <1>1, <1>2, <1>5 DEF ReadyInv, Opened, SessionOk
  <2> QED
    BY Zenon, <1>4, <2>1, <2>2, <2>3 DEF ReadyInv
<1>6. CASE Applies(work, t, FALSE) /\ pending' = Append(pending, t) /\ work' = With(work, {t})
  <2> DEFINE p == Append(pending, t)
  <2>1. /\ p \in Seq(Tx) /\ Len(p) = Len(pending) + 1
        /\ \A i \in 1..Len(pending) : p[i] = pending[i]
        /\ p[Len(pending) + 1] = t
        /\ Range(pending) = First(pending, Len(pending))
        /\ Range(p) = Range(pending) \cup {t}
        /\ \A i \in 1..(Len(pending) + 1) : First(p, i - 1) = First(pending, i - 1)
    BY Zenon, <1>3, AppendSets
  <2>2. pending' = p /\ Len(pending) \in Nat
    BY <1>3, <1>6
  <2> HIDE DEF p
  <2>3. \A i \in 1..Len(p) : i \in 1..Len(pending) \/ i = Len(pending) + 1
    BY <2>1, <2>2
  <2>4. First(p, (Len(pending) + 1) - 1) = Range(pending)
    <3>1. (Len(pending) + 1) - 1 = Len(pending) /\ Len(pending) + 1 \in 1..(Len(pending) + 1)
      BY <2>2
    <3> QED
      BY Zenon, <2>1, <3>1
  <2>5. /\ work' \in State
        /\ work'.done = work.done \cup {t} /\ needs[t] \subseteq work.done
    BY Zenon, <1>3, <1>6, WithFields DEF Applies, Executes
  <2>6. Typed'
    BY Zenon, <1>1, <2>1, <2>2, <2>5 DEF ReadyInv, Typed
  <2>7. Ready'
    <3>1. ASSUME NEW i \in 1..Len(p)
          PROVE  needs[p[i]] \subseteq HeadState.done \cup First(p, i - 1)
      <4>1. CASE i \in 1..Len(pending)
        <5>1. p[i] = pending[i] /\ First(p, i - 1) = First(pending, i - 1)
          BY Zenon, <2>1, <2>2, <4>1
        <5> QED
          BY Zenon, <1>3, <4>1, <5>1 DEF Ordered
      <4>2. CASE i = Len(pending) + 1
        BY Zenon, <1>3, <2>1, <2>4, <2>5, <4>2
      <4> QED
        BY Zenon, <2>3, <4>1, <4>2
    <3>2. Ordered(p, HeadState.done)
      BY Zenon, <3>1 DEF Ordered
    <3>3. work'.done \subseteq HeadState.done \cup Range(p)
      BY Zenon, <1>3, <2>1, <2>5
    <3> QED
      BY Zenon, <1>1, <1>2, <1>3, <2>2, <3>2, <3>3 DEF Ready
  <2>8. Opened'
    <3> SUFFICES ASSUME gen.stage \in {"none", "build", "clear"}
                 PROVE  SessionOk(HeadState, p, TRUE, work')
      BY Zenon, <1>1, <1>2, <2>2 DEF Opened
    <3>1. /\ work = With(HeadState, Range(pending))
          /\ \A i \in 1..Len(pending) :
               Applies(With(HeadState, First(pending, i - 1)), pending[i], FALSE)
      BY Zenon DEF ReadyInv, Opened, SessionOk
    <3>2. work' = With(HeadState, Range(p))
      <4> DEFINE P == Range(pending)
      <4>1. Range(p) = P \cup {t} /\ work' = With(With(HeadState, P), {t})
        BY Zenon, <1>6, <2>1, <3>1
      <4> HIDE DEF P
      <4>2. With(With(HeadState, P), {t}) = With(HeadState, P \cup {t})
        BY Zenon, <1>2 DEF With, State
      <4> QED
        BY Zenon, <4>1, <4>2
    <3>3. ASSUME NEW i \in 1..Len(p)
          PROVE  Applies(With(HeadState, First(p, i - 1)), p[i], FALSE)
      <4>1. CASE i \in 1..Len(pending)
        <5>1. p[i] = pending[i] /\ First(p, i - 1) = First(pending, i - 1)
          BY Zenon, <2>1, <2>2, <4>1
        <5> QED
          BY Zenon, <3>1, <4>1, <5>1
      <4>2. CASE i = Len(pending) + 1
        <5>1. p[i] = t /\ First(p, i - 1) = Range(pending)
          BY Zenon, <2>1, <2>4, <4>2
        <5> QED
          BY Zenon, <1>6, <3>1, <5>1
      <4> QED
        BY Zenon, <2>3, <4>1, <4>2
    <3> QED
      BY Zenon, <3>2, <3>3 DEF SessionOk
  <2> QED
    BY Zenon, <1>4, <2>6, <2>7, <2>8 DEF ReadyInv
<1> QED
  BY Zenon, <1>5, <1>6 DEF PushTransaction

\* The steps of generate_block that do not push a block.
LEMMA GenerateReady ==
    ASSUME ReadyInv, PoolInv', StartProducing \/ BuildBlock \/ BuildBlockThrows \/ ReadHead
    PROVE  ReadyInv'
<1>1. /\ chain' = chain /\ pending' = pending /\ checked' = checked
      /\ singleWrite' = singleWrite /\ HeadState' = HeadState
  BY Zenon DEF StartProducing, BuildBlock, BuildBlockThrows, ReadHead, HeadState
<1>2. /\ pending \in Seq(Tx) /\ session \in BOOLEAN /\ work \in State /\ checked \in SUBSET Tx
      /\ gen.txs \in Seq(Tx) /\ singleWrite \in BOOLEAN
      /\ DOMAIN gen = {"stage", "time", "txs", "previous", "retry"}
  BY Zenon DEF ReadyInv, Typed, PoolInv, GenTimed
<1>3. HeadState \in State /\ HeadState.time \in Nat
  BY Zenon, StateAtType DEF HeadState, ReadyInv, PoolInv, Clean, State
<1>4. CASE StartProducing
  <2>1. PICK now \in Times(chain) : gen' = [Idle EXCEPT !.stage = "build", !.time = now]
    BY Zenon, <1>4 DEF StartProducing
  <2>2. gen.stage = "none" /\ session' = session /\ work' = work
    BY Zenon, <1>4 DEF StartProducing
  <2>3. gen'.stage = "build" /\ gen'.time = now /\ gen'.txs = <<>>
    BY Zenon, <2>1 DEF Idle
  <2>4. HeadState.time < now
    BY <1>3, PoolBoundAssumption DEF Times, HeadState
  <2>5. Typed'
    BY <1>1, <1>2, <2>2, <2>3 DEF Typed
  <2>6. Ready' /\ Opened'
    BY Zenon, <1>1, <2>2 DEF ReadyInv, Ready, Opened
  <2>7. Alone'
    BY Zenon, <1>1, <2>3, <2>4 DEF Alone
  <2> QED
    BY Zenon, <2>5, <2>6, <2>7 DEF ReadyInv
<1>5. CASE BuildBlock
  <2> DEFINE kept == Kept(HeadState, pending, MaxBlockTx, gen.time)
  <2>1. /\ session' = FALSE /\ work' = HeadState /\ HeadState.time < gen.time
        /\ gen' = [gen EXCEPT !.stage = "head", !.txs = kept]
    BY Zenon, <1>5 DEF BuildBlock
  <2>2. kept \in Seq(Tx) /\ Len(kept) <= MaxBlockTx /\ AllApply(HeadState, kept)
    BY Zenon, <1>2, PoolBoundAssumption, KeptGood
  <2> HIDE DEF kept
  <2>3. gen'.stage = "head" /\ gen'.txs = kept /\ gen'.time = gen.time
    BY Zenon, <1>2, <2>1
  <2>4. Typed'
    BY Zenon, <1>1, <1>2, <1>3, <2>1, <2>2, <2>3 DEF Typed
  <2>5. Ready'
    BY Zenon, <1>1, <2>1 DEF ReadyInv, Ready
  <2>6. Opened'
    BY Zenon, <2>3 DEF Opened
  <2>7. Alone'
    BY Zenon, <1>1, <2>1, <2>2, <2>3 DEF Alone, BlockApplies, HeadState
  <2> QED
    BY Zenon, <2>4, <2>5, <2>6, <2>7 DEF ReadyInv
<1>6. CASE BuildBlockThrows
  <2>1. /\ session' = session /\ work' = work /\ HeadState.time >= gen.time /\ gen.stage = "build"
        /\ gen' = [gen EXCEPT !.stage = "clear"]
    BY Zenon, <1>6 DEF BuildBlockThrows
  <2>2. gen'.stage = "clear" /\ gen'.txs = gen.txs /\ gen.time \in Nat
    BY Zenon, <1>2, <2>1 DEF ReadyInv, PoolInv, GenTimed
  <2>3. ~singleWrite
    BY <1>3, <2>1, <2>2 DEF ReadyInv, Alone
  <2>4. Typed'
    BY Zenon, <1>1, <1>2, <2>1, <2>2 DEF Typed
  <2>5. Ready' /\ Opened'
    BY Zenon, <1>1, <2>1 DEF ReadyInv, Ready, Opened
  <2>6. Alone'
    BY Zenon, <1>1, <2>3 DEF Alone
  <2> QED
    BY Zenon, <2>4, <2>5, <2>6 DEF ReadyInv
<1>7. CASE ReadHead
  <2>1. /\ session' = session /\ work' = work /\ gen.stage = "head"
        /\ gen' = [gen EXCEPT !.stage = "push", !.previous = Len(chain)]
    BY Zenon, <1>7 DEF ReadHead
  <2>2. /\ gen'.stage = "push" /\ gen'.txs = gen.txs /\ gen'.time = gen.time
        /\ gen'.previous = Len(chain)
    BY Zenon, <1>2, <2>1
  <2>3. Typed'
    BY Zenon, <1>1, <1>2, <2>1, <2>2 DEF Typed
  <2>4. Ready' /\ Opened'
    BY Zenon, <1>1, <2>1, <2>2 DEF ReadyInv, Ready, Opened
  <2>5. Alone'
    BY Zenon, <1>1, <2>1, <2>2 DEF ReadyInv, Alone
  <2> QED
    BY Zenon, <2>3, <2>4, <2>5 DEF ReadyInv
<1> QED
  BY Zenon, <1>4, <1>5, <1>6, <1>7

\* clear_pending: nothing is pending and no session is open.
LEMMA ClearReady ==
    ASSUME ReadyInv, PoolInv', ClearPending
    PROVE  ReadyInv'
<1>1. /\ gen.stage = "clear" /\ pending' = <<>> /\ session' = FALSE /\ work' = HeadState
      /\ chain' = chain /\ checked' = checked /\ singleWrite' = singleWrite
      /\ gen' = IF gen.retry = 0 THEN [gen EXCEPT !.stage = "build", !.retry = 1] ELSE Idle
  BY Zenon DEF ClearPending
<1>2. /\ checked \in SUBSET Tx /\ gen.txs \in Seq(Tx) /\ singleWrite \in BOOLEAN
      /\ DOMAIN gen = {"stage", "time", "txs", "previous", "retry"}
  BY Zenon DEF ReadyInv, Typed, PoolInv, GenTimed
<1>3. HeadState' = HeadState /\ HeadState \in State
  BY Zenon, <1>1, StateAtType DEF HeadState, ReadyInv, PoolInv, Clean
<1>4. ~singleWrite
  BY Zenon, <1>1 DEF ReadyInv, Alone
<1>5. gen'.stage \in {"build", "none"} /\ gen'.txs \in {gen.txs, <<>>}
  BY Zenon, <1>1, <1>2 DEF Idle
<1>6. <<>> \in Seq(Tx) /\ Range(<<>>) = {} /\ Len(<<>>) = 0 /\ 1..0 = {}
  BY DEF Range
<1>7. Typed'
  BY Zenon, <1>1, <1>2, <1>3, <1>5, <1>6 DEF Typed
<1>8. Ready'
  BY Zenon, <1>1, <1>3, <1>6 DEF ReadyInv, Ready, Ordered
<1>9. With(HeadState, {}) = HeadState
  BY Zenon, <1>3 DEF With, State
<1>10. Opened'
  BY Zenon, <1>1, <1>3, <1>6, <1>9 DEF Opened, SessionOk
<1>11. Alone'
  BY Zenon, <1>1, <1>4 DEF Alone
<1> QED
  BY Zenon, <1>7, <1>8, <1>10, <1>11 DEF ReadyInv

LEMMA ReadyNext == ReadyInv /\ [Next]_vars => ReadyInv'
<1> SUFFICES ASSUME ReadyInv, [Next]_vars PROVE ReadyInv'
  BY Zenon
<1>0. PoolInv'
  BY Zenon, PoolNext DEF ReadyInv
<1>1. /\ Clean(chain) /\ Grounded(chain) /\ GenTimed /\ chain \in Seq(Block)
      /\ pending \in Seq(Tx) /\ <<>> \in Seq(Tx)
      /\ gen.stage \in {"none", "build", "head", "push", "clear"} /\ gen.txs \in Seq(Tx)
  BY DEF ReadyInv, PoolInv, Ready, Typed, Clean
<1>2. ASSUME NEW c, Clean(c), Grounded(c), NEW popped \in Seq(Tx), Restore(c, popped),
             MayWrite, UNCHANGED <<checked, gen, singleWrite>>
      PROVE  ReadyInv'
  <2>1. GenTimed' /\ (singleWrite => gen'.stage = "none")
    BY Zenon, <1>1, <1>2 DEF GenTimed, MayWrite
  <2> QED
    BY Zenon, <1>1, <1>2, <2>1, RestoreReady
<1>3. CASE vars' = vars
  <2>1. /\ chain' = chain /\ pending' = pending /\ session' = session /\ work' = work
        /\ checked' = checked /\ gen' = gen /\ singleWrite' = singleWrite
    BY Zenon, <1>3 DEF vars
  <2>2. HeadState' = HeadState
    BY Zenon, <2>1 DEF HeadState
  <2>3. Typed' /\ Ready'
    BY Zenon, <2>1, <2>2 DEF ReadyInv, Typed, Ready
  <2>4. Opened' /\ Alone'
    BY Zenon, <2>1, <2>2 DEF ReadyInv, Opened, Alone
  <2> QED
    BY Zenon, <1>0, <2>3, <2>4 DEF ReadyInv
<1>4. ASSUME NEW t \in Tx, ValidateTransaction(t) PROVE ReadyInv'
  BY Zenon, <1>0, <1>4 DEF ValidateTransaction, ReadyInv, Typed, Ready, Opened, Alone, HeadState
<1>5. ASSUME NEW t \in Tx, PushTransaction(t) PROVE ReadyInv'
  BY Zenon, <1>0, <1>5, PushReady
<1>6. CASE PushBlock
  <2>1. PICK now \in Times(chain), txs \in Offered, tag \in Tag :
              /\ BlockApplies(chain, now, txs)
              /\ Restore(Extend(chain, now, txs, tag), <<>>)
    BY Zenon, <1>6 DEF PushBlock
  <2>2. now \in Nat
    BY <1>1, StateAtType, PoolBoundAssumption DEF Times, State
  <2>3. Clean(Extend(chain, now, txs, tag)) /\ Grounded(Extend(chain, now, txs, tag))
    BY Zenon, <1>1, <2>1, <2>2, ExtendClean, ExtendGrounded
  <2> QED
    BY Zenon, <1>1, <1>2, <1>6, <2>1, <2>3 DEF PushBlock
<1>7. CASE PushBlockNotApplied
  BY Zenon, <1>1, <1>2, <1>7 DEF PushBlockNotApplied
<1>8. CASE SwitchFork
  <2>1. PICK k \in 1..MaxUndone :
              /\ k <= Len(chain)
              /\ \E c \in Branches(Base(k), k + 1) : Restore(c, Popped(k))
    BY Zenon, <1>8 DEF SwitchFork
  <2>2. PICK c \in Branches(Base(k), k + 1) : Restore(c, Popped(k))
    BY Zenon, <2>1
  <2>3. k \in Nat /\ k \in 0..Len(chain) /\ k + 1 \in Nat \ {0}
    BY <2>1, <1>1, PoolBoundAssumption
  <2>4. Clean(Base(k)) /\ Grounded(Base(k))
    BY Zenon, <2>3, <1>1, PrefixClean, PrefixGrounded DEF Base
  <2>5. Clean(c) /\ Grounded(c)
    BY Zenon, <2>3, <2>4, BranchesClean, BranchesGrounded
  <2>6. Popped(k) \in Seq(Tx)
    BY Zenon, <1>1, <2>3, PoppedOrdered DEF Popped
  <2> QED
    BY Zenon, <1>2, <1>8, <2>2, <2>5, <2>6 DEF SwitchFork
<1>9. CASE SwitchForkFails
  <2>0. PICK k \in 1..MaxUndone :
              /\ k <= Len(chain)
              /\ \E c \in {Base(k)} \cup Branches(Base(k), 1) :
                   Restore(chain, (IF c = Base(k) THEN <<>> ELSE c[Len(c)].txs) \o Popped(k))
    BY Zenon, <1>9 DEF SwitchForkFails
  <2>1. PICK c \in {Base(k)} \cup Branches(Base(k), 1) :
              /\ k <= Len(chain)
              /\ Restore(chain, (IF c = Base(k) THEN <<>> ELSE c[Len(c)].txs) \o Popped(k))
    BY Zenon, <2>0
  <2>2. k \in Nat /\ k \in 0..Len(chain) /\ 1 \in Nat \ {0}
    BY <2>1, <1>1, PoolBoundAssumption
  <2>3. Clean(Base(k)) /\ Grounded(Base(k))
    BY Zenon, <2>2, <1>1, PrefixClean, PrefixGrounded DEF Base
  <2>4. Popped(k) \in Seq(Tx)
    BY Zenon, <1>1, <2>2, PoppedOrdered DEF Popped
  <2>5. c # Base(k) => c[Len(c)].txs \in Seq(Tx)
    <3> HAVE c # Base(k)
    <3>1. c \in Branches(Base(k), 1)
      BY Zenon, <2>1
    <3>2. Clean(c) /\ Len(c) # 0
      BY Zenon, <2>2, <2>3, <3>1, BranchesClean, BranchesGrounded
    <3>3. c \in Seq(Block) /\ Len(c) \in 1..Len(c)
      BY <3>2 DEF Clean
    <3> QED
      BY Zenon, <3>3, BlockTxs
  <2>6. (IF c = Base(k) THEN <<>> ELSE c[Len(c)].txs) \o Popped(k) \in Seq(Tx)
    BY Zenon, <1>1, <2>4, <2>5, ConcatSets
  <2> QED
    BY Zenon, <1>1, <1>2, <1>9, <2>1, <2>6 DEF SwitchForkFails
<1>10. CASE PushGenerated
  <2>1. gen.stage = "push" /\ gen.previous = Len(chain) /\ UNCHANGED <<checked, singleWrite>>
    BY Zenon, <1>10 DEF PushGenerated
  <2>2. CASE BlockApplies(chain, gen.time, gen.txs)
    <3>1. PICK tag \in Tag : Restore(Extend(chain, gen.time, gen.txs, tag), <<>>)
      BY Zenon, <1>10, <2>2 DEF PushGenerated
    <3>2. gen' = Idle
      BY Zenon, <1>10, <2>2 DEF PushGenerated
    <3>3. GenTimed' /\ gen'.stage = "none" /\ gen'.txs \in Seq(Tx)
      BY Zenon, <1>1, <3>2 DEF GenTimed, Idle
    <3>4. gen.time \in Nat
      BY Zenon, <1>1 DEF GenTimed
    <3> DEFINE c == Extend(chain, gen.time, gen.txs, tag)
    <3>5. Clean(c) /\ Grounded(c)
      BY Zenon, <1>1, <2>2, <3>4, ExtendClean, ExtendGrounded
    <3> HIDE DEF c
    <3>6. Restore(c, <<>>)
      BY Zenon, <3>1 DEF c
    <3> QED
      BY Zenon, <1>1, <2>1, <3>3, <3>5, <3>6, RestoreReady
  <2>3. CASE ~BlockApplies(chain, gen.time, gen.txs)
    <3>1. Restore(chain, <<>>) /\ gen' = [gen EXCEPT !.stage = "clear"]
      BY Zenon, <1>10, <2>3 DEF PushGenerated
    <3>2. ~singleWrite
      BY Zenon, <2>1, <2>3 DEF ReadyInv, Alone
    <3>3. GenTimed' /\ gen'.stage = "clear" /\ gen'.txs \in Seq(Tx)
      BY Zenon, <1>1, <3>1 DEF GenTimed
    <3> QED
      BY Zenon, <1>1, <2>1, <3>1, <3>2, <3>3, RestoreReady
  <2> QED
    BY Zenon, <2>2, <2>3
<1>11. CASE PushGeneratedToFork
  <2>1. Restore(chain, <<>>) /\ gen' = Idle /\ UNCHANGED <<checked, singleWrite>>
    BY Zenon, <1>11 DEF PushGeneratedToFork
  <2>2. GenTimed' /\ gen'.stage = "none" /\ gen'.txs \in Seq(Tx)
    BY Zenon, <1>1, <2>1 DEF GenTimed, Idle
  <2> QED
    BY Zenon, <1>1, <2>1, <2>2, RestoreReady
<1>12. CASE StartProducing \/ BuildBlock \/ BuildBlockThrows \/ ReadHead
  BY Zenon, <1>0, <1>12, GenerateReady
<1>13. CASE ClearPending
  BY Zenon, <1>0, <1>13, ClearReady
<1> QED
  BY Zenon, <1>3, <1>4, <1>5, <1>6, <1>7, <1>8, <1>9, <1>10, <1>11, <1>12, <1>13 DEF Next, Produce

(***************************************************************************)
(* The state a node shows between two blocks is the head state with all its *)
(* pending transactions, each applied after those before it, and a session  *)
(* is open when there are any: after push_transaction, push_block, a switch *)
(* that succeeds or fails and a production.                                 *)
(***************************************************************************)
THEOREM SessionRestored == Spec => []SessionIsPending
<1>1. ReadyInv => SessionIsPending
  BY Zenon DEF ReadyInv, Opened, SessionOk, SessionIsPending
<1> QED
  BY <1>1, ReadyInit, ReadyNext, PTL DEF Spec

(***************************************************************************)
(* With a single write thread the block that generate_block builds applies, *)
(* for every set of pending transactions, and maybe_produce_block never     *)
(* throws them away.                                                        *)
(***************************************************************************)
THEOREM NeverCleared == Spec => []ProductionSucceeds
<1>1. ReadyInv => ProductionSucceeds
  BY DEF ReadyInv, Alone, ProductionSucceeds
<1> QED
  BY <1>1, ReadyInit, ReadyNext, PTL DEF Spec

\* The type invariant of PendingTransactions.
THEOREM PoolTyped == Spec => []TypeOK
<1>1. ReadyInv => TypeOK
  BY DEF ReadyInv, PoolInv, Clean, Typed, TypeOK
<1> QED
  BY <1>1, ReadyInit, ReadyNext, PTL DEF Spec

-----------------------------------------------------------------------------
(***************************************************************************)
(* No pending transaction is lost.                                          *)
(***************************************************************************)
OnChain(c) == UNION {Range(c[n].txs) : n \in 1..Len(c)}

\* What a step keeps or cannot keep.
Lossless == \A t \in ToBeKept : t \in ToBeKept' \/ ~Applies(work', t, TRUE)

\* A chain that goes on keeps the effects.
LEMMA PrefixDone ==
    ASSUME NEW c \in Seq(Block), NEW d \in Seq(Block), Grounded(d), Len(c) <= Len(d),
           \A i \in 1..Len(c) : d[i] = c[i]
    PROVE  /\ StateAt(c).done \subseteq StateAt(d).done
           /\ StateAt(c).done = DoneBefore(d, Len(c) + 1)
           /\ OnChain(c) \subseteq OnChain(d)
<1>1. Len(c) \in Nat /\ Len(d) \in Nat
  OBVIOUS
<1>2. DoneBefore(c, Len(c) + 1) = DoneBefore(d, Len(c) + 1)
  <2>1. Len(c) + 1 = 1 \/ (Len(c) + 1) - 1 \in 1..Len(c)
    BY <1>1
  <2> QED
    BY Zenon, <2>1 DEF DoneBefore
<1>3. Len(c) + 1 \in 1..(Len(d) + 1) /\ Len(d) + 1 \in (Len(c) + 1)..(Len(d) + 1)
  BY <1>1
<1>4. DoneBefore(d, Len(c) + 1) \subseteq DoneBefore(d, Len(d) + 1)
  BY Zenon, <1>3, DoneGrows
<1>5. \A i \in 1..Len(c) : i \in 1..Len(d)
  BY <1>1
<1>6. OnChain(c) \subseteq OnChain(d)
  BY Zenon, <1>5 DEF OnChain
<1> QED
  BY Zenon, <1>2, <1>4, <1>6, StateAtDone

LEMMA RestoreLossless ==
    ASSUME pending \in Seq(Tx), NEW c \in Seq(Block), Grounded(c), NEW popped \in Seq(Tx),
           Restore(c, popped), Ordered(popped \o pending, StateAt(c).done),
           OnChain(chain) \subseteq OnChain(c) \cup Range(popped)
    PROVE  Lossless
<1> DEFINE s == StateAt(c)
           q == popped \o pending
           kept == Kept(s, q, Len(q), 0)
<1>1. pending' = kept /\ chain' = c /\ work' = With(s, Range(pending'))
  BY Zenon, RestoreGood DEF SessionOk
<1>2. s \in State /\ q \in Seq(Tx) /\ Range(q) = Range(popped) \cup Range(pending)
  BY Zenon, StateAtType, ConcatSets
<1>3. ToBeKept = Range(pending) \cup OnChain(chain)
  BY Zenon DEF ToBeKept, OnChain
<1>4. ToBeKept' = Range(kept) \cup OnChain(c)
  BY Zenon, <1>1 DEF ToBeKept, OnChain
<1> HIDE DEF s, q
<1>5. Ordered(q, s.done)
  BY Zenon DEF s, q
<1>6. ASSUME NEW t \in Range(q), t \notin Range(kept)
      PROVE  ~Applies(With(s, Range(kept)), t, TRUE)
  BY Zenon, <1>2, <1>5, <1>6, KeptAll
<1> HIDE DEF kept
<1> SUFFICES ASSUME NEW t \in ToBeKept, t \notin ToBeKept'
             PROVE  ~Applies(work', t, TRUE)
  BY Zenon DEF Lossless
<1>7. t \in Range(q) /\ t \notin Range(kept)
  BY Zenon, <1>2, <1>3, <1>4
<1> QED
  BY Zenon, <1>1, <1>6, <1>7

LEMMA LosslessNext ==
    ASSUME ReadyInv, Next, gen.stage # "clear"
    PROVE  Lossless
<1>1. /\ Clean(chain) /\ Grounded(chain) /\ GenTimed /\ chain \in Seq(Block)
      /\ pending \in Seq(Tx) /\ <<>> \in Seq(Tx) /\ Range(<<>>) = {}
      /\ <<>> \o pending = pending
      /\ Ordered(pending, HeadState.done)
  BY DEF ReadyInv, PoolInv, Ready, Typed, Clean, Range
<1>2. ASSUME chain' = chain, Range(pending) \subseteq Range(pending') PROVE Lossless
  BY Zenon, <1>2 DEF Lossless, ToBeKept
<1>3. ASSUME NEW c, Clean(c), Grounded(c), Restore(c, <<>>), Len(chain) <= Len(c),
             \A i \in 1..Len(chain) : c[i] = chain[i]
      PROVE  Lossless
  <2>1. c \in Seq(Block)
    BY Zenon, <1>3 DEF Clean
  <2>2. HeadState.done \subseteq StateAt(c).done /\ OnChain(chain) \subseteq OnChain(c)
    BY Zenon, <1>1, <1>3, <2>1, PrefixDone DEF HeadState
  <2>3. Ordered(<<>> \o pending, StateAt(c).done)
    BY Zenon, <1>1, <2>2, OrderedMore
  <2> QED
    BY Zenon, <1>1, <1>3, <2>1, <2>2, <2>3, RestoreLossless
<1>4. ASSUME Restore(chain, <<>>) PROVE Lossless
  BY <1>1, <1>3, <1>4
<1>5. ASSUME NEW now \in Nat, NEW txs, NEW tag \in Tag, BlockApplies(chain, now, txs),
             Restore(Extend(chain, now, txs, tag), <<>>)
      PROVE  Lossless
  <2> DEFINE c == Extend(chain, now, txs, tag)
  <2>1. Clean(c) /\ Grounded(c)
    BY Zenon, <1>1, <1>5, ExtendClean, ExtendGrounded
  <2>2. Len(chain) <= Len(c) /\ \A i \in 1..Len(chain) : c[i] = chain[i]
    BY <1>1 DEF Extend
  <2> HIDE DEF c
  <2>3. Restore(c, <<>>)
    BY Zenon, <1>5 DEF c
  <2> QED
    BY Zenon, <1>3, <2>1, <2>2, <2>3
<1>6. ASSUME NEW t \in Tx, ValidateTransaction(t) PROVE Lossless
  BY Zenon, <1>2, <1>6 DEF ValidateTransaction
<1>7. ASSUME NEW t \in Tx, PushTransaction(t) PROVE Lossless
  <2>1. Range(Append(pending, t)) = Range(pending) \cup {t}
    BY Zenon, <1>1, AppendSets
  <2>2. Range(pending) \subseteq Range(pending') /\ chain' = chain
    BY Zenon, <1>7, <2>1 DEF PushTransaction
  <2> QED
    BY Zenon, <1>2, <2>2
<1>8. CASE PushBlock
  <2>1. PICK now \in Times(chain), txs \in Offered, tag \in Tag :
              /\ BlockApplies(chain, now, txs)
              /\ Restore(Extend(chain, now, txs, tag), <<>>)
    BY Zenon, <1>8 DEF PushBlock
  <2>2. now \in Nat
    BY <1>1, StateAtType, PoolBoundAssumption DEF Times, State
  <2> QED
    BY Zenon, <1>5, <2>1, <2>2
<1>9. CASE PushBlockNotApplied
  BY Zenon, <1>4, <1>9 DEF PushBlockNotApplied
<1>10. ASSUME NEW k \in 1..MaxUndone, k <= Len(chain)
       PROVE  /\ k \in Nat /\ k \in 0..Len(chain) /\ Clean(Base(k)) /\ Grounded(Base(k))
              /\ Base(k) \in Seq(Block) /\ Len(Base(k)) = Len(chain) - k
              /\ \A i \in 1..Len(Base(k)) : chain[i] = Base(k)[i]
              /\ Popped(k) \in Seq(Tx)
              /\ Ordered(Popped(k), StateAt(Base(k)).done)
              /\ HeadState.done = StateAt(Base(k)).done \cup Range(Popped(k))
              /\ OnChain(chain) \subseteq OnChain(Base(k)) \cup Range(Popped(k))
  <2>1. k \in Nat /\ k \in 0..Len(chain) /\ Len(chain) \in Nat
    BY <1>1, <1>10, PoolBoundAssumption
  <2>2. Clean(Base(k)) /\ Grounded(Base(k))
    BY Zenon, <1>1, <2>1, PrefixClean, PrefixGrounded DEF Base
  <2>3. /\ Base(k) \in Seq(Block) /\ Len(Base(k)) = Len(chain) - k
        /\ \A i \in 1..Len(Base(k)) : chain[i] = Base(k)[i]
    BY <1>1, <2>1 DEF Base
  <2> DEFINE b == Base(k)
             p == Popped(k)
  <2>4. /\ p \in Seq(Tx)
        /\ Ordered(p, DoneBefore(chain, Len(chain) - k + 1))
        /\ DoneBefore(chain, Len(chain) + 1) = DoneBefore(chain, Len(chain) - k + 1) \cup Range(p)
        /\ \A m \in (Len(chain) - k + 1)..Len(chain) : Range(chain[m].txs) \subseteq Range(p)
    BY Zenon, <1>1, <2>1, PoppedOrdered DEF Popped
  <2> HIDE DEF b, p
  <2>5. /\ b \in Seq(Block) /\ Len(b) = Len(chain) - k /\ Len(b) <= Len(chain)
        /\ \A i \in 1..Len(b) : chain[i] = b[i]
    BY <2>1, <2>3 DEF b
  <2>6. StateAt(b).done = DoneBefore(chain, Len(chain) - k + 1)
    BY Zenon, <1>1, <2>5, PrefixDone
  <2>7. HeadState.done = DoneBefore(chain, Len(chain) + 1)
    BY Zenon, <1>1, StateAtDone DEF HeadState
  <2>8. ASSUME NEW t \in OnChain(chain) PROVE t \in OnChain(b) \cup Range(p)
    <3>1. PICK m \in 1..Len(chain) : t \in Range(chain[m].txs)
      BY Zenon, <2>8 DEF OnChain
    <3>2. m \in 1..Len(b) \/ m \in (Len(chain) - k + 1)..Len(chain)
      BY <2>1, <2>5
    <3>3. CASE m \in 1..Len(b)
      BY Zenon, <2>5, <3>1, <3>3 DEF OnChain
    <3>4. CASE m \in (Len(chain) - k + 1)..Len(chain)
      BY Zenon, <2>4, <3>1, <3>4
    <3> QED
      BY Zenon, <3>2, <3>3, <3>4
  <2>9. /\ Ordered(p, StateAt(b).done)
        /\ HeadState.done = StateAt(b).done \cup Range(p)
        /\ OnChain(chain) \subseteq OnChain(b) \cup Range(p)
    BY Zenon, <2>4, <2>6, <2>7, <2>8
  <2> QED
    BY Zenon, <2>1, <2>2, <2>3, <2>4, <2>9 DEF b, p
<1>11. CASE SwitchFork
  <2>1. PICK k \in 1..MaxUndone :
              /\ k <= Len(chain)
              /\ \E c \in Branches(Base(k), k + 1) : Restore(c, Popped(k))
    BY Zenon, <1>11 DEF SwitchFork
  <2>2. PICK c \in Branches(Base(k), k + 1) : Restore(c, Popped(k))
    BY Zenon, <2>1
  <2> DEFINE b == Base(k)
             p == Popped(k)
  <2>3. /\ k \in Nat /\ Clean(b) /\ Grounded(b) /\ b \in Seq(Block)
        /\ p \in Seq(Tx) /\ Ordered(p, StateAt(b).done)
        /\ HeadState.done = StateAt(b).done \cup Range(p)
        /\ OnChain(chain) \subseteq OnChain(b) \cup Range(p)
    BY Zenon, <1>10, <2>1
  <2>4. c \in Branches(b, k + 1) /\ Restore(c, p)
    BY Zenon, <2>2
  <2> HIDE DEF b, p
  <2>5. Clean(c) /\ Grounded(c) /\ Len(c) = Len(b) + (k + 1) /\ \A i \in 1..Len(b) : c[i] = b[i]
    <3>1. k + 1 \in Nat \ {0}
      BY <2>3
    <3> QED
      BY Zenon, <2>3, <2>4, <3>1, BranchesClean, BranchesGrounded
  <2>6. c \in Seq(Block) /\ Len(b) <= Len(c)
    BY <2>3, <2>5 DEF Clean
  <2>7. StateAt(b).done \subseteq StateAt(c).done /\ OnChain(b) \subseteq OnChain(c)
    BY Zenon, <2>3, <2>5, <2>6, PrefixDone
  <2>8. Ordered(p \o pending, StateAt(b).done)
    BY Zenon, <1>1, <2>3, ConcatOrdered
  <2>9. Ordered(p \o pending, StateAt(c).done)
    BY Zenon, <2>7, <2>8, OrderedMore
  <2> QED
    BY Zenon, <1>1, <2>3, <2>4, <2>5, <2>6, <2>7, <2>9, RestoreLossless
<1>12. CASE SwitchForkFails
  <2>0. PICK k \in 1..MaxUndone :
              /\ k <= Len(chain)
              /\ \E c \in {Base(k)} \cup Branches(Base(k), 1) :
                   Restore(chain, (IF c = Base(k) THEN <<>> ELSE c[Len(c)].txs) \o Popped(k))
    BY Zenon, <1>12 DEF SwitchForkFails
  <2>1. PICK c \in {Base(k)} \cup Branches(Base(k), 1) :
              Restore(chain, (IF c = Base(k) THEN <<>> ELSE c[Len(c)].txs) \o Popped(k))
    BY Zenon, <2>0
  <2> DEFINE b == Base(k)
             p == Popped(k)
             x == IF c = b THEN <<>> ELSE c[Len(c)].txs
             D == HeadState.done
  <2>2. /\ Clean(b) /\ Grounded(b) /\ b \in Seq(Block)
        /\ p \in Seq(Tx) /\ Ordered(p, StateAt(b).done)
        /\ D = StateAt(b).done \cup Range(p)
    BY Zenon, <1>10, <2>0
  <2>3. Restore(chain, x \o p)
    BY Zenon, <2>1
  <2>4. c = b \/ c \in Branches(b, 1)
    BY Zenon, <2>1
  <2> HIDE DEF b, p
  <2>5. x \in Seq(Tx) /\ Ordered(x, StateAt(b).done)
    <3>1. CASE c = b
      BY <1>1, <3>1 DEF Ordered
    <3>2. CASE c # b
      <4>1. Clean(c) /\ Grounded(c) /\ Len(c) = Len(b) + 1 /\ \A i \in 1..Len(b) : c[i] = b[i]
        <5>1. 1 \in Nat \ {0}
          OBVIOUS
        <5> QED
          BY Zenon, <2>2, <2>4, <3>2, <5>1, BranchesClean, BranchesGrounded
      <4>2. c \in Seq(Block) /\ Len(b) \in Nat /\ Len(c) \in 1..Len(c) /\ Len(b) <= Len(c)
        BY <2>2, <4>1 DEF Clean
      <4>3. StateAt(b).done = DoneBefore(c, Len(b) + 1)
        BY Zenon, <2>2, <4>1, <4>2, PrefixDone
      <4>4. Ordered(c[Len(c)].txs, DoneBefore(c, Len(c))) /\ c[Len(c)].txs \in Seq(Tx)
        BY Zenon, <4>1, <4>2, BlockTxs DEF Grounded
      <4> QED
        BY Zenon, <3>2, <4>1, <4>3, <4>4
    <3> QED
      BY Zenon, <3>1, <3>2
  <2> HIDE DEF x
  <2>6. Ordered(x, D) /\ Ordered(p, D \cup Range(x))
    BY Zenon, <2>2, <2>5, OrderedMore
  <2> HIDE DEF D
  <2>7. Ordered(x \o p, D) /\ x \o p \in Seq(Tx)
    BY Zenon, <2>2, <2>5, <2>6, ConcatOrdered, ConcatSets
  <2> DEFINE y == x \o p
  <2>8. y \in Seq(Tx) /\ Ordered(y, D) /\ Restore(chain, y)
    BY Zenon, <2>3, <2>7
  <2> HIDE DEF y
  <2>9. Ordered(pending, D \cup Range(y))
    BY <1>1, OrderedMore DEF D
  <2>10. Ordered(y \o pending, D)
    BY Zenon, <1>1, <2>8, <2>9, ConcatOrdered
  <2>11. Ordered(y \o pending, StateAt(chain).done)
    BY Zenon, <2>10 DEF D, HeadState
  <2> QED
    BY Zenon, <1>1, <2>8, <2>11, RestoreLossless
<1>13. CASE PushGenerated
  <2>1. CASE BlockApplies(chain, gen.time, gen.txs)
    <3>1. PICK tag \in Tag : Restore(Extend(chain, gen.time, gen.txs, tag), <<>>)
      BY Zenon, <1>13, <2>1 DEF PushGenerated
    <3>2. gen.time \in Nat
      BY Zenon, <1>1 DEF GenTimed
    <3> QED
      BY Zenon, <1>5, <2>1, <3>1, <3>2
  <2>2. CASE ~BlockApplies(chain, gen.time, gen.txs)
    BY Zenon, <1>4, <1>13, <2>2 DEF PushGenerated
  <2> QED
    BY Zenon, <2>1, <2>2
<1>14. CASE PushGeneratedToFork
  BY Zenon, <1>4, <1>14 DEF PushGeneratedToFork
<1>15. CASE StartProducing \/ BuildBlock \/ BuildBlockThrows \/ ReadHead
  BY Zenon, <1>2, <1>15 DEF StartProducing, BuildBlock, BuildBlockThrows, ReadHead
<1>16. ~ClearPending
  BY Zenon DEF ClearPending
<1> QED
  BY Zenon, <1>6, <1>7, <1>8, <1>9, <1>11, <1>12, <1>13, <1>14, <1>15, <1>16 DEF Next, Produce

(***************************************************************************)
(* No handler but clear_pending loses a transaction: one that was pending   *)
(* or on the chain is still pending or on the chain after it, or no longer  *)
(* applies to the state the node shows.  The order in which the destructor  *)
(* of pending_transactions_restorer offers them is what makes it true: the  *)
(* transactions of the undone blocks in the order of the chain, then the    *)
(* pending ones, so that each comes after those it needs.                   *)
(***************************************************************************)
THEOREM KeepsTransactions == Spec => NothingLost
<1>1. ReadyInv /\ [Next]_vars =>
        [gen.stage = "clear" \/ \A t \in ToBeKept : t \in ToBeKept' \/ ~Applies(work', t, TRUE)]_vars
  BY Zenon, LosslessNext DEF Lossless
<1> QED
  BY <1>1, ReadyInit, ReadyNext, PTL DEF Spec, NothingLost
=============================================================================
