---------------------------- MODULE FundsProofs ----------------------------
(***************************************************************************)
(* Proofs that the supply is exactly what the accounts and the objects that *)
(* keep funds for them hold, that the funds of an escrow are never locked   *)
(* and that the requests of an account are counted exactly.                 *)
(***************************************************************************)
EXTENDS Funds, Induction

(***************************************************************************)
(* The escrows.                                                             *)
(***************************************************************************)

\* What EscrowsReleasable says of one escrow at time t.
Releasable(e, t) == /\ Approved(e) \/ t < e.deadline
                    /\ e.disputed => Approved(e)
                    /\ Approved(e) => e.fee = Zero
                    /\ e.money # Zero

EscrowInv == /\ now \in Nat
             /\ escrows \subseteq Escrow
             /\ \A e \in escrows : Releasable(e, now)

\* Amounts of both symbols are closed under what escrows do with them.
LEMMA MoneyFact ==
    /\ Zero \in Money
    /\ \A m, n \in Money : Covers(m, n) => Minus(m, n) \in Money
BY DEF Money, Zero, Covers, Minus, Symbol

\* escrow_transfer opens an escrow that waits for its approvals.
LEMMA EscrowOpened ==
    ASSUME EscrowInv,
           NEW from \in Holder, NEW to \in Receiver, NEW agent \in Agent, NEW id \in EscrowId,
           NEW m \in EscrowAmounts, NEW fee \in Fees,
           NEW deadline \in 1..MaxTime + 1, NEW expiration \in 1..MaxTime + 1,
           EscrowTransfer(from, to, agent, id, m, fee, deadline, expiration)
    PROVE  EscrowInv'
<1> DEFINE e == [from |-> from, to |-> to, agent |-> agent, id |-> id,
                 deadline |-> deadline, expiration |-> expiration, money |-> m, fee |-> fee,
                 toApproved |-> FALSE, agentApproved |-> FALSE, disputed |-> FALSE]
<1>1. /\ from \in Account /\ to \in Account /\ agent \in Account
      /\ m \in Money /\ m # Zero /\ fee \in Money
      /\ deadline \in Nat /\ expiration \in Nat
  BY AccountAssumption, AmountAssumption, DelayAssumption
<1>2. e \in Escrow
  BY Zenon, <1>1 DEF Escrow
<1>3. escrows' = escrows \cup {e} /\ now' = now /\ now < deadline
  BY Zenon DEF EscrowTransfer
<1>4. Releasable(e, now)
  BY Zenon, <1>1, <1>3 DEF Releasable, Approved
<1> HIDE DEF e
<1> QED
  BY Zenon, <1>2, <1>3, <1>4 DEF EscrowInv

\* An approval leaves one to wait for, or pays the fee.
LEMMA EscrowApproved ==
    ASSUME EscrowInv, NEW e \in escrows, NEW who, EscrowApprove(e, who)
    PROVE  EscrowInv'
<1> DEFINE f == ApprovedBy(e, who)
           g == [f EXCEPT !.fee = Zero]
<1>1. e \in Escrow /\ Releasable(e, now)
  BY Zenon DEF EscrowInv
<1>2. /\ f \in Escrow
      /\ f.deadline = e.deadline /\ f.money = e.money /\ f.disputed = e.disputed
      /\ f.fee = e.fee
      /\ Approved(e) => Approved(f)
  BY Zenon, <1>1 DEF Escrow, ApprovedBy, Approved
<1>3. ~Approved(f) => Releasable(f, now)
  BY Zenon, <1>1, <1>2 DEF Releasable
<1>4. g \in Escrow /\ g.fee = Zero /\ g.deadline = f.deadline /\ g.money = f.money
      /\ g.disputed = f.disputed /\ g.toApproved = f.toApproved /\ g.agentApproved = f.agentApproved
  <2> HIDE DEF f
  <2> QED
    BY Zenon, <1>2, MoneyFact DEF Escrow
<1>5. Approved(f) => Releasable(g, now)
  BY Zenon, <1>1, <1>2, <1>4 DEF Releasable, Approved
<1>6. now' = now /\ \/ ~Approved(f) /\ escrows' = (escrows \ {e}) \cup {f}
                    \/ Approved(f) /\ escrows' = (escrows \ {e}) \cup {g}
  BY Zenon DEF EscrowApprove
<1> HIDE DEF f, g
<1> QED
  BY Zenon, <1>2, <1>3, <1>4, <1>5, <1>6 DEF EscrowInv

\* Only an approved escrow is disputed.
LEMMA EscrowDisputed ==
    ASSUME EscrowInv, NEW e \in escrows, EscrowDispute(e)
    PROVE  EscrowInv'
<1> DEFINE f == [e EXCEPT !.disputed = TRUE]
<1>1. e \in Escrow /\ Releasable(e, now)
  BY Zenon DEF EscrowInv
<1>2. now' = now /\ escrows' = (escrows \ {e}) \cup {f} /\ Approved(e)
  BY Zenon DEF EscrowDispute
<1>3. f \in Escrow /\ f.fee = e.fee /\ f.deadline = e.deadline /\ f.money = e.money
      /\ f.toApproved = e.toApproved /\ f.agentApproved = e.agentApproved
  BY Zenon, <1>1 DEF Escrow
<1>4. Releasable(f, now)
  BY Zenon, <1>1, <1>2, <1>3 DEF Releasable, Approved
<1> HIDE DEF f
<1> QED
  BY Zenon, <1>2, <1>3, <1>4 DEF EscrowInv

\* A release that leaves nothing removes the escrow.
LEMMA EscrowReleased ==
    ASSUME EscrowInv, NEW e \in escrows, NEW who, NEW receiver, NEW m \in EscrowAmounts,
           EscrowRelease(e, who, receiver, m)
    PROVE  EscrowInv'
<1> DEFINE left == Minus(e.money, m)
           f == [e EXCEPT !.money = left]
<1>1. e \in Escrow /\ Releasable(e, now)
  BY Zenon DEF EscrowInv
<1>2. /\ now' = now /\ Approved(e) /\ Covers(e.money, m)
      /\ escrows' = (escrows \ {e}) \cup (IF left = Zero THEN {} ELSE {f})
  BY Zenon DEF EscrowRelease
<1>3. e.money \in Money /\ m \in Money
  BY Zenon, <1>1, AmountAssumption DEF Escrow
<1>4. left \in Money
  BY Zenon, <1>2, <1>3, MoneyFact
<1> HIDE DEF left
<1>5. f \in Escrow /\ f.fee = e.fee /\ f.deadline = e.deadline /\ f.money = left
      /\ f.toApproved = e.toApproved /\ f.agentApproved = e.agentApproved /\ f.disputed = e.disputed
  BY Zenon, <1>1, <1>4 DEF Escrow
<1>6. left # Zero => Releasable(f, now)
  BY Zenon, <1>1, <1>2, <1>5 DEF Releasable, Approved
<1> HIDE DEF f
<1> QED
  BY Zenon, <1>2, <1>5, <1>6 DEF EscrowInv

\* A block returns what was not approved by its deadline.
LEMMA EscrowsExpired ==
    ASSUME EscrowInv, NEW p, Block(p)
    PROVE  EscrowInv'
<1>1. now' = now + 1 /\ escrows' = escrows \ Unratified(now + 1)
  BY Zenon DEF Block
<1>2. ASSUME NEW e \in escrows'
      PROVE  Releasable(e, now')
  <2>1. e \in escrows /\ e \in Escrow /\ Releasable(e, now)
    BY Zenon, <1>1 DEF EscrowInv
  <2>2. Approved(e) \/ ~(e.deadline <= now + 1)
    BY Zenon, <1>1, <2>1 DEF Unratified
  <2>3. e.deadline \in Nat /\ now \in Nat
    BY Zenon, <2>1 DEF Escrow, EscrowInv
  <2>4. Approved(e) \/ now' < e.deadline
    BY <1>1, <2>2, <2>3
  <2> QED
    BY Zenon, <2>1, <2>4 DEF Releasable
<1> QED
  BY <1>1, <1>2 DEF EscrowInv

\* Every step keeps the invariant of the escrows.
LEMMA EscrowNext == EscrowInv /\ [Next]_vars => EscrowInv'
<1> SUFFICES ASSUME EscrowInv, [Next]_vars PROVE EscrowInv'
  BY Zenon
<1>1. ASSUME escrows' \subseteq escrows, now' = now PROVE EscrowInv'
  BY Zenon, <1>1 DEF EscrowInv
<1>2. ASSUME UNCHANGED <<escrows, now>> PROVE EscrowInv'
  BY Zenon, <1>1, <1>2
<1>3. CASE UNCHANGED vars
  BY Zenon, <1>2, <1>3 DEF vars
<1>4. ASSUME NEW from, NEW to, NEW m,
             \/ Transfer(from, to, m) \/ TransferToSavings(from, to, m)
             \/ \E id \in RequestId : TransferFromSavings(from, to, m, id)
             \/ \E id \in RequestId : Convert(from, m, id)
      PROVE  EscrowInv'
  BY Zenon, <1>2, <1>4 DEF Transfer, TransferToSavings, TransferFromSavings, Convert
<1>5. ASSUME NEW w \in withdrawals, CancelTransferFromSavings(w) PROVE EscrowInv'
  BY Zenon, <1>2, <1>5 DEF CancelTransferFromSavings
<1>6. ASSUME NEW e \in escrows, NEW who, EscrowReject(e, who) PROVE EscrowInv'
  BY Zenon, <1>1, <1>6 DEF EscrowReject
<1> QED
  BY Zenon, <1>3, <1>4, <1>5, <1>6, EscrowOpened, EscrowApproved, EscrowDisputed, EscrowReleased,
     EscrowsExpired DEF Next

(***************************************************************************)
(* Whatever the order of approvals, rejections, disputes, releases and      *)
(* blocks, an escrow is approved or before its deadline, pays its agent     *)
(* once and never stays empty.                                              *)
(***************************************************************************)
THEOREM Releases == Spec => []EscrowsReleasable
<1>1. Init => EscrowInv
  BY DEF Init, EscrowInv
<1>2. EscrowInv => EscrowsReleasable
  BY DEF EscrowInv, EscrowsReleasable, Releasable
<1> QED
  BY <1>1, <1>2, EscrowNext, PTL DEF Spec
-----------------------------------------------------------------------------
(***************************************************************************)
(* The requests to withdraw from savings.                                   *)
(***************************************************************************)

From(W, a) == {w \in W : w.from = a}

CountInv == /\ requests \in [Account -> Nat]
            /\ IsFiniteSet(withdrawals)
            /\ \A a \in Account : requests[a] = Cardinality(From(withdrawals, a))
            /\ \A a \in Account : requests[a] <= RequestLimit
            /\ \A v, w \in withdrawals : v.from = w.from /\ v.id = w.id => v = w

\* transfer_from_savings opens a request that the account did not have.
LEMMA RequestOpened ==
    ASSUME CountInv, NEW from \in Account, NEW to, NEW m, NEW id, TransferFromSavings(from, to, m, id)
    PROVE  CountInv'
<1> DEFINE w == [from |-> from, to |-> to, id |-> id, money |-> m, complete |-> now + WithdrawTime]
<1>1. /\ withdrawals' = withdrawals \cup {w}
      /\ requests' = [requests EXCEPT ![from] = @ + 1]
      /\ requests[from] < RequestLimit
      /\ ~\E v \in withdrawals : v.from = from /\ v.id = id
  BY Zenon DEF TransferFromSavings
<1>2. w.from = from /\ w.id = id
  BY Zenon
<1> HIDE DEF w
<1>3. w \notin withdrawals
  BY Zenon, <1>1, <1>2
<1>4. IsFiniteSet(withdrawals')
  BY Zenon, <1>1, FiniteAdd DEF CountInv
<1>5. \A u, v \in withdrawals' : u.from = v.from /\ u.id = v.id => u = v
  BY <1>1, <1>2 DEF CountInv
<1>6. requests' \in [Account -> Nat]
  BY <1>1 DEF CountInv
<1>7. ASSUME NEW a \in Account
      PROVE  requests'[a] = Cardinality(From(withdrawals', a)) /\ requests'[a] <= RequestLimit
  <2>1. /\ requests[a] = Cardinality(From(withdrawals, a)) /\ requests[a] <= RequestLimit
        /\ requests[a] \in Nat /\ RequestLimit \in Nat
    BY Zenon, DelayAssumption DEF CountInv
  <2>2. CASE a = from
    <3>1. From(withdrawals', a) = From(withdrawals, a) \cup {w}
      BY Zenon, <1>1, <1>2, <2>2 DEF From
    <3>2. IsFiniteSet(From(withdrawals, a))
      BY Zenon, FiniteSubset DEF From, CountInv
    <3>3. w \notin From(withdrawals, a)
      BY Zenon, <1>3 DEF From
    <3>4. Cardinality(From(withdrawals', a)) = Cardinality(From(withdrawals, a)) + 1
      BY Zenon, <3>1, <3>2, <3>3, CardinalityAdd
    <3>5. requests'[a] = requests[a] + 1
      BY Zenon, <1>1, <2>2 DEF CountInv
    <3>6. requests[a] < RequestLimit
      BY Zenon, <1>1, <2>2
    <3> QED
      BY <2>1, <3>4, <3>5, <3>6
  <2>3. CASE a # from
    <3>1. From(withdrawals', a) = From(withdrawals, a)
      BY Zenon, <1>1, <1>2, <2>3 DEF From
    <3>2. requests'[a] = requests[a]
      BY Zenon, <1>1, <2>3 DEF CountInv
    <3> QED
      BY Zenon, <2>1, <3>1, <3>2
  <2> QED
    BY Zenon, <2>2, <2>3
<1> QED
  BY Zenon, <1>4, <1>5, <1>6, <1>7 DEF CountInv

\* Requests that are cancelled or complete are taken off their sender's count.
LEMMA RequestsClosed ==
    ASSUME CountInv, NEW W \in SUBSET withdrawals,
           withdrawals' = withdrawals \ W, requests' = RequestsLeft(W)
    PROVE  CountInv'
<1>1. IsFiniteSet(withdrawals')
  BY Zenon, FiniteSubset DEF CountInv
<1>2. \A u, v \in withdrawals' : u.from = v.from /\ u.id = v.id => u = v
  BY Zenon DEF CountInv
<1>3. ASSUME NEW a \in Account
      PROVE  /\ requests'[a] = Cardinality(From(withdrawals', a))
             /\ requests'[a] \in Nat /\ requests'[a] <= RequestLimit
  <2>1. /\ requests[a] = Cardinality(From(withdrawals, a)) /\ requests[a] <= RequestLimit
        /\ requests[a] \in Nat /\ RequestLimit \in Nat
    BY Zenon, DelayAssumption DEF CountInv
  <2>2. requests'[a] = requests[a] - Cardinality(From(W, a))
    BY Zenon DEF RequestsLeft, From
  <2>3. From(withdrawals', a) = From(withdrawals, a) \ From(W, a)
    BY Zenon DEF From
  <2>4. From(withdrawals, a) \cap From(W, a) = From(W, a)
    BY Zenon DEF From
  <2>5. IsFiniteSet(From(withdrawals, a)) /\ IsFiniteSet(From(W, a)) /\ IsFiniteSet(From(withdrawals', a))
    <3>1. /\ From(withdrawals, a) \in SUBSET withdrawals
          /\ From(W, a) \in SUBSET withdrawals
          /\ From(withdrawals', a) \in SUBSET withdrawals
      BY Zenon DEF From
    <3> QED
      BY Zenon, <3>1, FiniteSubset DEF CountInv
  <2>6. Cardinality(From(withdrawals', a)) = Cardinality(From(withdrawals, a)) - Cardinality(From(W, a))
    <3>1. From(W, a) \subseteq From(withdrawals, a)
      BY Zenon, <2>4
    <3> QED
      BY Zenon, <2>3, <2>5, <3>1, CardinalityMinus
  <2>7. Cardinality(From(withdrawals', a)) \in Nat /\ Cardinality(From(W, a)) \in Nat
    BY Zenon, <2>5, CardinalityNat
  <2> QED
    BY <2>1, <2>2, <2>6, <2>7
<1>4. requests' \in [Account -> Nat]
  <2>1. requests' = [a \in Account |-> requests'[a]]
    BY Zenon DEF RequestsLeft
  <2> QED
    BY Zenon, <1>3, <2>1
<1> QED
  BY Zenon, <1>1, <1>2, <1>3, <1>4 DEF CountInv

\* Every step keeps the count.
LEMMA CountNext == CountInv /\ [Next]_vars => CountInv'
<1> SUFFICES ASSUME CountInv, [Next]_vars PROVE CountInv'
  BY Zenon
<1>1. ASSUME UNCHANGED <<withdrawals, requests>> PROVE CountInv'
  BY Zenon, <1>1 DEF CountInv
<1>2. CASE UNCHANGED vars
  BY Zenon, <1>1, <1>2 DEF vars
<1>3. ASSUME NEW from, NEW to, NEW m, Transfer(from, to, m) \/ TransferToSavings(from, to, m)
      PROVE  CountInv'
  BY Zenon, <1>1, <1>3 DEF Transfer, TransferToSavings
<1>4. ASSUME NEW owner, NEW m, NEW id, Convert(owner, m, id) PROVE CountInv'
  BY Zenon, <1>1, <1>4 DEF Convert
<1>5. ASSUME NEW w \in withdrawals, CancelTransferFromSavings(w) PROVE CountInv'
  <2>1. withdrawals' = withdrawals \ {w} /\ requests' = RequestsLeft({w})
    BY Zenon, <1>5 DEF CancelTransferFromSavings
  <2> QED
    BY Zenon, <2>1, RequestsClosed
<1>6. ASSUME NEW from, NEW to, NEW agent, NEW id, NEW m, NEW fee, NEW deadline, NEW expiration,
             EscrowTransfer(from, to, agent, id, m, fee, deadline, expiration)
      PROVE  CountInv'
  BY Zenon, <1>1, <1>6 DEF EscrowTransfer
<1>7. ASSUME NEW e, NEW who, EscrowApprove(e, who) \/ EscrowReject(e, who)
      PROVE  CountInv'
  BY Zenon, <1>1, <1>7 DEF EscrowApprove, EscrowReject
<1>8. ASSUME NEW e, NEW who, NEW receiver, NEW m, EscrowRelease(e, who, receiver, m)
      PROVE  CountInv'
  BY Zenon, <1>1, <1>8 DEF EscrowRelease
<1>9. ASSUME NEW e, EscrowDispute(e) PROVE CountInv'
  BY Zenon, <1>1, <1>9 DEF EscrowDispute
<1>10. ASSUME NEW p, Block(p) PROVE CountInv'
  <2>1. withdrawals' = withdrawals \ Completed(now + 1) /\ requests' = RequestsLeft(Completed(now + 1))
    BY Zenon, <1>10 DEF Block
  <2>2. Completed(now + 1) \in SUBSET withdrawals
    BY Zenon DEF Completed
  <2> QED
    BY Zenon, <2>1, <2>2, RequestsClosed
<1>11. ASSUME NEW from \in Holder, NEW to, NEW m, NEW id, TransferFromSavings(from, to, m, id)
       PROVE  CountInv'
  <2>1. from \in Account
    BY Zenon, AccountAssumption
  <2> QED
    BY Zenon, <1>11, <2>1, RequestOpened
<1> QED
  BY Zenon, <1>2, <1>3, <1>4, <1>5, <1>6, <1>7, <1>8, <1>9, <1>10, <1>11 DEF Next

LEMMA CountInit == Init => CountInv
<1> SUFFICES ASSUME Init PROVE CountInv
  BY Zenon
<1>1. withdrawals = {} /\ requests = [a \in Account |-> 0]
  BY Zenon DEF Init
<1>2. \A a \in Account : From(withdrawals, a) = {}
  BY Zenon, <1>1 DEF From
<1>3. IsFiniteSet(withdrawals) /\ \A a \in Account : Cardinality(From(withdrawals, a)) = 0
  BY Zenon, <1>1, <1>2, FiniteEmpty, CardinalityEmpty
<1> QED
  BY <1>1, <1>3, DelayAssumption DEF CountInv

(***************************************************************************)
(* savings_withdraw_requests counts the requests of an account exactly and  *)
(* within the limit, whatever is opened, cancelled and completed, and two   *)
(* requests of an account never have the same id.                           *)
(***************************************************************************)
THEOREM Counted == Spec => []WithdrawalsCounted
<1>1. CountInv => WithdrawalsCounted
  BY DEF CountInv, WithdrawalsCounted, From
<1> QED
  BY <1>1, CountInit, CountNext, PTL DEF Spec
-----------------------------------------------------------------------------
(***************************************************************************)
(* The supply.                                                              *)
(***************************************************************************)

\* What accounts hold of s, and what withdrawals, escrows and conversions hold.
InAccounts(where, s) == SumOver(Of(where, s), Account)
InWithdrawals(W, s) == SumOver(Withdrawn(W, s), W)
InEscrows(E, s) == SumOver(Escrowed(E, s), E)
InConversions(C) == SumOver(Burns(C), C)

\* Amounts by account, which may be negative.
Amount(where) == \A a \in Account, s \in Symbol : where[a][s] \in Int

LEMMA InAccountsInt ==
    ASSUME NEW where, Amount(where), NEW s \in Symbol
    PROVE  IntOn(Of(where, s), Account) /\ InAccounts(where, s) \in Int
<1>1. IntOn(Of(where, s), Account)
  BY Zenon DEF Amount, IntOn, Of
<1> QED
  BY Zenon, <1>1, AccountAssumption, SumInt DEF InAccounts

LEMMA PaidNat ==
    ASSUME NEW I \in SUBSET Account, NEW s \in Symbol
    PROVE  Paid(I)[s] \in Nat /\ IsFiniteSet(I) /\ Cardinality(I) \in Nat
<1>1. IsFiniteSet(I) /\ Cardinality(I) \in Nat
  BY Zenon, AccountAssumption, FiniteSubset, CardinalityNat
<1>2. Interest * Cardinality(I) \in Nat
  BY <1>1, DelayAssumption
<1> QED
  BY Zenon, <1>1, <1>2 DEF Paid

\* What the accounts that earn are paid is what is issued.
Bonus(I, s) == [a \in Account |-> IF s = "GBG" /\ a \in I THEN Interest ELSE 0]

LEMMA BonusSum ==
    ASSUME NEW I \in SUBSET Account, NEW s \in Symbol
    PROVE  IntOn(Bonus(I, s), Account) /\ SumOver(Bonus(I, s), Account) = Paid(I)[s]
<1> DEFINE k == IF s = "GBG" THEN Interest ELSE 0
           f == Bonus(I, s)
<1>1. k \in Int /\ 0 \in Int
  BY DelayAssumption
<1>2. IntOn(f, Account) /\ ConstOn(f, k, I) /\ ConstOn(f, 0, Account \ I)
  BY DelayAssumption DEF Bonus, IntOn, ConstOn
<1>3. IsFiniteSet(I) /\ IsFiniteSet(Account \ I) /\ Cardinality(I) \in Nat /\ Cardinality(Account \ I) \in Nat
  BY Zenon, AccountAssumption, FiniteSubset, CardinalityNat
<1> HIDE DEF k, f
<1>4. SumOver(f, I) = k * Cardinality(I) /\ SumOver(f, Account \ I) = 0 * Cardinality(Account \ I)
  BY Zenon, <1>1, <1>2, <1>3, SumSteady
<1>5. SumOver(f, Account) = SumOver(f, I) + SumOver(f, Account \ I)
  BY Zenon, <1>2, AccountAssumption, SumMinus
<1>6. SumOver(f, Account) = k * Cardinality(I)
  <2>1. k * Cardinality(I) \in Int /\ 0 * Cardinality(Account \ I) = 0
    BY <1>1, <1>3
  <2> QED
    BY <1>4, <1>5, <2>1
<1>7. k * Cardinality(I) = Paid(I)[s]
  BY <1>3 DEF Paid, k
<1> QED
  BY Zenon, <1>2, <1>6, <1>7 DEF f

\* adjust_balance moves what it says and pays the interest.
LEMMA AdjustedSum ==
    ASSUME NEW where, NEW out, NEW in, Amount(where), Amount(out), Amount(in),
           NEW I \in SUBSET Account, NEW s \in Symbol
    PROVE  InAccounts(Adjusted(where, out, in, I), s)
             = InAccounts(where, s) + InAccounts(in, s) - InAccounts(out, s) + Paid(I)[s]
<1> DEFINE u == [a \in Account |-> where[a][s] + in[a][s]]
           v == [a \in Account |-> where[a][s] + in[a][s] - out[a][s]]
           z == Of(Adjusted(where, out, in, I), s)
           b == Bonus(I, s)
           w == Of(where, s)
           i == Of(in, s)
           o == Of(out, s)
<1>1. IntOn(w, Account) /\ IntOn(i, Account) /\ IntOn(o, Account) /\ IntOn(u, Account) /\ IntOn(v, Account)
  BY DEF Amount, IntOn, Of
<1>2. IntOn(b, Account) /\ SumOver(b, Account) = Paid(I)[s] /\ IsFiniteSet(Account)
  BY Zenon, BonusSum, AccountAssumption
<1>3. AddsOn(u, w, i, Account) /\ AddsOn(u, v, o, Account)
  BY DEF Amount, AddsOn, Of
<1>4. AddsOn(z, v, b, Account)
  BY Zenon DEF AddsOn, Of, Adjusted, Bonus
<1> HIDE DEF u, v, z, b, w, i, o
<1>5. /\ SumOver(u, Account) = SumOver(w, Account) + SumOver(i, Account)
      /\ SumOver(u, Account) = SumOver(v, Account) + SumOver(o, Account)
      /\ SumOver(z, Account) = SumOver(v, Account) + SumOver(b, Account)
  BY <1>1, <1>2, <1>3, <1>4, SumPlus
<1>6. /\ SumOver(w, Account) \in Int /\ SumOver(i, Account) \in Int /\ SumOver(o, Account) \in Int
      /\ SumOver(v, Account) \in Int /\ SumOver(b, Account) \in Int
  BY Zenon, <1>1, <1>2, SumInt
<1>7. SumOver(z, Account) = SumOver(w, Account) + SumOver(i, Account) - SumOver(o, Account) + SumOver(b, Account)
  BY <1>5, <1>6
<1> QED
  BY Zenon, <1>2, <1>7 DEF InAccounts, z, w, i, o

LEMMA AtSum ==
    ASSUME NEW a \in Account, NEW m \in Money, NEW s \in Symbol
    PROVE  Amount(At(a, m)) /\ InAccounts(At(a, m), s) = m[s]
<1> DEFINE f == Of(At(a, m), s)
<1>1. Amount(At(a, m)) /\ m[s] \in Int /\ 0 \in Int
  BY DEF Amount, At, Money, Zero
<1>2. IntOn(f, Account) /\ ConstOn(f, 0, Account \ {a}) /\ f[a] = m[s]
  BY DEF IntOn, ConstOn, Of, At, Money, Zero
<1>3. IsFiniteSet(Account \ {a}) /\ Cardinality(Account \ {a}) \in Nat /\ IsFiniteSet(Account)
  BY Zenon, AccountAssumption, FiniteSubset, CardinalityNat
<1> HIDE DEF f
<1>4. SumOver(f, Account) = f[a] + SumOver(f, Account \ {a})
  BY Zenon, <1>2, <1>3, SumTake
<1>5. SumOver(f, Account \ {a}) = 0 * Cardinality(Account \ {a})
  BY Zenon, <1>1, <1>2, <1>3, SumSteady
<1>6. 0 * Cardinality(Account \ {a}) = 0
  BY <1>3
<1> QED
  BY <1>1, <1>2, <1>4, <1>5, <1>6 DEF InAccounts, f

LEMMA ZeroMoney == Zero \in Money /\ \A s \in Symbol : Zero[s] = 0
BY Zenon DEF Zero, Money

\* What a set of withdrawals, escrows or conversions holds is a natural number; a
\* new member adds what it holds and those that leave take what they hold.
LEMMA Withdrawals ==
    ASSUME NEW W, W \subseteq Withdrawal, IsFiniteSet(W), NEW s \in Symbol
    PROVE  /\ InWithdrawals(W, s) \in Nat
           /\ \A w \in Withdrawal \ W : InWithdrawals(W \cup {w}, s) = InWithdrawals(W, s) + w.money[s]
           /\ \A X \in SUBSET W : /\ InWithdrawals(X, s) \in Nat
                                  /\ InWithdrawals(W \ X, s) = InWithdrawals(W, s) - InWithdrawals(X, s)
<1>1. ASSUME NEW X, X \subseteq Withdrawal
      PROVE  NatOn(Withdrawn(X, s), X) /\ IntOn(Withdrawn(X, s), X)
  BY <1>1 DEF NatOn, IntOn, Withdrawn, Withdrawal, Money
<1>2. ASSUME NEW X, X \subseteq Withdrawal, IsFiniteSet(X) PROVE InWithdrawals(X, s) \in Nat
  BY Zenon, <1>1, <1>2, SumNat DEF InWithdrawals
<1>3. ASSUME NEW w \in Withdrawal \ W PROVE InWithdrawals(W \cup {w}, s) = InWithdrawals(W, s) + w.money[s]
  <2>1. W \cup {w} \subseteq Withdrawal /\ w \notin W /\ Withdrawn(W \cup {w}, s)[w] = w.money[s]
    BY Zenon DEF Withdrawn
  <2>2. IntOn(Withdrawn(W \cup {w}, s), W \cup {w}) /\ AgreeOn(Withdrawn(W \cup {w}, s), Withdrawn(W, s), W)
    BY Zenon, <1>1, <2>1 DEF AgreeOn, Withdrawn
  <2>3. SumOver(Withdrawn(W \cup {w}, s), W \cup {w}) = SumOver(Withdrawn(W, s), W) + Withdrawn(W \cup {w}, s)[w]
    BY <2>1, <2>2, SumGrow
  <2> QED
    BY Zenon, <2>1, <2>3 DEF InWithdrawals
<1>4. ASSUME NEW X \in SUBSET W PROVE InWithdrawals(W \ X, s) = InWithdrawals(W, s) - InWithdrawals(X, s)
  <2>1. IntOn(Withdrawn(W, s), W) /\ AgreeOn(Withdrawn(W, s), Withdrawn(X, s), X) /\ AgreeOn(Withdrawn(W, s), Withdrawn(W \ X, s), W \ X)
    BY Zenon, <1>1 DEF AgreeOn, Withdrawn
  <2> QED
    BY <2>1, SumShrink DEF InWithdrawals
<1>5. \A X \in SUBSET W : X \subseteq Withdrawal /\ IsFiniteSet(X)
  BY Zenon, FiniteSubset
<1> QED
  BY Zenon, <1>2, <1>3, <1>4, <1>5

LEMMA Escrows ==
    ASSUME NEW W, W \subseteq Escrow, IsFiniteSet(W), NEW s \in Symbol
    PROVE  /\ InEscrows(W, s) \in Nat
           /\ \A w \in Escrow \ W : InEscrows(W \cup {w}, s) = InEscrows(W, s) + (w.money[s] + w.fee[s])
           /\ \A X \in SUBSET W : /\ InEscrows(X, s) \in Nat
                                  /\ InEscrows(W \ X, s) = InEscrows(W, s) - InEscrows(X, s)
<1>1. ASSUME NEW X, X \subseteq Escrow
      PROVE  NatOn(Escrowed(X, s), X) /\ IntOn(Escrowed(X, s), X)
  BY <1>1 DEF NatOn, IntOn, Escrowed, Escrow, Money
<1>2. ASSUME NEW X, X \subseteq Escrow, IsFiniteSet(X) PROVE InEscrows(X, s) \in Nat
  BY Zenon, <1>1, <1>2, SumNat DEF InEscrows
<1>3. ASSUME NEW w \in Escrow \ W PROVE InEscrows(W \cup {w}, s) = InEscrows(W, s) + (w.money[s] + w.fee[s])
  <2>1. W \cup {w} \subseteq Escrow /\ w \notin W /\ Escrowed(W \cup {w}, s)[w] = (w.money[s] + w.fee[s])
    BY Zenon DEF Escrowed
  <2>2. IntOn(Escrowed(W \cup {w}, s), W \cup {w}) /\ AgreeOn(Escrowed(W \cup {w}, s), Escrowed(W, s), W)
    BY Zenon, <1>1, <2>1 DEF AgreeOn, Escrowed
  <2>3. SumOver(Escrowed(W \cup {w}, s), W \cup {w}) = SumOver(Escrowed(W, s), W) + Escrowed(W \cup {w}, s)[w]
    BY <2>1, <2>2, SumGrow
  <2> QED
    BY Zenon, <2>1, <2>3 DEF InEscrows
<1>4. ASSUME NEW X \in SUBSET W PROVE InEscrows(W \ X, s) = InEscrows(W, s) - InEscrows(X, s)
  <2>1. IntOn(Escrowed(W, s), W) /\ AgreeOn(Escrowed(W, s), Escrowed(X, s), X) /\ AgreeOn(Escrowed(W, s), Escrowed(W \ X, s), W \ X)
    BY Zenon, <1>1 DEF AgreeOn, Escrowed
  <2> QED
    BY <2>1, SumShrink DEF InEscrows
<1>5. \A X \in SUBSET W : X \subseteq Escrow /\ IsFiniteSet(X)
  BY Zenon, FiniteSubset
<1> QED
  BY Zenon, <1>2, <1>3, <1>4, <1>5

LEMMA Conversions ==
    ASSUME NEW W, W \subseteq Conversion, IsFiniteSet(W)
    PROVE  /\ InConversions(W) \in Nat
           /\ \A w \in Conversion \ W : InConversions(W \cup {w}) = InConversions(W) + w.gbg
           /\ \A X \in SUBSET W : /\ InConversions(X) \in Nat
                                  /\ InConversions(W \ X) = InConversions(W) - InConversions(X)
<1>1. ASSUME NEW X, X \subseteq Conversion
      PROVE  NatOn(Burns(X), X) /\ IntOn(Burns(X), X)
  BY <1>1 DEF NatOn, IntOn, Burns, Conversion
<1>2. ASSUME NEW X, X \subseteq Conversion, IsFiniteSet(X) PROVE InConversions(X) \in Nat
  BY Zenon, <1>1, <1>2, SumNat DEF InConversions
<1>3. ASSUME NEW w \in Conversion \ W PROVE InConversions(W \cup {w}) = InConversions(W) + w.gbg
  <2>1. W \cup {w} \subseteq Conversion /\ w \notin W /\ Burns(W \cup {w})[w] = w.gbg
    BY Zenon DEF Burns
  <2>2. IntOn(Burns(W \cup {w}), W \cup {w}) /\ AgreeOn(Burns(W \cup {w}), Burns(W), W)
    BY Zenon, <1>1, <2>1 DEF AgreeOn, Burns
  <2>3. SumOver(Burns(W \cup {w}), W \cup {w}) = SumOver(Burns(W), W) + Burns(W \cup {w})[w]
    BY <2>1, <2>2, SumGrow
  <2> QED
    BY Zenon, <2>1, <2>3 DEF InConversions
<1>4. ASSUME NEW X \in SUBSET W PROVE InConversions(W \ X) = InConversions(W) - InConversions(X)
  <2>1. IntOn(Burns(W), W) /\ AgreeOn(Burns(W), Burns(X), X) /\ AgreeOn(Burns(W), Burns(W \ X), W \ X)
    BY Zenon, <1>1 DEF AgreeOn, Burns
  <2> QED
    BY <2>1, SumShrink DEF InConversions
<1>5. \A X \in SUBSET W : X \subseteq Conversion /\ IsFiniteSet(X)
  BY Zenon, FiniteSubset
<1> QED
  BY Zenon, <1>2, <1>3, <1>4, <1>5

\* What is held of s in the balances b, the savings v, the withdrawals W, the escrows E
\* and the conversions C.
Kept(W, E, C, s) == InWithdrawals(W, s) + InEscrows(E, s)
                    + (IF s = "GBG" THEN InConversions(C) ELSE 0)

Held(b, v, W, E, C, s) == InAccounts(b, s) + InAccounts(v, s) + Kept(W, E, C, s)

Keeps(W, E, C) ==
    /\ W \subseteq Withdrawal /\ IsFiniteSet(W)
    /\ E \subseteq Escrow /\ IsFiniteSet(E)
    /\ C \subseteq Conversion /\ IsFiniteSet(C)
    /\ \A d, e \in E : d.from = e.from /\ d.id = e.id => d = e

Places(b, v, W, E, C) ==
    /\ b \in [Account -> Money] /\ v \in [Account -> Money]
    /\ Keeps(W, E, C)

HeldNow(s) == Held(balance, savings, withdrawals, escrows, conversions, s)
KeptNow(s) == Kept(withdrawals, escrows, conversions, s)

(***************************************************************************)
(* The invariant: every token is in one place, no balance is negative, and  *)
(* an account's escrows have ids of their own (an approval would otherwise  *)
(* merge two of them).                                                      *)
(***************************************************************************)
Wallet == /\ now \in Nat /\ price \in Nat
          /\ Places(balance, savings, withdrawals, escrows, conversions)
          /\ supply \in Money
          /\ SupplyMatches

\* A step issues as much as what is held grows.
Balanced == \A s \in Symbol : supply'[s] = supply[s] + (HeldNow(s)' - HeldNow(s))

LEMMA KeptNat ==
    ASSUME NEW W, NEW E, NEW C, Keeps(W, E, C), NEW s \in Symbol
    PROVE  /\ InWithdrawals(W, s) \in Nat /\ InEscrows(E, s) \in Nat
           /\ InConversions(C) \in Nat /\ Kept(W, E, C, s) \in Nat
<1>1. InWithdrawals(W, s) \in Nat /\ InEscrows(E, s) \in Nat /\ InConversions(C) \in Nat
  BY Zenon, Withdrawals, Escrows, Conversions DEF Keeps
<1> QED
  BY <1>1 DEF Kept

LEMMA HeldNat ==
    ASSUME NEW b, NEW v, NEW W, NEW E, NEW C, Places(b, v, W, E, C), NEW s \in Symbol
    PROVE  /\ InAccounts(b, s) \in Nat /\ InAccounts(v, s) \in Nat
           /\ Kept(W, E, C, s) \in Nat /\ Held(b, v, W, E, C, s) \in Nat
<1>1. NatOn(Of(b, s), Account) /\ NatOn(Of(v, s), Account)
  BY Zenon DEF NatOn, Of, Places, Money
<1>2. InAccounts(b, s) \in Nat /\ InAccounts(v, s) \in Nat
  BY Zenon, <1>1, AccountAssumption, SumNat DEF InAccounts
<1>3. Kept(W, E, C, s) \in Nat
  BY Zenon, KeptNat DEF Places
<1> QED
  BY <1>2, <1>3 DEF Held

\* The sum in SupplyMatches is the one above.
LEMMA HeldIs ==
    ASSUME NEW b, NEW v, NEW W, NEW E, NEW C, Places(b, v, W, E, C), NEW s \in Symbol
    PROVE  Held(b, v, W, E, C, s) = SumOver(Of(b, s), Account) + SumOver(Of(v, s), Account)
                  + SumOver(Withdrawn(W, s), W) + SumOver(Escrowed(E, s), E)
                  + (IF s = "GBG" THEN SumOver(Burns(C), C) ELSE 0)
<1>1. /\ InAccounts(b, s) \in Nat /\ InAccounts(v, s) \in Nat
      /\ InWithdrawals(W, s) \in Nat /\ InEscrows(E, s) \in Nat /\ InConversions(C) \in Nat
  BY Zenon, HeldNat, KeptNat DEF Places
<1>2. Held(b, v, W, E, C, s) = InAccounts(b, s) + InAccounts(v, s) + InWithdrawals(W, s) + InEscrows(E, s)
                               + (IF s = "GBG" THEN InConversions(C) ELSE 0)
  BY <1>1 DEF Held, Kept
<1> QED
  BY Zenon, <1>2 DEF InAccounts, InWithdrawals, InEscrows, InConversions

LEMMA WalletStep ==
    ASSUME Wallet, now' \in Nat, price' \in Nat,
           Places(balance', savings', withdrawals', escrows', conversions'),
           Balanced, supply' = [s \in Symbol |-> supply'[s]]
    PROVE  Wallet'
<1>1. ASSUME NEW s \in Symbol PROVE supply'[s] = HeldNow(s)' /\ supply'[s] \in Nat
  <2>1. HeldNow(s) \in Nat /\ HeldNow(s)' \in Nat
    BY Zenon, HeldNat DEF Wallet, HeldNow
  <2>2. supply[s] = HeldNow(s)
    BY HeldIs DEF Wallet, SupplyMatches, HeldNow
  <2>3. supply'[s] = supply[s] + (HeldNow(s)' - HeldNow(s))
    BY Zenon DEF Balanced
  <2> QED
    BY <2>1, <2>2, <2>3
<1>2. SupplyMatches'
  BY <1>1, HeldIs DEF SupplyMatches, HeldNow
<1>3. supply' \in Money
  BY Zenon, <1>1 DEF Money
<1> QED
  BY Zenon, <1>2, <1>3 DEF Wallet

LEMMA AtMoney ==
    ASSUME NEW a \in Account, NEW m \in Money
    PROVE  At(a, m) \in [Account -> Money]
BY Zenon, ZeroMoney DEF At

Spends(where, out) == \A a \in Account : Covers(where[a], out[a])

\* No adjustment of what is there makes a balance negative.
LEMMA AdjustedMoney ==
    ASSUME NEW where \in [Account -> Money], NEW out \in [Account -> Money], NEW in \in [Account -> Money],
           Spends(where, out), NEW I \in SUBSET Account
    PROVE  Adjusted(where, out, in, I) \in [Account -> Money]
<1> SUFFICES ASSUME NEW a \in Account, NEW s \in Symbol
             PROVE  where[a][s] + in[a][s] - out[a][s] + (IF s = "GBG" /\ a \in I THEN Interest ELSE 0) \in Nat
  BY Zenon DEF Adjusted, Money
<1>1. where[a][s] \in Nat /\ in[a][s] \in Nat /\ out[a][s] \in Nat /\ Interest \in Nat
  BY DelayAssumption DEF Money
<1>2. where[a][s] >= out[a][s]
  BY Zenon DEF Spends, Covers
<1> QED
  BY <1>1, <1>2

\* m leaves a and n comes to b.
LEMMA Moved ==
    ASSUME NEW where \in [Account -> Money], NEW a \in Account, NEW b \in Account,
           NEW m \in Money, NEW n \in Money, Covers(where[a], m), NEW I \in SUBSET Account
    PROVE  /\ Adjusted(where, At(a, m), At(b, n), I) \in [Account -> Money]
           /\ \A s \in Symbol : InAccounts(Adjusted(where, At(a, m), At(b, n), I), s)
                                  = InAccounts(where, s) + n[s] - m[s] + Paid(I)[s]
<1>1. At(a, m) \in [Account -> Money] /\ At(b, n) \in [Account -> Money]
  BY Zenon, AtMoney
<1>2. Spends(where, At(a, m))
  BY DEF Spends, Covers, At, Zero, Money
<1>3. Amount(where) /\ Amount(At(a, m)) /\ Amount(At(b, n))
  BY <1>1 DEF Amount, Money
<1>4. Adjusted(where, At(a, m), At(b, n), I) \in [Account -> Money]
  BY Zenon, <1>1, <1>2, AdjustedMoney
<1>5. ASSUME NEW s \in Symbol
      PROVE  InAccounts(Adjusted(where, At(a, m), At(b, n), I), s) = InAccounts(where, s) + n[s] - m[s] + Paid(I)[s]
  <2>1. InAccounts(At(a, m), s) = m[s] /\ InAccounts(At(b, n), s) = n[s]
    BY AtSum
  <2>2. InAccounts(Adjusted(where, At(a, m), At(b, n), I), s)
          = InAccounts(where, s) + InAccounts(At(b, n), s) - InAccounts(At(a, m), s) + Paid(I)[s]
    BY <1>3, AdjustedSum
  <2> QED
    BY <2>1, <2>2
<1> QED
  BY <1>4, <1>5

LEMMA EarningFact ==
    ASSUME NEW A \in SUBSET Account, NEW I \in Earning(A)
    PROVE  I \in SUBSET Account
BY Zenon DEF Earning

LEMMA TouchedFact ==
    ASSUME NEW A \in SUBSET Account, NEW m
    PROVE  Touched(A, m) \in SUBSET Account
BY Zenon DEF Touched

LEMMA CoversZero ==
    ASSUME NEW m \in Money
    PROVE  Covers(m, Zero)
BY ZeroMoney DEF Covers, Money

\* The withdrawals, escrows and conversions give n and take m.
Fills(m, n) == \A s \in Symbol : KeptNow(s)' = KeptNow(s) + m[s] - n[s]

\* A step that takes m off the balance of a and adds n to that of b.
LEMMA BalanceStep ==
    ASSUME Wallet, NEW a \in Account, NEW b \in Account, NEW m \in Money, NEW n \in Money,
           Covers(balance[a], m), NEW I \in SUBSET Account,
           balance' = Adjusted(balance, At(a, m), At(b, n), I), supply' = Plus(supply, Paid(I)),
           UNCHANGED <<now, savings, price>>, Keeps(withdrawals', escrows', conversions'), Fills(m, n)
    PROVE  Wallet'
<1>1. balance \in [Account -> Money]
  BY Zenon DEF Wallet, Places
<1>2. /\ balance' \in [Account -> Money]
      /\ \A s \in Symbol : InAccounts(balance', s) = InAccounts(balance, s) + n[s] - m[s] + Paid(I)[s]
  BY <1>1, Moved
<1>3. Places(balance', savings', withdrawals', escrows', conversions')
  BY Zenon, <1>2 DEF Wallet, Places
<1>4. Balanced
  <2> SUFFICES ASSUME NEW s \in Symbol PROVE supply'[s] = supply[s] + (HeldNow(s)' - HeldNow(s))
    BY Zenon DEF Balanced
  <2>1. supply'[s] = supply[s] + Paid(I)[s] /\ Paid(I)[s] \in Nat
    BY Zenon, PaidNat DEF Plus
  <2>2. m[s] \in Nat /\ n[s] \in Nat /\ supply[s] \in Nat
    BY Zenon DEF Wallet, Money
  <2>3. InAccounts(balance, s) \in Nat /\ InAccounts(savings, s) \in Nat /\ KeptNow(s) \in Nat
    BY HeldNat DEF Wallet, KeptNow
  <2>4. InAccounts(balance', s) = InAccounts(balance, s) + n[s] - m[s] + Paid(I)[s]
    BY <1>2
  <2>5. KeptNow(s)' = KeptNow(s) + m[s] - n[s]
    BY Zenon DEF Fills
  <2>6. /\ HeldNow(s) = InAccounts(balance, s) + InAccounts(savings, s) + KeptNow(s)
        /\ HeldNow(s)' = InAccounts(balance', s) + InAccounts(savings, s) + KeptNow(s)'
    BY Zenon DEF HeldNow, Held, KeptNow
  <2> QED
    BY <2>1, <2>2, <2>3, <2>4, <2>5, <2>6
<1> QED
  BY <1>3, <1>4, WalletStep DEF Wallet, Plus

\* The same of savings.
LEMMA SavingsStep ==
    ASSUME Wallet, NEW a \in Account, NEW b \in Account, NEW m \in Money, NEW n \in Money,
           Covers(savings[a], m), NEW I \in SUBSET Account,
           savings' = Adjusted(savings, At(a, m), At(b, n), I), supply' = Plus(supply, Paid(I)),
           UNCHANGED <<now, balance, price>>, Keeps(withdrawals', escrows', conversions'), Fills(m, n)
    PROVE  Wallet'
<1>1. savings \in [Account -> Money]
  BY DEF Wallet, Places
<1>2. /\ savings' \in [Account -> Money]
      /\ \A s \in Symbol : InAccounts(savings', s) = InAccounts(savings, s) + n[s] - m[s] + Paid(I)[s]
  BY <1>1, Moved
<1>3. Places(balance', savings', withdrawals', escrows', conversions')
  BY <1>2 DEF Wallet, Places
<1>4. Balanced
  <2> SUFFICES ASSUME NEW s \in Symbol PROVE supply'[s] = supply[s] + (HeldNow(s)' - HeldNow(s))
    BY Zenon DEF Balanced
  <2>1. supply'[s] = supply[s] + Paid(I)[s] /\ Paid(I)[s] \in Nat
    BY Zenon, PaidNat DEF Plus
  <2>2. m[s] \in Nat /\ n[s] \in Nat /\ supply[s] \in Nat
    BY DEF Wallet, Money
  <2>3. InAccounts(balance, s) \in Nat /\ InAccounts(savings, s) \in Nat /\ KeptNow(s) \in Nat
    BY HeldNat DEF Wallet, KeptNow
  <2>4. InAccounts(savings', s) = InAccounts(savings, s) + n[s] - m[s] + Paid(I)[s]
    BY Zenon, <1>2
  <2>5. KeptNow(s)' = KeptNow(s) + m[s] - n[s]
    BY Zenon DEF Fills
  <2>6. /\ HeldNow(s) = InAccounts(balance, s) + InAccounts(savings, s) + KeptNow(s)
        /\ HeldNow(s)' = InAccounts(balance, s) + InAccounts(savings', s) + KeptNow(s)'
    BY Zenon DEF HeldNow, Held, KeptNow
  <2> QED
    BY SMTT(60), <2>1, <2>2, <2>3, <2>4, <2>5, <2>6
<1> QED
  BY <1>3, <1>4, WalletStep DEF Wallet, Plus

\* A step that only rewrites escrows.
LEMMA EscrowStep ==
    ASSUME Wallet, Keeps(withdrawals', escrows', conversions'), Fills(Zero, Zero),
           UNCHANGED <<now, balance, savings, supply, price>>
    PROVE  Wallet'
<1>1. Places(balance', savings', withdrawals', escrows', conversions')
  BY Zenon DEF Wallet, Places
<1>2. Balanced
  <2> SUFFICES ASSUME NEW s \in Symbol PROVE supply'[s] = supply[s] + (HeldNow(s)' - HeldNow(s))
    BY Zenon DEF Balanced
  <2>1. InAccounts(balance, s) \in Nat /\ InAccounts(savings, s) \in Nat /\ KeptNow(s) \in Nat /\ supply[s] \in Nat
    BY HeldNat DEF Wallet, KeptNow, Money
  <2>2. KeptNow(s)' = KeptNow(s)
    BY <2>1, ZeroMoney DEF Fills
  <2>3. HeldNow(s)' = HeldNow(s) /\ HeldNow(s) \in Nat
    BY <2>1, <2>2 DEF HeldNow, Held, KeptNow
  <2> QED
    BY <2>1, <2>3
<1> QED
  BY <1>1, <1>2, WalletStep DEF Wallet, Money

\* transfer
LEMMA TransferKeeps ==
    ASSUME Wallet, NEW from \in Account, NEW to \in Account, NEW m \in Money, Transfer(from, to, m)
    PROVE  Wallet'
<1>1. PICK I \in Earning(Touched({from, to}, m)) :
           balance' = Adjusted(balance, At(from, m), At(to, m), I) /\ supply' = Plus(supply, Paid(I))
  BY Zenon DEF Transfer
<1>2. I \in SUBSET Account
  BY EarningFact, TouchedFact
<1>3. UNCHANGED <<now, savings, withdrawals, escrows, conversions, price>> /\ Covers(balance[from], m)
  BY Zenon DEF Transfer
<1>4. Keeps(withdrawals', escrows', conversions')
  BY <1>3 DEF Wallet, Places
<1>5. Fills(m, m)
  <2> SUFFICES ASSUME NEW s \in Symbol PROVE KeptNow(s)' = KeptNow(s) + m[s] - m[s]
    BY DEF Fills
  <2>1. KeptNow(s)' = KeptNow(s) /\ m[s] \in Nat
    BY <1>3 DEF KeptNow, Money
  <2>2. KeptNow(s) \in Nat
    BY HeldNat DEF Wallet, KeptNow
  <2> QED
    BY <2>1, <2>2
<1> QED
  BY <1>1, <1>2, <1>3, <1>4, <1>5, BalanceStep

\* transfer_to_savings
LEMMA ToSavingsKeeps ==
    ASSUME Wallet, NEW from \in Account, NEW to \in Account, NEW m \in Money, TransferToSavings(from, to, m)
    PROVE  Wallet'
<1>1. PICK I \in Earning(Touched({from}, m)), J \in Earning(Touched({to}, m)) :
           /\ balance' = Adjusted(balance, At(from, m), At(from, Zero), I)
           /\ savings' = Adjusted(savings, At(to, Zero), At(to, m), J)
           /\ supply' = Plus(supply, Plus(Paid(I), Paid(J)))
  BY Zenon DEF TransferToSavings
<1>2. I \in SUBSET Account /\ J \in SUBSET Account
  BY EarningFact, TouchedFact
<1>3. UNCHANGED <<now, withdrawals, escrows, conversions, price>> /\ Covers(balance[from], m)
  BY Zenon DEF TransferToSavings
<1>4. balance \in [Account -> Money] /\ savings \in [Account -> Money] /\ Covers(savings[to], Zero)
  BY CoversZero DEF Wallet, Places
<1>5. /\ balance' \in [Account -> Money]
      /\ \A s \in Symbol : InAccounts(balance', s) = InAccounts(balance, s) + Zero[s] - m[s] + Paid(I)[s]
  <2>1. Zero \in Money
    BY ZeroMoney
  <2>2. /\ Adjusted(balance, At(from, m), At(from, Zero), I) \in [Account -> Money]
        /\ \A s \in Symbol : InAccounts(Adjusted(balance, At(from, m), At(from, Zero), I), s)
                               = InAccounts(balance, s) + Zero[s] - m[s] + Paid(I)[s]
    BY SMTT(60), <1>2, <1>3, <1>4, <2>1, Moved
  <2> QED
    BY Zenon, <1>1, <2>2
<1>6. /\ savings' \in [Account -> Money]
      /\ \A s \in Symbol : InAccounts(savings', s) = InAccounts(savings, s) + m[s] - Zero[s] + Paid(J)[s]
  <2>1. Zero \in Money
    BY Zenon, ZeroMoney
  <2>2. /\ Adjusted(savings, At(to, Zero), At(to, m), J) \in [Account -> Money]
        /\ \A s \in Symbol : InAccounts(Adjusted(savings, At(to, Zero), At(to, m), J), s)
                               = InAccounts(savings, s) + m[s] - Zero[s] + Paid(J)[s]
    BY <1>2, <1>3, <1>4, <2>1, Moved
  <2> QED
    BY Zenon, <1>1, <2>2
<1>7. Places(balance', savings', withdrawals', escrows', conversions')
  BY <1>3, <1>5, <1>6 DEF Wallet, Places
<1>8. Balanced
  <2> SUFFICES ASSUME NEW s \in Symbol PROVE supply'[s] = supply[s] + (HeldNow(s)' - HeldNow(s))
    BY DEF Balanced
  <2>1. Paid(I)[s] \in Nat /\ Paid(J)[s] \in Nat
    BY <1>2, PaidNat
  <2>2. supply'[s] = supply[s] + (Paid(I)[s] + Paid(J)[s])
    BY Zenon, <1>1 DEF Plus
  <2>3. m[s] \in Nat /\ Zero[s] = 0 /\ supply[s] \in Nat
    BY ZeroMoney DEF Wallet, Money
  <2>4. InAccounts(balance, s) \in Nat /\ InAccounts(savings, s) \in Nat /\ KeptNow(s) \in Nat
    BY HeldNat DEF Wallet, KeptNow
  <2>5. /\ InAccounts(balance', s) = InAccounts(balance, s) - m[s] + Paid(I)[s]
        /\ InAccounts(savings', s) = InAccounts(savings, s) + m[s] + Paid(J)[s]
    BY <1>5, <1>6, <2>1, <2>3, <2>4
  <2>6. /\ HeldNow(s) = InAccounts(balance, s) + InAccounts(savings, s) + KeptNow(s)
        /\ HeldNow(s)' = InAccounts(balance', s) + InAccounts(savings', s) + KeptNow(s)
    BY <1>3 DEF HeldNow, Held, KeptNow
  <2> QED
    BY <2>1, <2>2, <2>3, <2>4, <2>5, <2>6
<1> QED
  BY <1>1, <1>3, <1>7, <1>8, WalletStep DEF Wallet, Plus

\* transfer_from_savings
LEMMA FromSavingsKeeps ==
    ASSUME Wallet, NEW from \in Account, NEW to \in Account, NEW m \in Money, NEW id \in RequestId,
           TransferFromSavings(from, to, m, id)
    PROVE  Wallet'
<1> DEFINE w == [from |-> from, to |-> to, id |-> id, money |-> m, complete |-> now + WithdrawTime]
<1>1. PICK I \in Earning(Touched({from}, m)) :
           savings' = Adjusted(savings, At(from, m), At(from, Zero), I) /\ supply' = Plus(supply, Paid(I))
  BY Zenon DEF TransferFromSavings
<1>2. I \in SUBSET Account
  BY EarningFact, TouchedFact
<1>3. /\ UNCHANGED <<now, balance, escrows, conversions, price>> /\ Covers(savings[from], m)
      /\ withdrawals' = withdrawals \cup {w}
      /\ ~\E v \in withdrawals : v.from = from /\ v.id = id
  BY Zenon DEF TransferFromSavings
<1>4. w \in Withdrawal /\ w \notin withdrawals /\ w.money = m
  <2>1. now + WithdrawTime \in Nat
    BY DelayAssumption DEF Wallet
  <2> QED
    BY <1>3, <2>1 DEF Withdrawal
<1> HIDE DEF w
<1>5. Keeps(withdrawals', escrows', conversions')
  BY <1>3, <1>4, FiniteAdd DEF Wallet, Places, Keeps
<1>6. Fills(m, Zero)
  <2> SUFFICES ASSUME NEW s \in Symbol PROVE KeptNow(s)' = KeptNow(s) + m[s] - Zero[s]
    BY Zenon DEF Fills
  <2>1. InWithdrawals(withdrawals', s) = InWithdrawals(withdrawals, s) + m[s]
    BY <1>3, <1>4, Withdrawals DEF Wallet, Places, Keeps
  <2>2. /\ InWithdrawals(withdrawals, s) \in Nat /\ InEscrows(escrows, s) \in Nat
        /\ InConversions(conversions) \in Nat /\ m[s] \in Nat /\ Zero[s] = 0
    BY KeptNat, ZeroMoney DEF Wallet, Places, Money
  <2> QED
    BY <1>3, <2>1, <2>2 DEF KeptNow, Kept
<1> QED
  BY Zenon, <1>1, <1>2, <1>3, <1>5, <1>6, ZeroMoney, SavingsStep

\* cancel_transfer_from_savings
LEMMA CancelKeeps ==
    ASSUME Wallet, NEW w \in withdrawals, CancelTransferFromSavings(w)
    PROVE  Wallet'
<1>0. w \in Withdrawal /\ w.from \in Account /\ w.money \in Money
  BY DEF Wallet, Places, Keeps, Withdrawal
<1>1. PICK I \in Earning(Touched({w.from}, w.money)) :
           savings' = Adjusted(savings, At(w.from, Zero), At(w.from, w.money), I) /\ supply' = Plus(supply, Paid(I))
  BY DEF CancelTransferFromSavings
<1>2. I \in SUBSET Account
  BY <1>0, EarningFact, TouchedFact
<1>3. UNCHANGED <<now, balance, escrows, conversions, price>> /\ withdrawals' = withdrawals \ {w}
  BY DEF CancelTransferFromSavings
<1>4. Covers(savings[w.from], Zero)
  BY <1>0, CoversZero DEF Wallet, Places
<1>5. Keeps(withdrawals', escrows', conversions')
  BY <1>3, FiniteSubset DEF Wallet, Places, Keeps
<1>6. Fills(Zero, w.money)
  <2> SUFFICES ASSUME NEW s \in Symbol PROVE KeptNow(s)' = KeptNow(s) + Zero[s] - w.money[s]
    BY DEF Fills
  <2> DEFINE W == withdrawals \ {w}
  <2>1. InWithdrawals(withdrawals, s) = InWithdrawals(W, s) + w.money[s] /\ InWithdrawals(W, s) \in Nat
    <3>1. W \subseteq Withdrawal /\ IsFiniteSet(W) /\ w \in Withdrawal \ W /\ W \cup {w} = withdrawals
      BY <1>0, FiniteSubset DEF Wallet, Places, Keeps
    <3> HIDE DEF W
    <3>2. InWithdrawals(W \cup {w}, s) = InWithdrawals(W, s) + w.money[s] /\ InWithdrawals(W, s) \in Nat
      BY <3>1, Withdrawals
    <3> QED
      BY <3>1, <3>2
  <2>2. /\ InWithdrawals(withdrawals, s) \in Nat /\ InEscrows(escrows, s) \in Nat
        /\ InConversions(conversions) \in Nat /\ w.money[s] \in Nat /\ Zero[s] = 0
    BY <1>0, KeptNat, ZeroMoney DEF Wallet, Places, Money
  <2> QED
    BY <1>3, <2>1, <2>2 DEF KeptNow, Kept
<1> QED
  BY Zenon, <1>0, <1>1, <1>2, <1>3, <1>4, <1>5, <1>6, ZeroMoney, SavingsStep

\* convert
LEMMA ConvertKeeps ==
    ASSUME Wallet, NEW owner \in Account, NEW m \in Money, NEW id \in RequestId, Convert(owner, m, id)
    PROVE  Wallet'
<1> DEFINE c == [owner |-> owner, id |-> id, gbg |-> m["GBG"], date |-> now + ConversionDelay]
<1>1. PICK I \in Earning({owner}) :
           balance' = Adjusted(balance, At(owner, m), At(owner, Zero), I) /\ supply' = Plus(supply, Paid(I))
  BY Zenon DEF Convert
<1>2. I \in SUBSET Account
  BY EarningFact
<1>3. /\ UNCHANGED <<now, savings, withdrawals, escrows, price>> /\ Covers(balance[owner], m)
      /\ conversions' = conversions \cup {c} /\ m["GOLOS"] = 0
      /\ ~\E d \in conversions : d.owner = owner /\ d.id = id
  BY Zenon DEF Convert
<1>4. c \in Conversion /\ c \notin conversions /\ c.gbg = m["GBG"]
  <2>1. now + ConversionDelay \in Nat /\ m["GBG"] \in Nat
    BY DelayAssumption DEF Wallet, Money, Symbol
  <2> QED
    BY Zenon, <1>3, <2>1 DEF Conversion
<1> HIDE DEF c
<1>5. Keeps(withdrawals', escrows', conversions')
  BY Zenon, <1>3, <1>4, FiniteAdd DEF Wallet, Places, Keeps
<1>6. Fills(m, Zero)
  <2> SUFFICES ASSUME NEW s \in Symbol PROVE KeptNow(s)' = KeptNow(s) + m[s] - Zero[s]
    BY DEF Fills
  <2>1. InConversions(conversions') = InConversions(conversions) + m["GBG"]
    BY <1>3, <1>4, Conversions DEF Wallet, Places, Keeps
  <2>2. /\ InWithdrawals(withdrawals, s) \in Nat /\ InEscrows(escrows, s) \in Nat
        /\ InConversions(conversions) \in Nat /\ m[s] \in Nat /\ Zero[s] = 0
    BY KeptNat, ZeroMoney DEF Wallet, Places, Money
  <2>3. s = "GBG" \/ (s # "GBG" /\ m[s] = 0)
    BY <1>3 DEF Symbol
  <2> QED
    BY SMTT(60), <1>3, <2>1, <2>2, <2>3 DEF KeptNow, Kept
<1> QED
  BY Zenon, <1>1, <1>2, <1>3, <1>5, <1>6, ZeroMoney, BalanceStep

\* escrow_transfer
LEMMA EscrowTransferKeeps ==
    ASSUME Wallet, NEW from \in Account, NEW to \in Account, NEW agent \in Account, NEW id \in EscrowId,
           NEW m \in Money, NEW fee \in Money, NEW deadline \in Nat, NEW expiration \in Nat,
           EscrowTransfer(from, to, agent, id, m, fee, deadline, expiration)
    PROVE  Wallet'
<1> DEFINE e == [from |-> from, to |-> to, agent |-> agent, id |-> id,
                 deadline |-> deadline, expiration |-> expiration, money |-> m, fee |-> fee,
                 toApproved |-> FALSE, agentApproved |-> FALSE, disputed |-> FALSE]
<1>1. PICK I \in Earning({from}) :
           balance' = Adjusted(balance, At(from, Plus(m, fee)), At(from, Zero), I) /\ supply' = Plus(supply, Paid(I))
  BY Zenon DEF EscrowTransfer
<1>2. I \in SUBSET Account
  BY EarningFact
<1>3. /\ UNCHANGED <<now, savings, withdrawals, conversions, price>> /\ Covers(balance[from], Plus(m, fee))
      /\ escrows' = escrows \cup {e}
      /\ ~\E d \in escrows : d.from = from /\ d.id = id
  BY Zenon DEF EscrowTransfer
<1>4. e \in Escrow /\ e.money = m /\ e.fee = fee /\ e.from = from /\ e.id = id
  BY Zenon DEF Escrow
<1> HIDE DEF e
<1>5. e \notin escrows
  BY Zenon, <1>3, <1>4
<1>6. Keeps(withdrawals', escrows', conversions')
  BY Zenon, <1>3, <1>4, FiniteAdd DEF Wallet, Places, Keeps
<1>7. Plus(m, fee) \in Money
  BY DEF Plus, Money
<1>8. Fills(Plus(m, fee), Zero)
  <2> SUFFICES ASSUME NEW s \in Symbol PROVE KeptNow(s)' = KeptNow(s) + Plus(m, fee)[s] - Zero[s]
    BY Zenon DEF Fills
  <2>1. InEscrows(escrows', s) = InEscrows(escrows, s) + (m[s] + fee[s])
    BY Zenon, <1>3, <1>4, <1>5, Escrows DEF Wallet, Places, Keeps
  <2>2. /\ InWithdrawals(withdrawals, s) \in Nat /\ InEscrows(escrows, s) \in Nat
        /\ InConversions(conversions) \in Nat /\ m[s] \in Nat /\ fee[s] \in Nat /\ Zero[s] = 0
    BY KeptNat, ZeroMoney DEF Wallet, Places, Money
  <2>3. Plus(m, fee)[s] = m[s] + fee[s]
    BY Zenon DEF Plus
  <2> QED
    BY SMTT(60), <1>3, <2>1, <2>2, <2>3 DEF KeptNow, Kept
<1> QED
  BY Zenon, <1>1, <1>2, <1>3, <1>6, <1>7, <1>8, ZeroMoney, BalanceStep

\* An escrow leaves.
LEMMA EscrowLeaves ==
    ASSUME Wallet, NEW e \in escrows, escrows' = escrows \ {e}, UNCHANGED <<withdrawals, conversions>>
    PROVE  /\ Keeps(withdrawals', escrows', conversions')
           /\ \A s \in Symbol : KeptNow(s) = KeptNow(s)' + (e.money[s] + e.fee[s])
<1> DEFINE E == escrows \ {e}
<1>1. E \subseteq Escrow /\ IsFiniteSet(E) /\ e \in Escrow \ E /\ E \cup {e} = escrows
  BY FiniteSubset DEF Wallet, Places, Keeps
<1>2. Keeps(withdrawals', escrows', conversions')
  BY Zenon, <1>1 DEF Wallet, Places, Keeps
<1>3. ASSUME NEW s \in Symbol PROVE KeptNow(s) = KeptNow(s)' + (e.money[s] + e.fee[s])
  <2>1. InEscrows(escrows, s) = InEscrows(E, s) + (e.money[s] + e.fee[s]) /\ InEscrows(E, s) \in Nat
    <3> HIDE DEF E
    <3>1. InEscrows(E \cup {e}, s) = InEscrows(E, s) + (e.money[s] + e.fee[s]) /\ InEscrows(E, s) \in Nat
      BY <1>1, Escrows
    <3> QED
      BY Zenon, <1>1, <3>1
  <2>2. /\ InWithdrawals(withdrawals, s) \in Nat /\ InEscrows(escrows, s) \in Nat
        /\ InConversions(conversions) \in Nat /\ e.money[s] \in Nat /\ e.fee[s] \in Nat
    BY Zenon, <1>1, KeptNat DEF Wallet, Places, Escrow, Money
  <2> QED
    BY <2>1, <2>2 DEF KeptNow, Kept
<1> QED
  BY Zenon, <1>2, <1>3

\* An escrow is rewritten.
LEMMA EscrowRewritten ==
    ASSUME Wallet, NEW e \in escrows, NEW f \in Escrow, f.from = e.from, f.id = e.id,
           escrows' = (escrows \ {e}) \cup {f}, UNCHANGED <<withdrawals, conversions>>
    PROVE  /\ Keeps(withdrawals', escrows', conversions')
           /\ \A s \in Symbol : KeptNow(s)' = KeptNow(s) + (f.money[s] + f.fee[s]) - (e.money[s] + e.fee[s])
<1> DEFINE E == escrows \ {e}
<1>1. E \subseteq Escrow /\ IsFiniteSet(E) /\ e \in Escrow \ E /\ E \cup {e} = escrows
  BY FiniteSubset DEF Wallet, Places, Keeps
<1>2. f \notin E
  BY Zenon DEF Wallet, Places, Keeps
<1>3. Keeps(withdrawals', escrows', conversions')
  <2>1. escrows' \subseteq Escrow /\ IsFiniteSet(escrows')
    BY <1>1, FiniteAdd
  <2>2. \A c, d \in escrows' : c.from = d.from /\ c.id = d.id => c = d
    BY DEF Wallet, Places, Keeps
  <2> QED
    BY <2>1, <2>2 DEF Wallet, Places, Keeps
<1>4. ASSUME NEW s \in Symbol
      PROVE  KeptNow(s)' = KeptNow(s) + (f.money[s] + f.fee[s]) - (e.money[s] + e.fee[s])
  <2>1. /\ InEscrows(escrows, s) = InEscrows(E, s) + (e.money[s] + e.fee[s]) /\ InEscrows(E, s) \in Nat
        /\ InEscrows(escrows', s) = InEscrows(E, s) + (f.money[s] + f.fee[s])
    <3>1. escrows' = E \cup {f} /\ f \in Escrow \ E
      BY <1>2
    <3> HIDE DEF E
    <3>2. /\ InEscrows(E \cup {e}, s) = InEscrows(E, s) + (e.money[s] + e.fee[s]) /\ InEscrows(E, s) \in Nat
          /\ InEscrows(E \cup {f}, s) = InEscrows(E, s) + (f.money[s] + f.fee[s])
      BY <1>1, <3>1, Escrows
    <3> QED
      BY Zenon, <1>1, <3>1, <3>2
  <2>2. /\ InWithdrawals(withdrawals, s) \in Nat /\ InEscrows(escrows, s) \in Nat
        /\ InConversions(conversions) \in Nat /\ e.money[s] \in Nat /\ e.fee[s] \in Nat
        /\ f.money[s] \in Nat /\ f.fee[s] \in Nat
    BY Zenon, <1>1, KeptNat DEF Wallet, Places, Escrow, Money
  <2> QED
    BY <2>1, <2>2 DEF KeptNow, Kept
<1> QED
  BY <1>3, <1>4

\* escrow_approve: the fee goes to the agent with the second approval.
LEMMA ApproveKeeps ==
    ASSUME Wallet, NEW e \in escrows, NEW who, EscrowApprove(e, who)
    PROVE  Wallet'
<1> DEFINE f == ApprovedBy(e, who)
           g == [f EXCEPT !.fee = Zero]
<1>1. e \in Escrow /\ e.agent \in Account /\ e.money \in Money /\ e.fee \in Money
  BY Zenon DEF Wallet, Places, Keeps, Escrow
<1>2. f \in Escrow /\ f.from = e.from /\ f.id = e.id /\ f.money = e.money /\ f.fee = e.fee
  BY Zenon, <1>1 DEF Escrow, ApprovedBy
<1>3. g \in Escrow /\ g.from = e.from /\ g.id = e.id /\ g.money = e.money /\ g.fee = Zero
  <2> HIDE DEF f
  <2> QED
    BY Zenon, <1>2, ZeroMoney DEF Escrow
<1>4. UNCHANGED <<now, savings, withdrawals, conversions, price>>
  BY Zenon DEF EscrowApprove
<1>5. \/ escrows' = (escrows \ {e}) \cup {f} /\ UNCHANGED <<balance, supply>>
      \/ \E I \in Earning(Touched({e.agent}, e.fee)) :
               /\ escrows' = (escrows \ {e}) \cup {g}
               /\ balance' = Adjusted(balance, At(e.agent, Zero), At(e.agent, e.fee), I)
               /\ supply' = Plus(supply, Paid(I))
  BY Zenon DEF EscrowApprove
<1> HIDE DEF f, g
<1>6. ASSUME NEW s \in Symbol
      PROVE  e.money[s] \in Nat /\ e.fee[s] \in Nat /\ Zero[s] = 0 /\ KeptNow(s) \in Nat
  BY Zenon, <1>1, KeptNat, ZeroMoney DEF Money, KeptNow, Wallet, Places
<1>7. CASE escrows' = (escrows \ {e}) \cup {f} /\ UNCHANGED <<balance, supply>>
  <2>1. /\ Keeps(withdrawals', escrows', conversions')
        /\ \A s \in Symbol : KeptNow(s)' = KeptNow(s) + (f.money[s] + f.fee[s]) - (e.money[s] + e.fee[s])
    BY Zenon, <1>2, <1>4, <1>7, EscrowRewritten
  <2>2. Fills(Zero, Zero)
    BY <1>2, <1>6, <2>1 DEF Fills
  <2> QED
    BY Zenon, <1>4, <1>7, <2>1, <2>2, EscrowStep
<1>8. ASSUME NEW I \in Earning(Touched({e.agent}, e.fee)),
             escrows' = (escrows \ {e}) \cup {g},
             balance' = Adjusted(balance, At(e.agent, Zero), At(e.agent, e.fee), I),
             supply' = Plus(supply, Paid(I))
      PROVE  Wallet'
  <2>1. /\ Keeps(withdrawals', escrows', conversions')
        /\ \A s \in Symbol : KeptNow(s)' = KeptNow(s) + (g.money[s] + g.fee[s]) - (e.money[s] + e.fee[s])
    BY Zenon, <1>3, <1>4, <1>8, EscrowRewritten
  <2>2. Fills(Zero, e.fee)
    BY <1>3, <1>6, <2>1 DEF Fills
  <2>3. I \in SUBSET Account
    BY <1>1, EarningFact, TouchedFact
  <2>4. Covers(balance[e.agent], Zero)
    BY Zenon, <1>1, CoversZero DEF Wallet, Places
  <2> QED
    BY Zenon, <1>1, <1>4, <1>8, <2>1, <2>2, <2>3, <2>4, ZeroMoney, BalanceStep
<1> QED
  BY <1>5, <1>7, <1>8

\* escrow_approve that rejects: everything goes back.
LEMMA RejectKeeps ==
    ASSUME Wallet, NEW e \in escrows, NEW who, EscrowReject(e, who)
    PROVE  Wallet'
<1> DEFINE m == Plus(e.money, e.fee)
<1>1. e \in Escrow /\ e.from \in Account /\ e.money \in Money /\ e.fee \in Money
  BY Zenon DEF Wallet, Places, Keeps, Escrow
<1>2. UNCHANGED <<now, savings, withdrawals, conversions, price>> /\ escrows' = escrows \ {e}
  BY Zenon DEF EscrowReject
<1>3. PICK I \in Earning({e.from}) :
           balance' = Adjusted(balance, At(e.from, Zero), At(e.from, m), I) /\ supply' = Plus(supply, Paid(I))
  BY Zenon DEF EscrowReject
<1>4. I \in SUBSET Account
  BY <1>1, EarningFact
<1>5. m \in Money /\ \A s \in Symbol : m[s] = e.money[s] + e.fee[s]
  BY <1>1 DEF Plus, Money
<1> HIDE DEF m
<1>6. /\ Keeps(withdrawals', escrows', conversions')
      /\ \A s \in Symbol : KeptNow(s) = KeptNow(s)' + (e.money[s] + e.fee[s])
  BY Zenon, <1>2, EscrowLeaves
<1>7. Fills(Zero, m)
  <2> SUFFICES ASSUME NEW s \in Symbol PROVE KeptNow(s)' = KeptNow(s) + Zero[s] - m[s]
    BY DEF Fills
  <2>1. KeptNow(s)' \in Nat /\ m[s] \in Nat /\ Zero[s] = 0
    BY Zenon, <1>5, <1>6, KeptNat, ZeroMoney DEF KeptNow, Money
  <2>2. KeptNow(s) = KeptNow(s)' + m[s]
    BY Zenon, <1>5, <1>6
  <2> QED
    BY <2>1, <2>2
<1>8. Covers(balance[e.from], Zero)
  BY <1>1, CoversZero DEF Wallet, Places
<1> QED
  BY Zenon, <1>1, <1>2, <1>3, <1>4, <1>5, <1>6, <1>7, <1>8, ZeroMoney, BalanceStep

\* escrow_dispute
LEMMA DisputeKeeps ==
    ASSUME Wallet, NEW e \in escrows, EscrowDispute(e)
    PROVE  Wallet'
<1> DEFINE f == [e EXCEPT !.disputed = TRUE]
<1>1. e \in Escrow /\ e.money \in Money /\ e.fee \in Money
  BY Zenon DEF Wallet, Places, Keeps, Escrow
<1>2. f \in Escrow /\ f.from = e.from /\ f.id = e.id /\ f.money = e.money /\ f.fee = e.fee
  BY Zenon, <1>1 DEF Escrow
<1>3. UNCHANGED <<now, balance, savings, withdrawals, conversions, supply, price>>
      /\ escrows' = (escrows \ {e}) \cup {f}
  BY Zenon DEF EscrowDispute
<1> HIDE DEF f
<1>4. /\ Keeps(withdrawals', escrows', conversions')
      /\ \A s \in Symbol : KeptNow(s)' = KeptNow(s) + (f.money[s] + f.fee[s]) - (e.money[s] + e.fee[s])
  BY Zenon, <1>2, <1>3, EscrowRewritten
<1>5. Fills(Zero, Zero)
  <2> SUFFICES ASSUME NEW s \in Symbol PROVE KeptNow(s)' = KeptNow(s) + Zero[s] - Zero[s]
    BY Zenon DEF Fills
  <2>1. e.money[s] \in Nat /\ e.fee[s] \in Nat /\ Zero[s] = 0 /\ KeptNow(s) \in Nat
    BY <1>1, KeptNat, ZeroMoney DEF Money, KeptNow, Wallet, Places
  <2> QED
    BY <1>2, <1>4, <2>1
<1> QED
  BY Zenon, <1>3, <1>4, <1>5, EscrowStep

\* escrow_release
LEMMA ReleaseKeeps ==
    ASSUME Wallet, EscrowInv, NEW e \in escrows, NEW who, NEW receiver \in Account, NEW m \in Money,
           EscrowRelease(e, who, receiver, m)
    PROVE  Wallet'
<1> DEFINE left == Minus(e.money, m)
           f == [e EXCEPT !.money = left]
<1>1. e \in Escrow /\ e.money \in Money /\ e.fee \in Money
  BY Zenon DEF Wallet, Places, Keeps, Escrow
<1>2. /\ UNCHANGED <<now, savings, withdrawals, conversions, price>> /\ Covers(e.money, m) /\ Approved(e)
      /\ escrows' = (escrows \ {e}) \cup (IF left = Zero THEN {} ELSE {f})
  BY Zenon DEF EscrowRelease
<1>3. PICK I \in Earning({receiver}) :
           balance' = Adjusted(balance, At(receiver, Zero), At(receiver, m), I) /\ supply' = Plus(supply, Paid(I))
  BY Zenon DEF EscrowRelease
<1>4. I \in SUBSET Account
  BY EarningFact
<1>5. left \in Money /\ \A s \in Symbol : left[s] = e.money[s] - m[s]
  <2>1. left \in Money
    BY <1>1, <1>2, MoneyFact
  <2> QED
    BY Zenon, <2>1 DEF Minus
<1> HIDE DEF left
<1>6. f \in Escrow /\ f.from = e.from /\ f.id = e.id /\ f.money = left /\ f.fee = e.fee
  BY <1>1, <1>5 DEF Escrow
<1> HIDE DEF f
<1>7. e.fee = Zero
  BY Zenon, <1>2 DEF EscrowInv, Releasable
<1>8. Keeps(withdrawals', escrows', conversions') /\ Fills(Zero, m)
  <2>1. ASSUME NEW s \in Symbol
        PROVE  e.money[s] \in Nat /\ e.fee[s] = 0 /\ Zero[s] = 0 /\ KeptNow(s) \in Nat /\ m[s] \in Nat
               /\ left[s] = e.money[s] - m[s]
    BY Zenon, <1>1, <1>5, <1>7, KeptNat, ZeroMoney DEF Money, KeptNow, Wallet, Places
  <2>2. CASE left = Zero
    <3>1. escrows' = escrows \ {e}
      BY Zenon, <1>2, <2>2
    <3>2. /\ Keeps(withdrawals', escrows', conversions')
          /\ \A s \in Symbol : KeptNow(s) = KeptNow(s)' + (e.money[s] + e.fee[s])
      BY Zenon, <1>2, <3>1, EscrowLeaves
    <3>3. ASSUME NEW s \in Symbol PROVE KeptNow(s)' = KeptNow(s) + Zero[s] - m[s]
      <4>1. KeptNow(s)' \in Nat
        BY Zenon, <3>2, KeptNat DEF KeptNow
      <4>2. e.money[s] = m[s]
        <5>1. left[s] = 0
          BY Zenon, <2>1, <2>2
        <5>2. left[s] = e.money[s] - m[s] /\ e.money[s] \in Nat /\ m[s] \in Nat
          BY Zenon, <2>1
        <5> QED
          BY <5>1, <5>2
      <4>3. KeptNow(s) = KeptNow(s)' + (e.money[s] + e.fee[s])
        BY Zenon, <3>2
      <4> QED
        BY SMTT(60), <2>1, <4>1, <4>2, <4>3
    <3> QED
      BY Zenon, <3>2, <3>3 DEF Fills
  <2>3. CASE left # Zero
    <3>1. escrows' = (escrows \ {e}) \cup {f}
      BY Zenon, <1>2, <2>3
    <3>2. /\ Keeps(withdrawals', escrows', conversions')
          /\ \A s \in Symbol : KeptNow(s)' = KeptNow(s) + (f.money[s] + f.fee[s]) - (e.money[s] + e.fee[s])
      BY Zenon, <1>2, <1>6, <3>1, EscrowRewritten
    <3>3. ASSUME NEW s \in Symbol PROVE KeptNow(s)' = KeptNow(s) + Zero[s] - m[s]
      BY SMTT(60), <1>6, <2>1, <3>2
    <3> QED
      BY Zenon, <3>2, <3>3 DEF Fills
  <2> QED
    BY <2>2, <2>3
<1>9. Covers(balance[receiver], Zero)
  BY Zenon, CoversZero DEF Wallet, Places
<1> QED
  BY Zenon, <1>2, <1>3, <1>4, <1>8, <1>9, ZeroMoney, BalanceStep

\* What a conversion issues is a natural number.
LEMMA IssuedNat ==
    ASSUME NEW c \in Conversion, NEW p \in Nat
    PROVE  Issued(c, p) \in Nat
<1>1. c.gbg \in Nat /\ Unit \in Nat \ {0}
  BY Zenon, AmountAssumption DEF Conversion
<1>2. c.gbg * p \in Nat
  BY <1>1
<1>3. ASSUME NEW y \in Nat PROVE y \div Unit \in Nat
  BY <1>1
<1> QED
  BY Zenon, <1>2, <1>3 DEF Issued

\* Owner by owner, what the accounts are due is what leaves the conversions, withdrawals and escrows.
LEMMA DueSum ==
    ASSUME NEW C, NEW W, NEW E, Keeps(W, E, C), NEW p \in Nat
    PROVE  /\ [a \in Account |-> Due(a, C, W, E, p)] \in [Account -> Money]
           /\ SumOver(Issues(C, p), C) \in Nat
           /\ \A s \in Symbol : InAccounts([a \in Account |-> Due(a, C, W, E, p)], s)
                = (IF s = "GOLOS" THEN SumOver(Issues(C, p), C) ELSE 0) + InWithdrawals(W, s) + InEscrows(E, s)
<1> DEFINE in == [a \in Account |-> Due(a, C, W, E, p)]
           oC == [c \in C |-> c.owner]
           oW == [w \in W |-> w.to]
           oE == [e \in E |-> e.from]
           gC == [a \in Account |-> SumOver(Issues(C, p), {c \in C : c.owner = a})]
           gW(s) == [a \in Account |-> SumOver(Withdrawn(W, s), {w \in W : w.to = a})]
           gE(s) == [a \in Account |-> SumOver(Escrowed(E, s), {e \in E : e.from = a})]
<1>1. /\ W \subseteq Withdrawal /\ IsFiniteSet(W) /\ E \subseteq Escrow /\ IsFiniteSet(E)
      /\ C \subseteq Conversion /\ IsFiniteSet(C) /\ IsFiniteSet(Account)
  BY Zenon, AccountAssumption DEF Keeps
<1>2. /\ \A c \in C : oC[c] \in Account
      /\ \A w \in W : oW[w] \in Account
      /\ \A e \in E : oE[e] \in Account
  BY Zenon, <1>1 DEF Conversion, Withdrawal, Escrow
<1>3. NatOn(Issues(C, p), C) /\ IntOn(Issues(C, p), C)
  BY <1>1, IssuedNat DEF NatOn, IntOn, Issues
<1>4. ASSUME NEW s \in Symbol
      PROVE  /\ NatOn(Withdrawn(W, s), W) /\ IntOn(Withdrawn(W, s), W)
             /\ NatOn(Escrowed(E, s), E) /\ IntOn(Escrowed(E, s), E)
  BY <1>1 DEF NatOn, IntOn, Withdrawn, Escrowed, Withdrawal, Escrow, Money
<1>5. SumOver(Issues(C, p), C) \in Nat
  BY Zenon, <1>1, <1>3, SumNat
<1>6. ASSUME NEW a \in Account
      PROVE  gC[a] \in Nat
  <2>1. {c \in C : c.owner = a} \subseteq C
    BY Zenon
  <2> QED
    BY <1>1, <1>3, <2>1, SumAtLeast
<1>7. ASSUME NEW a \in Account, NEW s \in Symbol
      PROVE  gW(s)[a] \in Nat /\ gE(s)[a] \in Nat
  <2>1. {w \in W : w.to = a} \subseteq W /\ {e \in E : e.from = a} \subseteq E
    OBVIOUS
  <2> QED
    BY <1>1, <1>4, <2>1, SumAtLeast
<1>8. ASSUME NEW a \in Account, NEW s \in Symbol
      PROVE  in[a][s] = (IF s = "GOLOS" THEN gC[a] ELSE 0) + gW(s)[a] + gE(s)[a]
  BY Zenon DEF Due
<1>9. in \in [Account -> Money]
  <2>1. ASSUME NEW a \in Account PROVE in[a] \in Money
    <3>1. ASSUME NEW s \in Symbol PROVE in[a][s] \in Nat
      <4>1. gC[a] \in Nat /\ gW(s)[a] \in Nat /\ gE(s)[a] \in Nat
        BY <1>6, <1>7
      <4>2. in[a][s] = (IF s = "GOLOS" THEN gC[a] ELSE 0) + gW(s)[a] + gE(s)[a]
        BY Zenon, <1>8
      <4> HIDE DEF in, gC, gW, gE
      <4> QED
        BY <4>1, <4>2
    <3>2. in[a] = [s \in Symbol |-> in[a][s]]
      BY Zenon DEF Due
    <3> QED
      BY <3>1, <3>2 DEF Money
  <2> QED
    BY Zenon, <2>1
<1>10. SumOver(gC, Account) = SumOver(Issues(C, p), C)
  <2>1. ByPart(gC, Issues(C, p), oC, Account, C)
    BY Zenon DEF ByPart, PartOf
  <2> HIDE DEF gC, oC
  <2> QED
    BY SMTT(60), <1>1, <1>2, <1>3, <2>1, SumPartition
<1>11. ASSUME NEW s \in Symbol
       PROVE  InAccounts(in, s) = (IF s = "GOLOS" THEN SumOver(Issues(C, p), C) ELSE 0)
                                   + InWithdrawals(W, s) + InEscrows(E, s)
  <2> DEFINE h == [a \in Account |-> gW(s)[a] + gE(s)[a]]
             k == [a \in Account |-> IF s = "GOLOS" THEN gC[a] ELSE 0]
             fW == gW(s)
             fE == gE(s)
             f == Of(in, s)
  <2>1. SumOver(fW, Account) = InWithdrawals(W, s)
    <3>1. ByPart(fW, Withdrawn(W, s), oW, Account, W)
      BY Zenon DEF ByPart, PartOf
    <3> HIDE DEF fW, oW
    <3>2. SumOver(fW, Account) = SumOver(Withdrawn(W, s), W)
      BY SMTT(60), <1>1, <1>2, <1>4, <3>1, SumPartition
    <3> QED
      BY Zenon, <3>2 DEF InWithdrawals
  <2>2. SumOver(fE, Account) = InEscrows(E, s)
    <3>1. ByPart(fE, Escrowed(E, s), oE, Account, E)
      BY Zenon DEF ByPart, PartOf
    <3> HIDE DEF fE, oE
    <3>2. SumOver(fE, Account) = SumOver(Escrowed(E, s), E)
      BY SMTT(60), <1>1, <1>2, <1>4, <3>1, SumPartition
    <3> QED
      BY Zenon, <3>2 DEF InEscrows
  <2>3. IntOn(fW, Account) /\ IntOn(fE, Account) /\ IntOn(h, Account) /\ IntOn(k, Account)
    <3>1. \A a \in Account : gW(s)[a] \in Nat /\ gE(s)[a] \in Nat /\ gC[a] \in Nat
      BY Zenon, <1>6, <1>7
    <3> HIDE DEF gW, gE, gC
    <3> QED
      BY SMTT(60), <3>1 DEF IntOn
  <2>4. AddsOn(h, fW, fE, Account)
    BY Zenon DEF AddsOn
  <2>5. AddsOn(f, k, h, Account)
    <3> SUFFICES ASSUME NEW a \in Account PROVE f[a] = k[a] + h[a]
      BY Zenon DEF AddsOn
    <3>1. f[a] = (IF s = "GOLOS" THEN gC[a] ELSE 0) + gW(s)[a] + gE(s)[a]
      BY Zenon, <1>8 DEF Of
    <3>2. gC[a] \in Nat /\ gW(s)[a] \in Nat /\ gE(s)[a] \in Nat
      BY Zenon, <1>6, <1>7
    <3>3. k[a] = (IF s = "GOLOS" THEN gC[a] ELSE 0) /\ h[a] = gW(s)[a] + gE(s)[a]
      BY Zenon
    <3> HIDE DEF f, k, h, gC, gW, gE
    <3> QED
      BY <3>1, <3>2, <3>3
  <2>6. SumOver(k, Account) = IF s = "GOLOS" THEN SumOver(Issues(C, p), C) ELSE 0
    <3>1. CASE s = "GOLOS"
      <4>1. AgreeOn(k, gC, Account)
        BY Zenon, <3>1 DEF AgreeOn
      <4> HIDE DEF k, gC
      <4>2. SumOver(k, Account) = SumOver(gC, Account)
        BY Zenon, <1>1, <2>3, <4>1, SumCong
      <4> QED
        BY <1>10, <3>1, <4>2
    <3>2. CASE s # "GOLOS"
      <4>1. ConstOn(k, 0, Account) /\ 0 \in Int
        BY <3>2 DEF ConstOn
      <4> HIDE DEF k
      <4>2. SumOver(k, Account) = 0 * Cardinality(Account)
        BY <1>1, <4>1, SumSteady
      <4>3. Cardinality(Account) \in Nat
        BY <1>1, CardinalityNat
      <4>4. 0 * Cardinality(Account) = 0
        BY <4>3
      <4> QED
        BY <3>2, <4>2, <4>4
    <3> QED
      BY Zenon, <3>1, <3>2
  <2> HIDE DEF f, k, h, fW, fE
  <2>7. SumOver(f, Account) = SumOver(k, Account) + SumOver(h, Account)
    BY <1>1, <2>3, <2>5, SumPlus
  <2>8. SumOver(h, Account) = SumOver(fW, Account) + SumOver(fE, Account)
    BY <1>1, <2>3, <2>4, SumPlus
  <2>9. InWithdrawals(W, s) \in Nat /\ InEscrows(E, s) \in Nat
    BY Zenon, KeptNat
  <2>10. InAccounts(in, s) = SumOver(f, Account)
    BY Zenon DEF InAccounts, f
  <2> HIDE DEF in
  <2> QED
    BY <1>5, <2>1, <2>2, <2>6, <2>7, <2>8, <2>9, <2>10
<1> HIDE DEF in
<1> QED
  BY <1>5, <1>9, <1>11 DEF in

\* A block burns what the null account has, converts, pays withdrawals and returns escrows.
LEMMA BlockKeeps ==
    ASSUME Wallet, NEW p \in Nat, Block(p)
    PROVE  Wallet'
<1> DEFINE C == Matured(now + 1, p)
           W == Completed(now + 1)
           E == Unratified(now + 1)
           in == [a \in Account |-> Due(a, C, W, E, p)]
           b == balance[Null]
           v == savings[Null]
<1>1. C \in SUBSET conversions /\ W \in SUBSET withdrawals /\ E \in SUBSET escrows
  BY Zenon DEF Matured, Completed, Unratified
<1>2. /\ now' = now + 1 /\ price' = p /\ conversions' = conversions \ C
      /\ withdrawals' = withdrawals \ W /\ escrows' = escrows \ E
  BY Zenon DEF Block
<1>3. PICK I \in Earning(Touched({Null}, b) \cup (UNION {Touched({w.to}, w.money) : w \in W}) \cup {e.from : e \in E}),
           J \in Earning(Touched({Null}, v)) :
             /\ balance' = Adjusted(balance, At(Null, b), in, I)
             /\ savings' = Adjusted(savings, At(Null, v), At(Null, Zero), J)
             /\ supply' = Plus(Converted(Minus(supply, Burned), C, p), Plus(Paid(I), Paid(J)))
  BY Zenon DEF Block
<1>4. I \in SUBSET Account /\ J \in SUBSET Account
  <2>1. (\A w \in W : w.to \in Account) /\ (\A e \in E : e.from \in Account) /\ Null \in Account
    BY Zenon, <1>1, AccountAssumption DEF Wallet, Places, Keeps, Withdrawal, Escrow
  <2>2. Touched({Null}, b) \cup (UNION {Touched({w.to}, w.money) : w \in W}) \cup {e.from : e \in E} \in SUBSET Account
    BY Zenon, <2>1 DEF Touched
  <2>3. Touched({Null}, v) \in SUBSET Account
    BY Zenon, <2>1, TouchedFact
  <2> HIDE DEF W, E
  <2> QED
    BY Zenon, <2>2, <2>3, EarningFact
<1> HIDE DEF C, W, E
<1>5. Keeps(W, E, C) /\ Keeps(withdrawals', escrows', conversions')
  <2>1. IsFiniteSet(W) /\ IsFiniteSet(E) /\ IsFiniteSet(C)
    BY <1>1, FiniteSubset DEF Wallet, Places, Keeps
  <2>2. IsFiniteSet(withdrawals') /\ IsFiniteSet(escrows') /\ IsFiniteSet(conversions')
    BY <1>2, FiniteSubset DEF Wallet, Places, Keeps
  <2> QED
    BY Zenon, <1>1, <1>2, <2>1, <2>2 DEF Wallet, Places, Keeps
<1>6. /\ in \in [Account -> Money]
      /\ SumOver(Issues(C, p), C) \in Nat
      /\ \A s \in Symbol : InAccounts(in, s)
           = (IF s = "GOLOS" THEN SumOver(Issues(C, p), C) ELSE 0) + InWithdrawals(W, s) + InEscrows(E, s)
  BY SMTT(60), <1>5, DueSum
<1> HIDE DEF in
<1>7. /\ Null \in Account /\ b \in Money /\ v \in Money
      /\ balance \in [Account -> Money] /\ savings \in [Account -> Money] /\ supply \in Money
  BY Zenon, AccountAssumption DEF Wallet, Places
<1>8. At(Null, b) \in [Account -> Money] /\ Spends(balance, At(Null, b))
  <2>1. At(Null, b) \in [Account -> Money]
    BY <1>7, AtMoney
  <2>2. ASSUME NEW a \in Account PROVE Covers(balance[a], At(Null, b)[a])
    <3>1. CASE a = Null
      BY <1>7, <3>1 DEF At, Covers, Money
    <3>2. CASE a # Null
      BY <1>7, <3>2, CoversZero DEF At
    <3> QED
      BY <3>1, <3>2
  <2> QED
    BY <2>1, <2>2 DEF Spends
<1>9. balance' \in [Account -> Money]
  BY Zenon, <1>3, <1>4, <1>6, <1>7, <1>8, AdjustedMoney
<1>10. ASSUME NEW s \in Symbol
       PROVE  InAccounts(balance', s) = InAccounts(balance, s) + InAccounts(in, s) - b[s] + Paid(I)[s]
  <2>1. Amount(balance) /\ Amount(At(Null, b)) /\ Amount(in)
    BY SMTT(60), <1>6, <1>7, <1>8 DEF Amount, Money
  <2>2. InAccounts(At(Null, b), s) = b[s]
    BY Zenon, <1>7, AtSum
  <2>3. InAccounts(Adjusted(balance, At(Null, b), in, I), s)
          = InAccounts(balance, s) + InAccounts(in, s) - InAccounts(At(Null, b), s) + Paid(I)[s]
    BY SMTT(60), <1>4, <2>1, AdjustedSum
  <2> QED
    BY Zenon, <1>3, <2>2, <2>3
<1>11. /\ savings' \in [Account -> Money]
       /\ \A s \in Symbol : InAccounts(savings', s) = InAccounts(savings, s) + Zero[s] - v[s] + Paid(J)[s]
  <2>1. Covers(savings[Null], v)
    BY <1>7 DEF Covers, Money
  <2>2. Zero \in Money
    BY Zenon, ZeroMoney
  <2> HIDE DEF v
  <2>3. /\ Adjusted(savings, At(Null, v), At(Null, Zero), J) \in [Account -> Money]
        /\ \A s \in Symbol : InAccounts(Adjusted(savings, At(Null, v), At(Null, Zero), J), s)
                               = InAccounts(savings, s) + Zero[s] - v[s] + Paid(J)[s]
    BY SMTT(60), <1>4, <1>7, <2>1, <2>2, Moved
  <2> QED
    BY Zenon, <1>3, <2>3
<1>12. Places(balance', savings', withdrawals', escrows', conversions')
  BY <1>5, <1>9, <1>11 DEF Places
<1>13. Balanced
  <2> SUFFICES ASSUME NEW s \in Symbol PROVE supply'[s] = supply[s] + (HeldNow(s)' - HeldNow(s))
    BY Zenon DEF Balanced
  <2> DEFINE issues == SumOver(Issues(C, p), C)
             burns == InConversions(C)
  <2>1. supply'[s] = (IF s = "GOLOS" THEN supply[s] - (b[s] + v[s]) + issues
                      ELSE supply[s] - (b[s] + v[s]) - burns) + (Paid(I)[s] + Paid(J)[s])
    BY Zenon, <1>3 DEF Plus, Minus, Converted, Burned, InConversions
  <2>2. Paid(I)[s] \in Nat /\ Paid(J)[s] \in Nat
    BY <1>4, PaidNat
  <2>3. b[s] \in Nat /\ v[s] \in Nat /\ supply[s] \in Nat /\ Zero[s] = 0
    BY <1>7, ZeroMoney DEF Money
  <2>4. /\ InAccounts(balance, s) \in Nat /\ InAccounts(savings, s) \in Nat
        /\ InWithdrawals(withdrawals, s) \in Nat /\ InEscrows(escrows, s) \in Nat
        /\ InConversions(conversions) \in Nat
    BY HeldNat, KeptNat DEF Wallet, Places
  <2>5. InWithdrawals(W, s) \in Nat /\ InEscrows(E, s) \in Nat /\ burns \in Nat
    BY <1>5, KeptNat
  <2>6. InWithdrawals(withdrawals', s) = InWithdrawals(withdrawals, s) - InWithdrawals(W, s)
    BY <1>1, <1>2, Withdrawals DEF Wallet, Places, Keeps
  <2>7. InEscrows(escrows', s) = InEscrows(escrows, s) - InEscrows(E, s)
    BY <1>1, <1>2, Escrows DEF Wallet, Places, Keeps
  <2>8. InConversions(conversions') = InConversions(conversions) - burns
    BY <1>1, <1>2, Conversions DEF Wallet, Places, Keeps
  <2>9. InAccounts(in, s) = (IF s = "GOLOS" THEN issues ELSE 0) + InWithdrawals(W, s) + InEscrows(E, s) /\ issues \in Nat
    BY <1>6
  <2>10. InAccounts(balance', s) = InAccounts(balance, s) + InAccounts(in, s) - b[s] + Paid(I)[s]
    BY <1>10
  <2>11. InAccounts(savings', s) = InAccounts(savings, s) - v[s] + Paid(J)[s]
    BY <1>11, <2>2, <2>3, <2>4
  <2>12. /\ HeldNow(s) = InAccounts(balance, s) + InAccounts(savings, s)
                         + (InWithdrawals(withdrawals, s) + InEscrows(escrows, s)
                            + (IF s = "GBG" THEN InConversions(conversions) ELSE 0))
         /\ HeldNow(s)' = InAccounts(balance', s) + InAccounts(savings', s)
                         + (InWithdrawals(withdrawals', s) + InEscrows(escrows', s)
                            + (IF s = "GBG" THEN InConversions(conversions') ELSE 0))
    BY DEF HeldNow, Held, Kept
  <2> HIDE DEF issues, burns, b, v
  <2>13. CASE s = "GOLOS"
    BY SMTT(60), <2>1, <2>2, <2>3, <2>4, <2>5, <2>6, <2>7, <2>9, <2>10, <2>11, <2>12, <2>13
  <2>14. CASE s = "GBG"
    BY SMTT(60), <2>1, <2>2, <2>3, <2>4, <2>5, <2>6, <2>7, <2>8, <2>9, <2>10, <2>11, <2>12, <2>14
  <2> QED
    BY <2>13, <2>14 DEF Symbol
<1>14. now' \in Nat /\ price' \in Nat
  BY <1>2 DEF Wallet
<1>15. supply' = [s \in Symbol |-> supply'[s]]
  BY <1>3 DEF Plus
<1> QED
  BY <1>12, <1>13, <1>14, <1>15, WalletStep

LEMMA WalletNext == Wallet /\ EscrowInv /\ [Next]_vars => Wallet'
<1> SUFFICES ASSUME Wallet, EscrowInv, [Next]_vars PROVE Wallet'
  BY Zenon
<1>1. /\ Holder \subseteq Account /\ Receiver \subseteq Account /\ Agent \subseteq Account
      /\ Amounts \subseteq Money /\ EscrowAmounts \subseteq Money /\ Fees \subseteq Money
      /\ Prices \subseteq Nat /\ 1..MaxTime + 1 \subseteq Nat
  BY AccountAssumption, AmountAssumption, DelayAssumption
<1>2. CASE UNCHANGED vars
  BY <1>2 DEF vars, Wallet, SupplyMatches
<1>3. ASSUME NEW from \in Holder, NEW to \in Receiver \cup {from}, NEW m \in Amounts,
             \/ Transfer(from, to, m) \/ TransferToSavings(from, to, m)
             \/ \E id \in RequestId : TransferFromSavings(from, to, m, id)
      PROVE  Wallet'
  <2>1. from \in Account /\ to \in Account /\ m \in Money
    BY <1>1
  <2> QED
    BY <1>3, <2>1, TransferKeeps, ToSavingsKeeps, FromSavingsKeeps
<1>4. ASSUME NEW owner \in Holder, NEW m \in Amounts, NEW id \in RequestId, Convert(owner, m, id) PROVE Wallet'
  <2>1. owner \in Account /\ m \in Money
    BY <1>1
  <2> QED
    BY <1>4, <2>1, ConvertKeeps
<1>5. ASSUME NEW from \in Holder, NEW to \in Receiver, NEW agent \in Agent, NEW id \in EscrowId,
             NEW m \in EscrowAmounts, NEW fee \in Fees, NEW deadline \in 1..MaxTime + 1, NEW expiration \in 1..MaxTime + 1,
             EscrowTransfer(from, to, agent, id, m, fee, deadline, expiration)
      PROVE  Wallet'
  <2>1. from \in Account /\ to \in Account /\ agent \in Account /\ m \in Money /\ fee \in Money
        /\ deadline \in Nat /\ expiration \in Nat
    BY <1>1
  <2> QED
    BY <1>5, <2>1, EscrowTransferKeeps
<1>6. ASSUME NEW e \in escrows, NEW who, NEW receiver \in Account, NEW m \in EscrowAmounts, EscrowRelease(e, who, receiver, m)
      PROVE  Wallet'
  <2>1. m \in Money
    BY <1>1
  <2> QED
    BY <1>6, <2>1, ReleaseKeeps
<1>7. ASSUME NEW p \in Prices, Block(p) PROVE Wallet'
  <2>1. p \in Nat
    BY Zenon, <1>1
  <2> QED
    BY <1>7, <2>1, BlockKeeps
<1> QED
  BY Zenon, <1>2, <1>3, <1>4, <1>5, <1>6, <1>7, CancelKeeps, ApproveKeeps, RejectKeeps, DisputeKeeps DEF Next

LEMMA WalletInit == Init => Wallet
<1> SUFFICES ASSUME Init PROVE Wallet
  BY Zenon
<1>1. /\ now = 0 /\ balance = Opening /\ savings = [a \in Account |-> Zero]
      /\ withdrawals = {} /\ escrows = {} /\ conversions = {} /\ price \in Prices
      /\ supply = [s \in Symbol |-> SumOver(Of(Opening, s), Account)]
  BY Zenon DEF Init
<1>2. now \in Nat /\ price \in Nat /\ Keeps(withdrawals, escrows, conversions)
  BY <1>1, AmountAssumption, FiniteEmpty DEF Keeps
<1>3. Places(balance, savings, withdrawals, escrows, conversions)
  BY <1>1, <1>2, AmountAssumption, ZeroMoney DEF Places
<1>4. ASSUME NEW s \in Symbol PROVE supply[s] = HeldNow(s) /\ supply[s] \in Nat
  <2>1. InWithdrawals({}, s) = 0 /\ InEscrows({}, s) = 0 /\ InConversions({}) = 0
    BY Zenon, SumEmpty DEF InWithdrawals, InEscrows, InConversions
  <2>2. InAccounts(savings, s) = 0
    <3>1. ConstOn(Of(savings, s), 0, Account) /\ 0 \in Int
      BY SMTT(60), <1>1, ZeroMoney DEF ConstOn, Of
    <3>2. SumOver(Of(savings, s), Account) = 0 * Cardinality(Account)
      BY <3>1, AccountAssumption, SumSteady
    <3>3. Cardinality(Account) \in Nat
      BY AccountAssumption, CardinalityNat
    <3>4. 0 * Cardinality(Account) = 0
      BY <3>3
    <3> QED
      BY <3>2, <3>4 DEF InAccounts
  <2>3. supply[s] = InAccounts(balance, s) /\ InAccounts(balance, s) \in Nat
    BY Zenon, <1>1, <1>3, HeldNat DEF InAccounts
  <2>4. HeldNow(s) = InAccounts(balance, s) + InAccounts(savings, s)
                     + (InWithdrawals({}, s) + InEscrows({}, s) + (IF s = "GBG" THEN InConversions({}) ELSE 0))
    BY <1>1 DEF HeldNow, Held, Kept
  <2> QED
    BY <2>1, <2>2, <2>3, <2>4
<1>5. SupplyMatches
  BY <1>3, <1>4, HeldIs DEF SupplyMatches, HeldNow
<1>6. supply \in Money
  BY <1>1, <1>4 DEF Money
<1> QED
  BY <1>2, <1>3, <1>5, <1>6 DEF Wallet

(***************************************************************************)
(* validate_invariants: current_supply and current_sbd_supply are what the  *)
(* accounts, withdrawals, escrows and conversions hold together, after any  *)
(* operations and blocks, for any accounts, amounts, prices and interest.   *)
(***************************************************************************)
THEOREM SupplyAccounted == Spec => []SupplyMatches
<1>1. Init => EscrowInv
  BY DEF Init, EscrowInv
<1>2. Wallet => SupplyMatches
  BY DEF Wallet
<1> QED
  BY <1>1, <1>2, WalletInit, WalletNext, EscrowNext, PTL DEF Spec

(***************************************************************************)
(* No balance, no savings and no supply is ever negative.                   *)
(***************************************************************************)
THEOREM FundsTyped == Spec => []TypeOK
<1>1. Init => EscrowInv
  BY DEF Init, EscrowInv
<1>2. Wallet /\ CountInv => TypeOK
  BY DEF Wallet, Places, Keeps, CountInv, TypeOK
<1> QED
  BY <1>1, <1>2, CountInit, WalletInit, WalletNext, EscrowNext, CountNext, PTL DEF Spec
=============================================================================
