-------------------------------- MODULE Funds --------------------------------
(***************************************************************************)
(* Where liquid tokens can be (libraries/chain/steem_evaluator.cpp,         *)
(* database.cpp): balances, savings and withdrawals from them, escrows and  *)
(* conversions from GBG to GOLOS, the operations that move tokens between   *)
(* them and what every block does with those that are due.                  *)
(*                                                                          *)
(* Interest on GBG is paid whenever a GBG balance is adjusted; its amount   *)
(* depends on the time the balance was held and is left open here.          *)
(***************************************************************************)
EXTENDS Naturals, FiniteSets, Summation

CONSTANTS
    Account,
    Null,           \* STEEMIT_NULL_ACCOUNT
    Holder,         \* bound: the accounts that start transfers, escrows and conversions,
    Receiver, Agent,\* bound: those they transfer to, apart from themselves, and their agents
    EscrowId, RequestId,
    Amounts,        \* the amounts operations name: an asset of one symbol
    EscrowAmounts,  \* the amounts of both symbols escrows hold and release
    Fees,           \* the fees escrows name
    Prices,         \* median feed prices, GOLOS for Unit GBG; 0 is the null price
    Unit,
    Opening,        \* the balances at the start
    WithdrawTime,   \* STEEMIT_SAVINGS_WITHDRAW_TIME
    ConversionDelay,\* STEEMIT_CONVERSION_DELAY
    RequestLimit,   \* STEEMIT_SAVINGS_WITHDRAW_REQUEST_LIMIT
    MaxTime,        \* bound: time of the last block
    Interest,       \* the interest an account is paid
    MaxGbg          \* bound: supply of GBG up to which interest is paid

Symbol == {"GOLOS", "GBG"}
Money == [Symbol -> Nat]
Zero == [s \in Symbol |-> 0]

ASSUME AccountAssumption == IsFiniteSet(Account) /\ Null \in Account /\ Receiver \cup Agent \subseteq Account
                            /\ Holder \subseteq Account \ {Null}

ASSUME AmountAssumption == /\ Amounts \cup EscrowAmounts \subseteq Money \ {Zero}
                           /\ Fees \subseteq Money
                           /\ Opening \in [Account -> Money]
                           /\ Prices \subseteq Nat
                           /\ Unit \in Nat \ {0}

ASSUME DelayAssumption == /\ WithdrawTime \in Nat /\ ConversionDelay \in Nat
                          /\ RequestLimit \in Nat
                          /\ MaxTime \in Nat /\ MaxGbg \in Nat /\ Interest \in Nat

Plus(m, n) == [s \in Symbol |-> m[s] + n[s]]
Minus(m, n) == [s \in Symbol |-> m[s] - n[s]]

Covers(m, n) == \A s \in Symbol : m[s] >= n[s]
At(a, m) == [x \in Account |-> IF x = a THEN m ELSE Zero]
Of(where, s) == [a \in Account |-> where[a][s]]

VARIABLES
    now,            \* head_block_time
    balance,        \* account_object::balance, sbd_balance
    savings,        \* account_object::savings_balance, savings_sbd_balance
    requests,       \* account_object::savings_withdraw_requests
    withdrawals,    \* savings_withdraw_object
    escrows,        \* escrow_object
    conversions,    \* convert_request_object
    supply,         \* current_supply, current_sbd_supply
    price           \* current_median_history

vars == <<now, balance, savings, requests, withdrawals, escrows, conversions, supply, price>>

Withdrawal == [from : Account, to : Account, id : RequestId, money : Money, complete : Nat]

Escrow == [from : Account, to : Account, agent : Account, id : EscrowId,
           deadline : Nat, expiration : Nat, money : Money, fee : Money,
           toApproved : BOOLEAN, agentApproved : BOOLEAN, disputed : BOOLEAN]

Conversion == [owner : Account, id : RequestId, gbg : Nat, date : Nat]

Approved(e) == e.toApproved /\ e.agentApproved

(***************************************************************************)
(* adjust_balance and adjust_savings_balance.  An adjustment of GBG first   *)
(* pays the interest due, which is new supply: I is the set of accounts     *)
(* that earn, among the accounts A whose GBG is adjusted.                   *)
(***************************************************************************)
Earning(A) == IF supply["GBG"] < MaxGbg THEN SUBSET A ELSE {{}}

\* Mutant: the interest is paid without being issued.
PaidUnissued(I) == Zero

Paid(I) == [s \in Symbol |-> IF s = "GBG" THEN Interest * Cardinality(I) ELSE 0]

Adjusted(where, out, in, I) ==
    [a \in Account |-> [s \in Symbol |->
       where[a][s] + in[a][s] - out[a][s] + (IF s = "GBG" /\ a \in I THEN Interest ELSE 0)]]

\* A transfer of m adjusts the GBG of A, or their GOLOS, which earn nothing.
Touched(A, m) == IF m["GBG"] > 0 THEN A ELSE {}
-----------------------------------------------------------------------------
Transfer(from, to, m) ==
    /\ Covers(balance[from], m)
    /\ \E I \in Earning(Touched({from, to}, m)) :
         /\ balance' = Adjusted(balance, At(from, m), At(to, m), I)
         /\ supply' = Plus(supply, Paid(I))
    /\ UNCHANGED <<now, savings, requests, withdrawals, escrows, conversions, price>>

TransferToSavings(from, to, m) ==
    /\ Covers(balance[from], m)
    /\ \E I \in Earning(Touched({from}, m)), J \in Earning(Touched({to}, m)) :
         /\ balance' = Adjusted(balance, At(from, m), At(from, Zero), I)
         /\ savings' = Adjusted(savings, At(to, Zero), At(to, m), J)
         /\ supply' = Plus(supply, Plus(Paid(I), Paid(J)))
    /\ UNCHANGED <<now, requests, withdrawals, escrows, conversions, price>>

TransferFromSavings(from, to, m, id) ==
    /\ requests[from] < RequestLimit
    /\ Covers(savings[from], m)
    /\ ~\E w \in withdrawals : w.from = from /\ w.id = id
    /\ \E I \in Earning(Touched({from}, m)) :
         /\ savings' = Adjusted(savings, At(from, m), At(from, Zero), I)
         /\ supply' = Plus(supply, Paid(I))
    /\ withdrawals' = withdrawals \cup {[from |-> from, to |-> to, id |-> id, money |-> m,
                                         complete |-> now + WithdrawTime]}
    /\ requests' = [requests EXCEPT ![from] = @ + 1]
    /\ UNCHANGED <<now, balance, escrows, conversions, price>>

\* Mutant: the request is taken off the receiver's counter.
RequestsLeftOfReceiver(W) == [a \in Account |-> requests[a] - Cardinality({w \in W : w.to = a})]

RequestsLeft(W) == [a \in Account |-> requests[a] - Cardinality({w \in W : w.from = a})]

CancelTransferFromSavings(w) ==
    /\ \E I \in Earning(Touched({w.from}, w.money)) :
         /\ savings' = Adjusted(savings, At(w.from, Zero), At(w.from, w.money), I)
         /\ supply' = Plus(supply, Paid(I))
    /\ withdrawals' = withdrawals \ {w}
    /\ requests' = RequestsLeft({w})
    /\ UNCHANGED <<now, balance, escrows, conversions, price>>

Convert(owner, m, id) ==
    /\ m["GOLOS"] = 0
    /\ price # 0
    /\ Covers(balance[owner], m)
    /\ ~\E c \in conversions : c.owner = owner /\ c.id = id
    /\ \E I \in Earning({owner}) :
         /\ balance' = Adjusted(balance, At(owner, m), At(owner, Zero), I)
         /\ supply' = Plus(supply, Paid(I))
    /\ conversions' = conversions \cup {[owner |-> owner, id |-> id, gbg |-> m["GBG"],
                                         date |-> now + ConversionDelay]}
    /\ UNCHANGED <<now, savings, requests, withdrawals, escrows, price>>
-----------------------------------------------------------------------------
(***************************************************************************)
(* An escrow holds an amount and a fee.  It waits for the approval of the   *)
(* receiver and of the agent until the ratification deadline; approved, its *)
(* parties release it, or the agent does once it is disputed.               *)
(***************************************************************************)
EscrowTransfer(from, to, agent, id, m, fee, deadline, expiration) ==
    /\ agent \notin {from, to}
    /\ now < deadline /\ deadline < expiration
    /\ Covers(balance[from], Plus(m, fee))
    /\ ~\E e \in escrows : e.from = from /\ e.id = id
    /\ \E I \in Earning({from}) :
         /\ balance' = Adjusted(balance, At(from, Plus(m, fee)), At(from, Zero), I)
         /\ supply' = Plus(supply, Paid(I))
    /\ escrows' = escrows \cup
         {[from |-> from, to |-> to, agent |-> agent, id |-> id,
           deadline |-> deadline, expiration |-> expiration, money |-> m, fee |-> fee,
           toApproved |-> FALSE, agentApproved |-> FALSE, disputed |-> FALSE]}
    /\ UNCHANGED <<now, savings, requests, withdrawals, conversions, price>>

ApprovedBy(e, who) == [e EXCEPT !.toApproved = @ \/ who = e.to,
                                !.agentApproved = @ \/ who = e.agent]

MayStillApprove(e, who) == /\ who \in {e.to, e.agent}
                           /\ now <= e.deadline
                           /\ who = e.to => ~e.toApproved
                           /\ who = e.agent => ~e.agentApproved

\* The second approval pays the agent.
EscrowApprove(e, who) ==
    /\ MayStillApprove(e, who)
    /\ LET f == ApprovedBy(e, who)
       IN  IF ~Approved(f) THEN
             /\ escrows' = (escrows \ {e}) \cup {f}
             /\ UNCHANGED <<balance, supply>>
           ELSE
             \E I \in Earning(Touched({e.agent}, e.fee)) :
               /\ escrows' = (escrows \ {e}) \cup {[f EXCEPT !.fee = Zero]}
               /\ balance' = Adjusted(balance, At(e.agent, Zero), At(e.agent, e.fee), I)
               /\ supply' = Plus(supply, Paid(I))
    /\ UNCHANGED <<now, savings, requests, withdrawals, conversions, price>>

\* A rejection returns everything.
EscrowReject(e, who) ==
    /\ MayStillApprove(e, who)
    /\ escrows' = escrows \ {e}
    /\ \E I \in Earning({e.from}) :
         /\ balance' = Adjusted(balance, At(e.from, Zero), At(e.from, Plus(e.money, e.fee)), I)
         /\ supply' = Plus(supply, Paid(I))
    /\ UNCHANGED <<now, savings, requests, withdrawals, conversions, price>>

EscrowDispute(e) ==
    /\ now < e.expiration
    /\ Approved(e)
    /\ ~e.disputed
    /\ escrows' = (escrows \ {e}) \cup {[e EXCEPT !.disputed = TRUE]}
    /\ UNCHANGED <<now, balance, savings, requests, withdrawals, conversions, supply, price>>

(***************************************************************************)
(* Who may release to whom: the agent of a disputed escrow to either party; *)
(* before the expiration each party only to the other; after it, either     *)
(* party to either.                                                         *)
(***************************************************************************)
MayRelease(e, who, receiver) ==
    /\ receiver \in {e.from, e.to}
    /\ IF e.disputed THEN who = e.agent
       ELSE /\ who \in {e.from, e.to}
            /\ e.expiration > now => IF who = e.from THEN receiver = e.to ELSE receiver = e.from

EscrowRelease(e, who, receiver, m) ==
    /\ Covers(e.money, m)
    /\ Approved(e)
    /\ MayRelease(e, who, receiver)
    /\ LET left == Minus(e.money, m)
       IN  escrows' = (escrows \ {e}) \cup
                      (IF left = Zero THEN {} ELSE {[e EXCEPT !.money = left]})
    /\ \E I \in Earning({receiver}) :
         /\ balance' = Adjusted(balance, At(receiver, Zero), At(receiver, m), I)
         /\ supply' = Plus(supply, Paid(I))
    /\ UNCHANGED <<now, savings, requests, withdrawals, conversions, price>>
-----------------------------------------------------------------------------
(***************************************************************************)
(* The end of every block, at its time t and with the median price p:       *)
(* clear_null_account_balance, process_conversions,                         *)
(* process_savings_withdraws and expire_escrow_ratification, in this order. *)
(***************************************************************************)
Issued(c, p) == (c.gbg * p) \div Unit

Matured(t, p) == {c \in conversions : p # 0 /\ c.date <= t}

Completed(t) == {w \in withdrawals : w.complete <= t}

\* Mutant: an escrow is returned in the block after its deadline.
UnratifiedLate(t) == {e \in escrows : ~Approved(e) /\ e.deadline < t}

Unratified(t) == {e \in escrows : ~Approved(e) /\ e.deadline <= t}

\* What the conversions C issue and burn, and what the withdrawals W and the escrows E hold.
Issues(C, p) == [c \in C |-> Issued(c, p)]
Burns(C) == [c \in C |-> c.gbg]
Withdrawn(W, s) == [w \in W |-> w.money[s]]
Escrowed(E, s) == [e \in E |-> e.money[s] + e.fee[s]]

\* What a receives from the conversions C, the withdrawals W and the escrows E.
Due(a, C, W, E, p) ==
    [s \in Symbol |->
       (IF s = "GOLOS" THEN SumOver(Issues(C, p), {c \in C : c.owner = a}) ELSE 0)
       + SumOver(Withdrawn(W, s), {w \in W : w.to = a})
       + SumOver(Escrowed(E, s), {e \in E : e.from = a})]

Burned == Plus(balance[Null], savings[Null])

\* The supply after the conversions C.
Converted(m, C, p) ==
    [s \in Symbol |-> IF s = "GOLOS" THEN m[s] + SumOver(Issues(C, p), C)
                      ELSE m[s] - SumOver(Burns(C), C)]

Block(p) ==
    LET t == now + 1
        C == Matured(t, p)
        W == Completed(t)
        E == Unratified(t)
    IN  /\ now < MaxTime
        /\ now' = t
        /\ price' = p
        /\ conversions' = conversions \ C
        /\ withdrawals' = withdrawals \ W
        /\ escrows' = escrows \ E
        /\ requests' = RequestsLeft(W)
        /\ \E I \in Earning(Touched({Null}, balance[Null]) \cup (UNION {Touched({w.to}, w.money) : w \in W})
                              \cup {e.from : e \in E}),
              J \in Earning(Touched({Null}, savings[Null])) :
             /\ balance' = Adjusted(balance, At(Null, balance[Null]),
                                     [a \in Account |-> Due(a, C, W, E, p)], I)
             /\ savings' = Adjusted(savings, At(Null, savings[Null]), At(Null, Zero), J)
             /\ supply' = Plus(Converted(Minus(supply, Burned), C, p), Plus(Paid(I), Paid(J)))
-----------------------------------------------------------------------------
Init == /\ now = 0
        /\ balance = Opening
        /\ savings = [a \in Account |-> Zero]
        /\ requests = [a \in Account |-> 0]
        /\ withdrawals = {}
        /\ escrows = {}
        /\ conversions = {}
        /\ supply = [s \in Symbol |-> SumOver(Of(Opening, s), Account)]
        /\ price \in Prices

Next ==
    \/ \E from \in Holder : \E to \in Receiver \cup {from}, m \in Amounts :
         \/ Transfer(from, to, m)
         \/ TransferToSavings(from, to, m)
         \/ \E id \in RequestId : TransferFromSavings(from, to, m, id)
    \/ \E owner \in Holder, m \in Amounts, id \in RequestId : Convert(owner, m, id)
    \/ \E w \in withdrawals : CancelTransferFromSavings(w)
    \/ \E from \in Holder, to \in Receiver, agent \in Agent, id \in EscrowId, m \in EscrowAmounts, fee \in Fees,
          deadline, expiration \in 1..MaxTime + 1 :
         EscrowTransfer(from, to, agent, id, m, fee, deadline, expiration)
    \/ \E e \in escrows, who \in Account \ {Null} :
         \/ EscrowApprove(e, who)
         \/ EscrowReject(e, who)
         \/ \E receiver \in Account, m \in EscrowAmounts : EscrowRelease(e, who, receiver, m)
    \/ \E e \in escrows : EscrowDispute(e)
    \/ \E p \in Prices : Block(p)

Spec == Init /\ [][Next]_vars
-----------------------------------------------------------------------------
TypeOK == /\ now \in Nat
          /\ balance \in [Account -> Money]
          /\ savings \in [Account -> Money]
          /\ requests \in [Account -> Nat]
          /\ withdrawals \in SUBSET Withdrawal
          /\ escrows \in SUBSET Escrow
          /\ conversions \in SUBSET Conversion
          /\ supply \in Money
          /\ price \in Nat

(***************************************************************************)
(* validate_invariants: every token of the supply is in exactly one place,  *)
(* whatever operations overlap with interest, rejections, deadlines,        *)
(* conversions and the burning of the null account.                         *)
(***************************************************************************)
SupplyMatches ==
    \A s \in Symbol :
      supply[s] = SumOver(Of(balance, s), Account) + SumOver(Of(savings, s), Account)
                  + SumOver(Withdrawn(withdrawals, s), withdrawals)
                  + SumOver(Escrowed(escrows, s), escrows)
                  + (IF s = "GBG" THEN SumOver(Burns(conversions), conversions) ELSE 0)

(***************************************************************************)
(* savings_withdraw_requests, which limits how many requests an account may *)
(* open, counts the account's requests exactly, and requests are told apart *)
(* by their id: a counter that drifts would lock the savings or lift the    *)
(* limit.                                                                   *)
(***************************************************************************)
WithdrawalsCounted ==
    /\ \A a \in Account : /\ requests[a] = Cardinality({w \in withdrawals : w.from = a})
                          /\ requests[a] <= RequestLimit
    /\ \A v, w \in withdrawals : v.from = w.from /\ v.id = w.id => v = w

(***************************************************************************)
(* No escrow outlives its ratification deadline without both approvals, one *)
(* that is under dispute or pays its agent has both, and an escrow with     *)
(* nothing left does not stay: so the funds of an escrow are never locked   *)
(* without someone who may release them.                                    *)
(***************************************************************************)
EscrowsReleasable ==
    \A e \in escrows :
      /\ Approved(e) \/ now < e.deadline
      /\ e.disputed => Approved(e)
      /\ Approved(e) => e.fee = Zero
      /\ e.money # Zero
=============================================================================
