------------------------------ MODULE Vesting ------------------------------
(***************************************************************************)
(* Vesting shares (libraries/chain/steem_evaluator.cpp, database.cpp): how  *)
(* tokens become shares of the vesting fund, how shares are delegated and   *)
(* taken back, and how they are withdrawn over several intervals, along     *)
(* routes to other accounts.  Rules since hardfork 19.                      *)
(*                                                                          *)
(* Accounts are the ids of account objects, the order of every loop here.   *)
(* The id 0, of the first account of the genesis, is not among them: the    *)
(* loops over routes start after it.                                        *)
(***************************************************************************)
EXTENDS Integers, FiniteSets, Summation

CONSTANTS
    Account,
    Null,               \* STEEMIT_NULL_ACCOUNT
    Founder,            \* the accounts there are at the start (mined)
    OpeningLiquid, OpeningShares, OpeningFund, OpeningRewards,
    Tokens,             \* bound: amounts of tokens that operations name
    Shares,             \* bound: amounts of shares that operations name
    VestPairs, RoutePairs, LendPairs, \* bound: who vests tokens for, routes to, delegates to whom
    Percents,           \* bound: percents that routes name
    FullPercent,        \* STEEMIT_100_PERCENT
    SharesPerToken,     \* the price of the first share
    MinFee, MinCreateDelegation, CreationFee, MinDelegation, \* median_props
    PowerdownFactor,    \* 10
    Intervals,          \* STEEMIT_VESTING_WITHDRAW_INTERVALS
    Interval,           \* STEEMIT_VESTING_WITHDRAW_INTERVAL_SECONDS
    CashoutWindow,      \* STEEMIT_CASHOUT_WINDOW_SECONDS
    DelegationTime,     \* create_account_delegation_time
    MaxRoutes,          \* STEEMIT_MAX_WITHDRAW_ROUTES
    MaxTime             \* bound: time of the last block

ASSUME AccountAssumption == Account \subseteq Nat \ {0} /\ IsFiniteSet(Account)
                            /\ Null \in Account /\ Founder \subseteq Account
                            /\ VestPairs \cup RoutePairs \cup LendPairs \subseteq Account \X Account

ASSUME ShareAssumption ==
    /\ OpeningLiquid \in [Account -> Nat] /\ OpeningShares \in [Account -> Nat]
    /\ {OpeningFund, OpeningRewards, MinFee, MinCreateDelegation, MinDelegation,
        PowerdownFactor, MaxRoutes, MaxTime} \subseteq Nat
    /\ Tokens \subseteq Nat \ {0} /\ Shares \subseteq Nat /\ Percents \subseteq Nat
    /\ {FullPercent, SharesPerToken, Intervals, Interval, CreationFee} \subseteq Nat \ {0}
    /\ {CashoutWindow, DelegationTime} \subseteq Nat

\* init_genesis: no shares without a fund.
ASSUME OpeningAssumption == OpeningFund = 0 => OpeningShares = [a \in Account |-> 0]

VARIABLES
    now,                \* head_block_time
    phase,              \* "operations", or the part of the block's end that runs
    created,            \* the accounts there are
    liquid,             \* account_object::balance
    vesting,            \* account_object::vesting_shares
    totals,             \* total_vesting_fund_steem and total_vesting_shares
    rewards,            \* tokens for rewards (total_reward_fund_steem)
    burnt,              \* tokens that left the supply
    delegated,          \* account_object::delegated_vesting_shares
    received,           \* account_object::received_vesting_shares
    delegation,         \* vesting_delegation_object::vesting_shares by delegator and delegatee
    minTime,            \* vesting_delegation_object::min_delegation_time
    returning,          \* vesting_delegation_expiration_object: shares by delegator and time
    power,              \* vesting_withdraw_rate, next_vesting_withdrawal, to_withdraw, withdrawn
    percent, autoVest,  \* withdraw_vesting_route_object by sender and receiver
    routes              \* account_object::withdraw_routes

money == <<liquid, totals, rewards, burnt>>
lent == <<delegated, received, delegation, minTime, returning>>
routing == <<percent, autoVest, routes>>
vars == <<now, phase, created, vesting, money, lent, power, routing>>

Time == 0..MaxTime + CashoutWindow + DelegationTime
Never == MaxTime + Interval + 1     \* time_point_sec::maximum()
Idle == [rate |-> 0, next |-> Never, total |-> 0, done |-> 0]
-----------------------------------------------------------------------------
(***************************************************************************)
(* get_vesting_share_price and the conversions at that price.               *)
(***************************************************************************)
NoPrice(t) == t.fund = 0 \/ t.shares = 0

ToShares(tokens, t) == IF NoPrice(t) THEN tokens * SharesPerToken ELSE (tokens * t.shares) \div t.fund

\* Mutant: rounds up.
ToTokensUp(shares, t) == IF NoPrice(t) THEN shares \div SharesPerToken
                         ELSE (shares * t.fund + t.shares - 1) \div t.shares

ToTokens(shares, t) == IF NoPrice(t) THEN shares \div SharesPerToken ELSE (shares * t.fund) \div t.shares

\* Mutant: the shares to be withdrawn can be delegated as well.
AvailableHaving(a) == vesting[a] - delegated[a]

\* available_vesting_shares without and with the withdrawal.
Having(a) == vesting[a] - delegated[a]
Available(a) == vesting[a] - delegated[a] - (power[a].total - power[a].done)

\* create_vesting
CreateVesting(a, tokens) ==
    \E n \in {ToShares(tokens, totals)} :
      /\ vesting' = [vesting EXCEPT ![a] = @ + n]
      /\ totals' = [fund |-> totals.fund + tokens, shares |-> totals.shares + n]

\* Nobody has the authority of the null account.
Signs(a) == a \in created \ {Null}

Operation == phase = "operations" /\ UNCHANGED <<now, phase>>
-----------------------------------------------------------------------------
TransferToVesting(from, to, n) ==
    /\ Operation
    /\ Signs(from) /\ to \in created
    /\ n <= liquid[from]
    /\ liquid' = [liquid EXCEPT ![from] = @ - n]
    /\ CreateVesting(to, n)
    /\ UNCHANGED <<created, rewards, burnt, lent, power, routing>>

PowerdownAllowed(a, n) ==
    \/ a \in Founder
    \/ n = 0
    \/ vesting[a] > PowerdownFactor * ToShares(CreationFee, totals)

WithdrawRate(n) == IF n \div Intervals = 0 THEN 1 ELSE n \div Intervals

StopWithdrawal(a) ==
    /\ Operation
    /\ Signs(a)
    /\ power[a].rate # 0
    /\ power' = [power EXCEPT ![a] = Idle]
    /\ UNCHANGED <<created, vesting, money, lent, routing>>

WithdrawVesting(a, n) ==
    /\ Operation
    /\ Signs(a)
    /\ n > 0 /\ n <= Having(a)
    /\ PowerdownAllowed(a, n)
    /\ power[a].rate # WithdrawRate(n)
    /\ power' = [power EXCEPT ![a] = [rate |-> WithdrawRate(n), next |-> now + Interval,
                                      total |-> n, done |-> 0]]
    /\ UNCHANGED <<created, vesting, money, lent, routing>>

RouteCount(from, to, p) ==
    IF percent[from][to] = 0 THEN routes[from] + 1
    ELSE IF p = 0 THEN routes[from] - 1 ELSE routes[from]

SetWithdrawVestingRoute(from, to, p, auto) ==
    /\ Operation
    /\ Signs(from) /\ to \in created
    /\ percent[from][to] = 0 => p # 0 /\ routes[from] < MaxRoutes
    /\ percent' = [percent EXCEPT ![from][to] = p]
    /\ autoVest' = [autoVest EXCEPT ![from][to] = auto /\ p # 0]
    /\ routes' = [routes EXCEPT ![from] = RouteCount(from, to, p)]
    /\ SumOver(percent'[from], Account) <= FullPercent
    /\ UNCHANGED <<created, vesting, money, lent, power>>
-----------------------------------------------------------------------------
(***************************************************************************)
(* Delegation.  What is taken back returns to the delegator later.          *)
(***************************************************************************)
Later(a, b) == IF a > b THEN a ELSE b

\* Mutant: a second return at the same time replaces the first.
ReturnsOver(from, to, n) ==
    [returning EXCEPT ![from][Later(now + CashoutWindow, minTime[from][to])] = n]

Returns(from, to, n) ==
    [returning EXCEPT ![from][Later(now + CashoutWindow, minTime[from][to])] = @ + n]

\* The new amount is more than the old one by at least the minimal fee.
DelegateMore(from, to, n) ==
    LET delta == n - delegation[from][to]
    IN  /\ Operation
        /\ Signs(from) /\ to \in created /\ from # to
        /\ delta > 0 /\ delta >= ToShares(MinFee, totals)
        /\ delta <= Available(from)
        /\ delegated[from] + delta <= vesting[from]
        /\ delegation[from][to] = 0 => n >= ToShares(MinDelegation, totals)
        /\ delegated' = [delegated EXCEPT ![from] = @ + delta]
        /\ received' = [received EXCEPT ![to] = @ + delta]
        /\ delegation' = [delegation EXCEPT ![from][to] = n]
        /\ minTime' = IF delegation[from][to] = 0 THEN [minTime EXCEPT ![from][to] = now] ELSE minTime
        /\ UNCHANGED <<created, vesting, money, returning, power, routing>>

DelegateLess(from, to, n) ==
    LET delta == delegation[from][to] - n
    IN  /\ Operation
        /\ delta > 0 /\ delta >= ToShares(MinFee, totals)
        /\ n = 0 \/ n >= ToShares(MinDelegation, totals)
        /\ returning' = Returns(from, to, delta)
        /\ received' = [received EXCEPT ![to] = @ - delta]
        /\ delegation' = [delegation EXCEPT ![from][to] = n]
        /\ minTime' = IF n = 0 THEN [minTime EXCEPT ![from][to] = 0] ELSE minTime
        /\ UNCHANGED <<created, vesting, money, delegated, power, routing>>

RejectVestingSharesDelegation(from, to) ==
    /\ Operation
    /\ delegation[from][to] > 0
    /\ received' = [received EXCEPT ![to] = @ - delegation[from][to]]
    /\ returning' = Returns(from, to, delegation[from][to])
    /\ delegation' = [delegation EXCEPT ![from][to] = 0]
    /\ minTime' = [minTime EXCEPT ![from][to] = 0]
    /\ UNCHANGED <<created, vesting, money, delegated, power, routing>>

CreateTarget == MinFee + MinCreateDelegation

AccountCreateWithDelegation(creator, new, fee, n) ==
    /\ Operation
    /\ Signs(creator) /\ new \notin created
    /\ fee <= liquid[creator] /\ n <= Available(creator)
    /\ ToShares((fee * CreateTarget) \div CreationFee, totals) + n >= ToShares(CreateTarget, totals)
    /\ fee >= MinFee
    /\ created' = created \cup {new}
    /\ liquid' = [liquid EXCEPT ![creator] = @ - fee]
    /\ delegated' = [delegated EXCEPT ![creator] = @ + n]
    /\ received' = [received EXCEPT ![new] = n]
    /\ delegation' = [delegation EXCEPT ![creator][new] = n]
    /\ minTime' = [minTime EXCEPT ![creator][new] = IF n > 0 THEN now + DelegationTime ELSE 0]
    /\ CreateVesting(new, fee)
    /\ UNCHANGED <<rewards, burnt, returning, power, routing>>
-----------------------------------------------------------------------------
(***************************************************************************)
(* The end of a block: clear_expired_delegations, clear_null_account_       *)
(* balance, process_comment_cashout, process_vesting_withdrawals, each loop *)
(* one object a step.                                                       *)
(***************************************************************************)
BeginBlock ==
    /\ phase = "operations" /\ now < MaxTime
    /\ phase' = "expire"
    /\ now' = now + 1
    /\ UNCHANGED <<created, vesting, money, lent, power, routing>>

ExpireDelegation(a, t) ==
    /\ phase = "expire" /\ t < now /\ returning[a][t] > 0
    /\ delegated' = [delegated EXCEPT ![a] = @ - returning[a][t]]
    /\ returning' = [returning EXCEPT ![a][t] = 0]
    /\ UNCHANGED <<now, phase, created, vesting, money, received, delegation, minTime, power, routing>>

ClearNullAccountBalance ==
    /\ phase = "expire" /\ \A a \in Account, t \in Time : t < now => returning[a][t] = 0
    /\ phase' = "cashout"
    /\ \E tokens \in {ToTokens(vesting[Null], totals)} :
         /\ totals' = [fund |-> totals.fund - tokens, shares |-> totals.shares - vesting[Null]]
         /\ burnt' = burnt + tokens + liquid[Null]
    /\ vesting' = [vesting EXCEPT ![Null] = 0]
    /\ liquid' = [liquid EXCEPT ![Null] = 0]
    /\ UNCHANGED <<now, created, rewards, lent, power, routing>>

\* pay_delegators: a delegator earns from a vote of its delegatee.  With the
\* strategy to_delegated_vesting the reward joins the delegation, if it still exists.
PayDelegator(from, to, tokens, join) ==
    /\ phase = "cashout" /\ tokens <= rewards
    /\ from \in created /\ to \in created /\ from # to
    /\ rewards' = rewards - tokens
    /\ CreateVesting(from, tokens)
    /\ \E n \in {IF join /\ delegation[from][to] > 0 THEN ToShares(tokens, totals) ELSE 0} :
         /\ delegated' = [delegated EXCEPT ![from] = @ + n]
         /\ received' = [received EXCEPT ![to] = @ + n]
         /\ delegation' = [delegation EXCEPT ![from][to] = @ + n]
    /\ UNCHANGED <<now, phase, created, liquid, burnt, minTime, returning, power, routing>>

EndCashout ==
    /\ phase = "cashout"
    /\ phase' = "withdraw"
    /\ UNCHANGED <<now, created, vesting, money, lent, power, routing>>

Due == {a \in Account : power[a].next <= now}

AtMost(m, n) == IF m < n THEN m ELSE n

Payment(a) ==
    AtMost(vesting[a], IF power[a].total - power[a].done < power[a].rate
                       THEN power[a].total % power[a].rate ELSE power[a].rate)

Routed(a, to, n) == (n * percent[a][to]) \div FullPercent

\* Mutant: shares that are paid out as tokens are credited as well.
KeptVestedAll(a, to, n) == Routed(a, to, n)

KeptVested(a, to, n) == IF autoVest[a][to] THEN Routed(a, to, n) ELSE 0

\* n shares leave the fund and to gets the tokens.
Convert(s, to, n) ==
    LET tokens == ToTokens(n, s.totals)
    IN  [totals |-> [fund |-> s.totals.fund - tokens, shares |-> s.totals.shares - n],
         liquid |-> [s.liquid EXCEPT ![to] = @ + tokens]]

PaidRoutes(a) == {to \in Account : percent[a][to] > 0 /\ ~autoVest[a][to]}

\* The routes in the order of their receivers, then what is left.
Converted(a, n) ==
    LET paid == MapThenFoldSet(LAMBDA to, s : Convert(s, to, Routed(a, to, n)),
                               [totals |-> totals, liquid |-> liquid],
                               LAMBDA to : to, LAMBDA S : Max(S), PaidRoutes(a))
    IN  Convert(paid, a, n - SumOver([to \in Account |-> Routed(a, to, n)], Account))

Advance(p, n, rest) ==
    IF p.done + n >= p.total \/ rest = 0 THEN Idle
    ELSE [p EXCEPT !.done = @ + n, !.next = @ + Interval]

ProcessVestingWithdrawal(a) ==
    /\ phase = "withdraw" /\ a \in Due
    /\ \A b \in Due : power[a].next < power[b].next \/ (power[a].next = power[b].next /\ a <= b)
    /\ \E n \in {Payment(a)} :
         /\ vesting' = [x \in Account |-> vesting[x] + KeptVested(a, x, n) - (IF x = a THEN n ELSE 0)]
         /\ \E s \in {Converted(a, n)} : totals' = s.totals /\ liquid' = s.liquid
         /\ power' = [power EXCEPT ![a] = Advance(@, n, vesting'[a])]
    /\ UNCHANGED <<now, phase, created, rewards, burnt, lent, routing>>

EndBlock ==
    /\ phase = "withdraw" /\ Due = {}
    /\ phase' = "operations"
    /\ UNCHANGED <<now, created, vesting, money, lent, power, routing>>
-----------------------------------------------------------------------------
Init ==
    /\ now = 0 /\ phase = "operations"
    /\ created = Founder
    /\ liquid = OpeningLiquid
    /\ vesting = OpeningShares
    /\ totals = [fund |-> OpeningFund, shares |-> SumOver(OpeningShares, Account)]
    /\ rewards = OpeningRewards /\ burnt = 0
    /\ delegated = [a \in Account |-> 0]
    /\ received = [a \in Account |-> 0]
    /\ delegation = [a \in Account |-> [b \in Account |-> 0]]
    /\ minTime = [a \in Account |-> [b \in Account |-> 0]]
    /\ returning = [a \in Account |-> [t \in Time |-> 0]]
    /\ power = [a \in Account |-> Idle]
    /\ percent = [a \in Account |-> [b \in Account |-> 0]]
    /\ autoVest = [a \in Account |-> [b \in Account |-> FALSE]]
    /\ routes = [a \in Account |-> 0]

Next ==
    \/ \E p \in VestPairs, n \in Tokens : TransferToVesting(p[1], p[2], n)
    \/ \E a \in Account : StopWithdrawal(a)
    \/ \E a \in Account, n \in Shares : WithdrawVesting(a, n)
    \/ \E p \in RoutePairs, share \in Percents \cup {0}, auto \in BOOLEAN :
         SetWithdrawVestingRoute(p[1], p[2], share, auto)
    \/ \E p \in LendPairs, n \in Shares : DelegateMore(p[1], p[2], n) \/ DelegateLess(p[1], p[2], n)
    \/ \E p \in LendPairs : RejectVestingSharesDelegation(p[1], p[2])
    \/ \E p \in LendPairs, fee \in Tokens, n \in Shares :
         AccountCreateWithDelegation(p[1], p[2], fee, n)
    \/ BeginBlock
    \/ \E a \in Account, t \in Time : ExpireDelegation(a, t)
    \/ ClearNullAccountBalance
    \/ \E p \in LendPairs, n \in Tokens, join \in BOOLEAN : PayDelegator(p[1], p[2], n, join)
    \/ EndCashout
    \/ \E a \in Account : ProcessVestingWithdrawal(a)
    \/ EndBlock

Spec == Init /\ [][Next]_vars
-----------------------------------------------------------------------------
\* Every variable has its type; no balance of tokens or shares is negative.
TypeOK ==
    /\ now \in 0..MaxTime
    /\ phase \in {"operations", "expire", "cashout", "withdraw"}
    /\ created \subseteq Account
    /\ liquid \in [Account -> Nat] /\ vesting \in [Account -> Nat]
    /\ totals \in [fund : Nat, shares : Nat] /\ rewards \in Nat /\ burnt \in Nat
    /\ delegated \in [Account -> Nat] /\ received \in [Account -> Nat]
    /\ delegation \in [Account -> [Account -> Nat]]
    /\ minTime \in [Account -> [Account -> Nat]]
    /\ returning \in [Account -> [Time -> Nat]]
    /\ power \in [Account -> [rate : Nat, next : Nat, total : Nat, done : Nat]]
    /\ percent \in [Account -> [Account -> Nat]]
    /\ autoVest \in [Account -> [Account -> BOOLEAN]]
    /\ routes \in [Account -> Nat]

\* The shares of an account cover what it delegates, what is on its way back to
\* it and what it still withdraws, together: no interleaving of delegations,
\* withdrawals that are started, stopped and paid, rewards and returns lets the
\* same share be used twice.
Backed ==
    \A a \in Account : delegated[a] + (power[a].total - power[a].done) <= vesting[a]

\* delegated_vesting_shares and received_vesting_shares, which are kept by
\* differences, are the sums of the delegations and of the returns under way.
DelegationsMatch ==
    \A a \in Account :
      /\ delegated[a] = SumOver(delegation[a], Account) + SumOver(returning[a], Time)
      /\ received[a] = SumOver([b \in Account |-> delegation[b][a]], Account)

\* total_vesting_shares is the sum of the shares of all accounts, and no token
\* appears or disappears while it moves between balances, the vesting fund and
\* the rewards, whatever the routes of a withdrawal and the rounding on them.
FundMatches ==
    /\ totals.shares = SumOver(vesting, Account)
    /\ SumOver(liquid, Account) + totals.fund + rewards + burnt
         = SumOver(OpeningLiquid, Account) + OpeningFund + OpeningRewards

\* A share never loses worth: rounding in create_vesting and in the conversions
\* of a withdrawal is always in favour of those who stay.
WorthNeverDrops ==
    [][~NoPrice(totals) => totals'.fund * totals.shares >= totals.fund * totals'.shares]_vars

=============================================================================
