---------------------------- MODULE WitnessVotes ----------------------------
(***************************************************************************)
(* Votes for witnesses and voting proxies (libraries/chain/database.cpp:    *)
(* adjust_proxied_witness_votes, adjust_witness_vote, clear_witness_votes,  *)
(* process_decline_voting_rights; steem_evaluator.cpp:                      *)
(* account_witness_vote, account_witness_proxy, decline_voting_rights) and  *)
(* the calls with which vesting shares that come and go keep them up to     *)
(* date.  A vote carries the shares of the voter and of those who made it   *)
(* their proxy, through at most MaxDepth proxies.                           *)
(***************************************************************************)
EXTENDS Integers, FiniteSets, Summation

CONSTANTS
    Account, Witness,
    Self,           \* STEEMIT_PROXY_TO_SELF_ACCOUNT
    Opening,        \* vesting shares at the start
    Amounts,        \* bound: vesting shares that are created or withdrawn at once
    MaxDepth,       \* STEEMIT_MAX_PROXY_RECURSION_DEPTH
    MaxVotes,       \* STEEMIT_MAX_ACCOUNT_WITNESS_VOTES
    StaleProxy,     \* what the proxy of a copy reads as after its scope: "kept", "empty"
    DeclineDelay,   \* STEEMIT_OWNER_AUTH_RECOVERY_PERIOD
    MaxTime,        \* bound: time of the last block
    MaxShares       \* bound: vesting shares of all accounts

ASSUME VotesAssumption == /\ IsFiniteSet(Account) /\ Self \notin Account
                          /\ Opening \in [Account -> Nat]
                          /\ Amounts \subseteq Nat \ {0}
                          /\ MaxDepth \in Nat \ {0, 1}
                          /\ StaleProxy \in {{"kept"}, {"kept", "empty"}}
                          /\ {MaxVotes, DeclineDelay, MaxTime, MaxShares} \subseteq Nat

Depth == 0..MaxDepth

VARIABLES
    now,            \* head_block_time
    vesting,        \* account_object::vesting_shares
    total,          \* total_vesting_shares
    proxy,          \* account_object::proxy
    proxied,        \* account_object::proxied_vsf_votes
    approvals,      \* witness_vote_object
    votedFor,       \* account_object::witnesses_voted_for
    votes,          \* witness_object::votes
    canVote,        \* account_object::can_vote
    declines        \* decline_voting_rights_request_object

vars == <<now, vesting, total, proxy, proxied, approvals, votedFor, votes, canVote, declines>>

\* The objects that an operation or the end of a block modifies, as one record.
State == [vesting |-> vesting, total |-> total, proxy |-> proxy, proxied |-> proxied,
          approvals |-> approvals, votedFor |-> votedFor, votes |-> votes, canVote |-> canVote]

Becomes(s) ==
    /\ vesting' = s.vesting /\ total' = s.total
    /\ proxy' = s.proxy /\ proxied' = s.proxied
    /\ approvals' = s.approvals /\ votedFor' = s.votedFor
    /\ votes' = s.votes /\ canVote' = s.canVote

\* a, its proxy, the proxy of that one, ..., n times.
Climb(px, a, n) ==
    LET up[d \in 0..n] == IF d = 0 THEN a
                          ELSE IF up[d - 1] = Self THEN Self ELSE px[up[d - 1]]
    IN  up

Up(px, a) == Climb(px, a, MaxDepth)
-----------------------------------------------------------------------------
(***************************************************************************)
(* adjust_proxied_witness_votes(a, delta), where delta[i] is the change i   *)
(* proxies below a: every proxy above a counts it at its distance as far as *)
(* that is recorded, and the witnesses of the account at the top get all    *)
(* that reaches it.                                                         *)
(***************************************************************************)
\* Mutant: the whole change reaches the top, whatever the distance.
CarriedWhole(delta, d) == SumOver(delta, Depth)

\* The part of delta that reaches the account d proxies above a.
Carried(delta, d) == SumOver(delta, 0..MaxDepth - d)

\* Mutant: every proxy records the change as if it came from next to it.
RecordedFlat(up, delta, p, k) ==
    SumOver([d \in 0..k |-> delta[k]], {d \in 0..k : up[d + 1] = p})

\* The change of proxied_vsf_votes[k] of p.
Recorded(up, delta, p, k) ==
    SumOver([d \in 0..k |-> delta[k - d]], {d \in 0..k : up[d + 1] = p})

AdjustProxied(s, a, delta) ==
    LET up  == Up(s.proxy, a)
        top == {d \in Depth : up[d] # Self /\ s.proxy[up[d]] = Self}
        of(w) == {d \in top : <<up[d], w>> \in s.approvals}
    IN  [s EXCEPT
           !.proxied = [p \in Account |-> [k \in 0..MaxDepth - 1 |->
                          @[p][k] + Recorded(up, delta, p, k)]],
           !.votes = [w \in Witness |->
                          @[w] + SumOver([d \in Depth |-> Carried(delta, d)], of(w))]]

Single(n) == [i \in Depth |-> IF i = 0 THEN n ELSE 0]

\* All that a votes with, by distance.
Whole(s, a) == [i \in Depth |-> IF i = 0 THEN s.vesting[a] ELSE s.proxied[a][i - 1]]

Negated(delta) == [i \in Depth |-> -delta[i]]

\* witness_vote_weight
VoteWeight(s, a) == s.vesting[a] + SumOver(s.proxied[a], 0..MaxDepth - 1)

\* The assertion of adjust_witness_vote.
Asserted(s) == \A w \in Witness : s.votes[w] <= s.total

ClearWitnessVotes(s, a) == [s EXCEPT !.approvals = {v \in @ : v[1] # a}, !.votedFor[a] = 0]
-----------------------------------------------------------------------------
(***************************************************************************)
(* Operations.                                                              *)
(***************************************************************************)
CreateVesting(a, n) ==
    /\ total + n <= MaxShares
    /\ \E s \in {AdjustProxied([State EXCEPT !.vesting[a] = @ + n, !.total = @ + n],
                               a, Single(n))} :
         /\ Asserted(s)
         /\ Becomes(s)
    /\ UNCHANGED <<now, declines>>

AccountWitnessVote(a, w, approve) ==
    /\ proxy[a] = Self
    /\ approve => canVote[a] /\ votedFor[a] < MaxVotes
    /\ approve <=> <<a, w>> \notin approvals
    /\ \E change \in {IF approve THEN VoteWeight(State, a) ELSE -VoteWeight(State, a)} :
       \E s \in {[State EXCEPT
                    !.votes[w] = @ + change,
                    !.approvals = IF approve THEN @ \cup {<<a, w>>} ELSE @ \ {<<a, w>>},
                    !.votedFor[a] = IF approve THEN @ + 1 ELSE @ - 1]} :
         /\ s.votes[w] <= s.total
         /\ Becomes(s)
    /\ UNCHANGED <<now, declines>>

\* Mutant: only the proxy of the new proxy is looked at.
NoLoopShallow(a, p) == proxy[p] # a

\* The walk up from the new proxy makes m steps.  It meets a nowhere, and not too
\* many accounts.  After the first step it looks at a copy of the account whose
\* scope has ended.
NoLoop(a, p) ==
    LET up == Up(proxy, p)
    IN  \E m \in 0..MaxDepth - 2 :
          /\ \A d \in 0..m : up[d] \notin {a, Self}
          /\ up[m + 1] = Self \/ (m > 0 /\ "empty" \in StaleProxy)

ReplaceProxy(s, a, p) ==
    IF p = Self THEN [s EXCEPT !.proxy[a] = p]
    ELSE AdjustProxied([ClearWitnessVotes(s, a) EXCEPT !.proxy[a] = p], a, Whole(s, a))

AccountWitnessProxy(a, p) ==
    /\ p # a /\ p # proxy[a]
    /\ canVote[a]
    /\ p # Self => NoLoop(a, p)
    /\ \E s \in {AdjustProxied(State, a, Negated(Whole(State, a)))} :
       \E t \in {ReplaceProxy(s, a, p)} :
         /\ Asserted(s) /\ Asserted(t)
         /\ Becomes(t)
    /\ UNCHANGED <<now, declines>>

DeclineVotingRights(a, decline) ==
    /\ decline <=> ~\E r \in declines : r.account = a
    /\ declines' = IF decline THEN declines \cup {[account |-> a, date |-> now + DeclineDelay]}
                   ELSE {r \in declines : r.account # a}
    /\ UNCHANGED <<now, vesting, total, proxy, proxied, approvals, votedFor, votes, canVote>>
-----------------------------------------------------------------------------
(***************************************************************************)
(* The end of a block.  process_vesting_withdrawals takes n shares from an  *)
(* account: d of them first go to the account of a route that keeps them    *)
(* vested, then the others leave the total and the account is adjusted.     *)
(* Which withdrawal is due is left open here (module Vesting has it).       *)
(* process_decline_voting_rights then serves the requests that are due.     *)
(***************************************************************************)
Deposit(s, to, d) == AdjustProxied([s EXCEPT !.vesting[to] = @ + d], to, Single(d))

Take(s, from, n, d) ==
    AdjustProxied([s EXCEPT !.vesting[from] = @ - n, !.total = @ - (n - d)], from, Single(-n))

\* Mutant: the account keeps its proxy.
DeclineProxyKept(s, a) ==
    [ClearWitnessVotes(AdjustProxied(s, a, Negated(Whole(s, a))), a) EXCEPT !.canVote[a] = FALSE]

Decline(s, a) ==
    [ClearWitnessVotes(AdjustProxied(s, a, Negated(Whole(s, a))), a)
       EXCEPT !.canVote[a] = FALSE, !.proxy[a] = Self]

DueDeclines(t) == {r \in declines : r.date <= t}

EndOfBlock(s) ==
    \E due \in {DueDeclines(now')} :
      /\ Becomes(FoldSet(LAMBDA r, x : Decline(x, r.account), s, due))
      /\ declines' = declines \ due

Block ==
    /\ now < MaxTime
    /\ now' = now + 1
    /\ EndOfBlock(State)

BlockWithdrawing(from, to, n, d) ==
    /\ now < MaxTime
    /\ now' = now + 1
    /\ n <= vesting[from] /\ d <= n
    /\ \E s \in {Deposit(State, to, d)} :
       \E t \in {Take(s, from, n, d)} :
         /\ Asserted(s) /\ Asserted(t)
         /\ EndOfBlock(t)
-----------------------------------------------------------------------------
Init ==
    /\ now = 0
    /\ vesting = Opening
    /\ total = SumOver(Opening, Account)
    /\ proxy = [a \in Account |-> Self]
    /\ proxied = [a \in Account |-> [k \in 0..MaxDepth - 1 |-> 0]]
    /\ approvals = {}
    /\ votedFor = [a \in Account |-> 0]
    /\ votes = [w \in Witness |-> 0]
    /\ canVote = [a \in Account |-> TRUE]
    /\ declines = {}

Next ==
    \/ \E a \in Account, n \in Amounts : CreateVesting(a, n)
    \/ \E a \in Account, w \in Witness, approve \in BOOLEAN : AccountWitnessVote(a, w, approve)
    \/ \E a \in Account, p \in Account \cup {Self} : AccountWitnessProxy(a, p)
    \/ \E a \in Account, decline \in BOOLEAN : DeclineVotingRights(a, decline)
    \/ Block
    \/ \E from, to \in Account, n \in Amounts, d \in Amounts \cup {0} :
         BlockWithdrawing(from, to, n, d)

Spec == Init /\ [][Next]_vars
-----------------------------------------------------------------------------
\* Every variable has its type (account_object, witness_object and their indices).
TypeOK ==
    /\ now \in 0..MaxTime
    /\ vesting \in [Account -> Nat] /\ total \in Nat
    /\ proxy \in [Account -> Account \cup {Self}]
    /\ proxied \in [Account -> [0..MaxDepth - 1 -> Nat]]
    /\ approvals \subseteq Account \X Witness
    /\ votedFor \in [Account -> 0..MaxVotes]
    /\ votes \in [Witness -> Nat]
    /\ canVote \in [Account -> BOOLEAN]
    /\ declines \subseteq [account : Account, date : 0..MaxTime + DeclineDelay]

\* No account is above itself, however far the proxies are followed:
\* account_witness_proxy refuses a proxy that would close a loop, also one that
\* only a chain built by several accounts in any order can close.
NoProxyLoop ==
    \A a \in Account :
      \A d \in 1..Cardinality(Account) : Climb(proxy, a, Cardinality(Account))[d] # a

\* proxied_vsf_votes of an account is, distance by distance, the shares of the
\* accounts that reach it through their proxies, although every change of a
\* balance or of a proxy only adds a difference along the chain.
ProxiedMatch ==
    \A p \in Account, k \in 0..MaxDepth - 1 :
      proxied[p][k] = SumOver(vesting, {a \in Account : Up(proxy, a)[k + 1] = p})

\* The votes of a witness are the weights of the accounts that approve it, which
\* have no proxy and can vote: what adjust_witness_vote added over time is never
\* lost, kept for a vote that is gone or counted for two accounts.
VotesMatch ==
    /\ \A w \in Witness :
         votes[w] = SumOver([a \in Account |-> VoteWeight(State, a)],
                            {a \in Account : <<a, w>> \in approvals})
    /\ \A v \in approvals : proxy[v[1]] = Self /\ canVote[v[1]]
    /\ \A a \in Account : votedFor[a] = Cardinality({v \in approvals : v[1] = a})

\* validate_invariants: the shares of all accounts are total_vesting_shares, and
\* so is what the accounts at the top of the chains vote with, together with what
\* is too far down to be passed on.
SharesMatch ==
    /\ total = SumOver(vesting, Account)
    /\ total = SumOver([a \in Account |-> IF proxy[a] = Self THEN VoteWeight(State, a)
                                            ELSE proxied[a][MaxDepth - 1]], Account)

=============================================================================
