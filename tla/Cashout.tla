------------------------------ MODULE Cashout ------------------------------
(***************************************************************************)
(* Comments, the votes on them and their rewards (steem_evaluator.cpp,      *)
(* database.cpp, curation_info.cpp of libraries/chain), by the rules since  *)
(* hardfork 20.  A comment is paid once, a fixed time after it was written, *)
(* from a fund all unpaid comments share in proportion to their votes; the  *)
(* reward is divided among author, beneficiaries and curators.              *)
(*                                                                          *)
(* The strength of a vote (voting power times vesting shares) is an input.  *)
(* The limits on how often an account votes or posts, and the statistics    *)
(* that nothing here reads, are left out.                                   *)
(***************************************************************************)
EXTENDS Integers, FiniteSets, FiniteSetsExt, Functions, SequencesExt, TLC

CONSTANTS
    Comment,        \* author and permlink of the comments there may be,
    parentOf,       \* what each of them replies to, or None,
    author,         \* and who writes it
    None,
    Voter,          \* the accounts that vote, in the order of their ids
    Weights,        \* bound: the percents votes name
    Strengths,      \* bound: the abs_rshares of votes
    delegatorRate,  \* the percent of a curator's reward that is due to delegators
    Options,        \* bound: the options operations name
    referral,       \* the percent due to the author's referrer, until ReferralEnd
    ReferralEnd,
    RewardWeights,  \* bound: the reward_weight the rate of posting leaves to a post
    Medians,        \* bound: the medians of the witnesses: curation curve, price of GBG
    CurationPercent,\* min_curation_percent
    MaxCurationPercent,
    DefaultDestination, \* auction_window_reward_destination of a new comment
    Destinations,   \* those the witnesses allow
    FullPercent,    \* STEEMIT_100_PERCENT
    WeightModulus,  \* 2^64: weights are uint64_t
    ContentConstant,\* get_content_constant_s
    AuctionWindow,  \* auction_window_size
    CashoutWindow,  \* STEEMIT_CASHOUT_WINDOW_SECONDS
    UpvoteLockout,  \* STEEMIT_UPVOTE_LOCKOUT
    MaxVoteChanges, \* STEEMIT_MAX_VOTE_CHANGES
    MaxPayout,      \* the max_accepted_payout of a new comment
    MinPayout,      \* STEEMIT_MIN_PAYOUT_SBD
    OpeningFund,
    Inflow,         \* content_reward of a block
    MaxTime,        \* bound: time of the last block
    MaxOps          \* bound: number of operations

ASSUME CommentAssumption ==
    /\ parentOf \in [Comment -> Comment \cup {None}] /\ None \notin Comment
    /\ Voter \subseteq Nat
    /\ Weights \subseteq Int /\ Strengths \subseteq Nat \ {0}

ASSUME PercentAssumption ==
    /\ {FullPercent, WeightModulus, AuctionWindow, CashoutWindow} \subseteq Nat \ {0}
    /\ delegatorRate \in [Voter -> 0..FullPercent]
    /\ RewardWeights \subseteq 0..FullPercent

VARIABLES
    now,        \* head_block_time
    phase,      \* "operations", or "cashout" at the end of the block
    ops,        \* number of operations so far
    post,       \* comment_object by comment
    votes,      \* the comment_vote_objects of a comment in the order of their ids
    queue,      \* the unpaid comments, as by_cashout_time orders them
    referrer,   \* account_object::referrer_interest_rate by author, 0 without referrer
    shares,     \* total_reward_shares2
    fund,       \* total_reward_fund_steem
    median,     \* median_props.curation_reward_curve and current_median_history
    payout      \* how the last reward was divided

vars == <<now, phase, ops, post, votes, queue, referrer, shares, fund, median, payout>>

Never == MaxTime + CashoutWindow + 1     \* time_point_sec::maximum()

\* A comment and what it replies to, directly or not.
Path[c \in Comment] == {c} \cup (IF parentOf[c] = None THEN {} ELSE Path[parentOf[c]])
Thread(c) == {d \in DOMAIN post : c \in Path[d]}

Operation ==
    /\ phase = "operations" /\ ops < MaxOps
    /\ ops' = ops + 1
    /\ UNCHANGED <<now, phase, fund, median, payout>>

\* calculate_vshares of max(net_rshares, 0)
Rewarded(n) == IF n > 0 THEN n ELSE 0
-----------------------------------------------------------------------------
NewOptions(c) ==
    [votes |-> TRUE, curation |-> TRUE, max |-> MaxPayout, sbd |-> FullPercent,
     benef |-> IF referrer[author[c]] > 0 /\ now < ReferralEnd
               THEN <<[to |-> "referrer", weight |-> referrer[author[c]]]>> ELSE <<>>,
     dest |-> DefaultDestination, percent |-> CurationPercent]

NewComment(c, w) ==
    [created |-> now, cashout |-> now + CashoutWindow, net |-> 0, abs |-> 0, netVotes |-> 0,
     children |-> 0, shares2 |-> 0, weight |-> w, opts |-> NewOptions(c)]

\* One more, or one less, reply below all that c replies to.
CountReply(p, c, n) ==
    [d \in DOMAIN p |-> IF d \in Path[c] \ {c} THEN [p[d] EXCEPT !.children = @ + n] ELSE p[d]]

WriteComment(c, w) ==
    /\ Operation
    /\ c \notin DOMAIN post
    /\ IF parentOf[c] = None THEN w \in RewardWeights ELSE parentOf[c] \in DOMAIN post /\ w = FullPercent
    /\ post' = (c :> NewComment(c, w)) @@ CountReply(post, c, 1)
    /\ votes' = (c :> <<>>) @@ votes
    /\ queue' = Append(queue, c)
    /\ referrer' = [referrer EXCEPT ![author[c]] = IF now < ReferralEnd THEN @ ELSE 0]
    /\ UNCHANGED shares

DeleteComment(c) ==
    /\ Operation
    /\ c \in DOMAIN post
    /\ post[c].children = 0
    /\ post[c].net <= 0
    /\ post' = Restrict(CountReply(post, c, -1), DOMAIN post \ {c})
    /\ votes' = Restrict(votes, DOMAIN post \ {c})
    /\ queue' = SelectSeq(queue, LAMBDA d : d # c)
    /\ UNCHANGED <<referrer, shares>>

\* The visitor of comment_payout_beneficiaries; the referrer was entered first.
Beneficiaries(c, B) ==
    LET old == post[c].opts.benef
    IN  /\ \/ /\ Len(old) = 1 /\ old[1].to = "referrer" /\ referrer[author[c]] > 0
              /\ \A i \in DOMAIN B : B[i].to # "referrer"
           \/ old = <<>>
        /\ post[c].abs = 0
        /\ FoldLeft(LAMBDA n, b : n + b.weight, 0, old \o B) <= FullPercent

\* An extension that the operation does not have is <<>>.
CommentOptions(c, o) ==
    /\ Operation
    /\ c \in DOMAIN post
    /\ LET old == post[c].opts
       IN  /\ ~o.curation \/ ~o.votes \/ o.max < old.max => post[c].abs = 0
           /\ o.curation => old.curation
           /\ o.votes => old.votes
           /\ o.max <= old.max /\ o.sbd <= old.sbd
           /\ o.benef # <<>> => Beneficiaries(c, o.benef)
           /\ o.dest # <<>> => post[c].abs = 0 /\ o.dest[1] \in Destinations
           /\ o.percent # <<>> => post[c].abs = 0 /\ o.percent[1] \in CurationPercent..MaxCurationPercent
           /\ post' = [post EXCEPT ![c].opts =
                [o EXCEPT !.benef = old.benef \o @,
                          !.dest = IF @ = <<>> THEN old.dest ELSE @[1],
                          !.percent = IF @ = <<>> THEN old.percent ELSE @[1]]]
    /\ UNCHANGED <<votes, queue, referrer, shares>>
-----------------------------------------------------------------------------
(***************************************************************************)
(* Votes.                                                                   *)
(***************************************************************************)
VotesOf(c, v) == {i \in DOMAIN votes[c] : votes[c][i].voter = v}
Sign(n) == IF n > 0 THEN 1 ELSE IF n < 0 THEN -1 ELSE 0

\* Mutant: only the comment itself is adjusted.
AdjustSharesHere(p, c, old, new) == [p EXCEPT ![c].shares2 = @ - old + new]

\* adjust_rshares2, along the path to the post; the total is adjusted with it
AdjustShares(p, c, old, new) ==
    [d \in DOMAIN p |-> IF d \in Path[c] THEN [p[d] EXCEPT !.shares2 = @ - old + new] ELSE p[d]]

\* Mutant: the shares of the vote before the change stay.
CountVoteAnew(c, old, new, n) ==
    LET net == post[c].net + new
        p == [post EXCEPT ![c].net = net, ![c].abs = @ + n]
    IN  /\ post' = AdjustShares([p EXCEPT ![c].netVotes = @ + Sign(new) - Sign(old)],
                                c, Rewarded(post[c].net), Rewarded(net))
        /\ shares' = shares - Rewarded(post[c].net) + Rewarded(net)

\* net_rshares and net_votes when a vote of `old' becomes one of `new'.
CountVote(c, old, new, n) ==
    LET net == post[c].net - old + new
        p == [post EXCEPT ![c].net = net, ![c].abs = @ + n]
    IN  /\ post' = AdjustShares([p EXCEPT ![c].netVotes = @ + Sign(new) - Sign(old)],
                                c, Rewarded(post[c].net), Rewarded(net))
        /\ shares' = shares - Rewarded(post[c].net) + Rewarded(net)

Increases(c) == now < post[c].cashout - UpvoteLockout

AuctionTime(c, v) ==
    IF v = author[c] \/ now - post[c].created > AuctionWindow THEN AuctionWindow ELSE now - post[c].created

NewVote(c, v, w, n) ==
    /\ Operation
    /\ c \in DOMAIN post /\ post[c].cashout # Never
    /\ VotesOf(c, v) = {}
    /\ w # 0
    /\ w > 0 => post[c].opts.votes /\ Increases(c)
    /\ CountVote(c, 0, Sign(w) * n, n)
    /\ LET curates == w > 0 /\ post[c].opts.curation
       IN votes' = [votes EXCEPT ![c] = Append(@,
            [voter |-> v, percent |-> w, rshares |-> Sign(w) * n, changes |-> 0,
             orig |-> IF curates THEN n ELSE 0,
             time |-> IF curates THEN AuctionTime(c, v) ELSE 0,
             rate |-> IF curates THEN delegatorRate[v] ELSE 0])]
    /\ UNCHANGED <<queue, referrer>>

ChangeVote(c, v, w, n) ==
    /\ Operation
    /\ c \in DOMAIN post /\ post[c].cashout # Never
    /\ w > 0 => post[c].opts.votes
    /\ \E i \in VotesOf(c, v) :
         LET old == votes[c][i]
             new == Sign(w) * n
         IN  /\ old.changes < MaxVoteChanges
             /\ old.percent # w
             /\ old.rshares < new => Increases(c)
             /\ CountVote(c, old.rshares, new, IF w = 0 THEN 0 ELSE n)
             /\ votes' = [votes EXCEPT ![c][i] = [@ EXCEPT !.rshares = new, !.percent = w,
                                                           !.changes = @ + 1, !.rate = 0]]
    /\ UNCHANGED <<queue, referrer>>

\* A vote on a comment that has been paid.
LateVote(c, v, w) ==
    /\ Operation
    /\ c \in DOMAIN post /\ post[c].cashout = Never
    /\ w > 0 => post[c].opts.votes
    /\ votes' = [votes EXCEPT ![c] =
         IF VotesOf(c, v) = {}
         THEN Append(@, [voter |-> v, percent |-> w, rshares |-> 0, changes |-> -2,
                         orig |-> 0, time |-> 0, rate |-> 0])
         ELSE [i \in DOMAIN @ |-> IF i \in VotesOf(c, v) THEN [@[i] EXCEPT !.percent = w] ELSE @[i]]]
    /\ UNCHANGED <<post, queue, referrer, shares>>
-----------------------------------------------------------------------------
(***************************************************************************)
(* comment_curation_info: the weight of the votes as curation.              *)
(***************************************************************************)
Log2(x) == CHOOSE m \in 0..x : 2^m <= x /\ x < 2^(m + 1)

\* The square root of x, from half of its bits.
approx_sqrt(x) ==
    IF x = 0 THEN 0
    ELSE LET m == Log2(x)
             z == m \div 2
         IN  2^z + ((IF m % 2 = 1 THEN 2^z ELSE 0) + (x - 2^m) \div 2^(m - z)) \div 2

\* The weight of all votes of together r shares.
Curve(curve, r) ==
    IF curve = "bounded" THEN (r * (WeightModulus - 1)) \div (2 * ContentConstant + r) ELSE approx_sqrt(r)

\* calculate_curve; the linear weight is a signed number taken as an unsigned one
CurveWeight(curve, h, v) ==
    (IF curve = "linear" THEN v.rshares ELSE Curve(curve, h.rshares + v.orig) - h.old) % WeightModulus

\* calculate_weight: an early vote leaves a part of its weight to the auction window
Weigh(curve, h, v) ==
    LET weight == CurveWeight(curve, h, v)
        early == weight > 0 /\ v.time # AuctionWindow
        own == IF early THEN (weight * v.time) \div AuctionWindow ELSE weight
        changed == v.changes \notin {0, -1}
        counted == IF changed THEN 0 ELSE own
    IN  IF v.orig <= 0 THEN h
        ELSE [rshares |-> h.rshares + v.orig,
              old |-> IF curve = "linear" THEN h.old ELSE Curve(curve, h.rshares + v.orig),
              window |-> (h.window + weight - own) % WeightModulus,
              inside |-> (h.inside + IF early THEN counted ELSE 0) % WeightModulus,
              total |-> (h.total + weight - own + counted) % WeightModulus,
              list |-> IF counted = 0 THEN h.list
                       ELSE Append(h.list, [voter |-> v.voter, weight |-> counted, time |-> v.time, rate |-> v.rate])]

curation_info(curve, c) ==
    LET h == FoldLeft(LAMBDA x, v : Weigh(curve, x, v),
                      [rshares |-> 0, old |-> 0, window |-> 0, inside |-> 0, total |-> 0, list |-> <<>>], votes[c])
    IN  [window |-> h.window, total |-> h.total,
         after |-> (h.total - h.inside - h.window) % WeightModulus,
         list |-> SortSeq(h.list, LAMBDA x, y : x.weight > y.weight \/ (x.weight = y.weight /\ x.voter < y.voter))]
-----------------------------------------------------------------------------
(***************************************************************************)
(* Payment of one comment.                                                  *)
(***************************************************************************)
\* pay_curator and pay_delegators
pay_curator(s, e, claim) ==
    LET lent == (claim * e.rate) \div FullPercent
    IN  [s EXCEPT !.unclaimed = @ - claim, !.delegators = @ + lent, !.curators = @ + claim - lent]

\* One turn of the loop of pay_curators for the vote e: `takes' when the vote came
\* after the auction window and has a part in what that has left.
PayTurn(s, e, claim, takes) ==
    IF takes /\ s.heaviest = <<>> THEN [s EXCEPT !.heaviest = <<e>>]
    ELSE IF claim > 0 THEN pay_curator(s, e, claim)
    ELSE [s EXCEPT !.stop = TRUE]

\* Mutant: early votes have a part in what they left to the auction window.
ClaimAnyone(e, info, max, takes) ==
    (max * e.weight) \div info.total
    + IF info.after > 0 THEN (((max * info.window) \div info.total) * e.weight) \div info.after ELSE 0

\* What is due to the vote e of max.
Claim(e, info, max, takes) ==
    (max * e.weight) \div info.total
    + IF takes /\ info.after > 0 THEN (((max * info.window) \div info.total) * e.weight) \div info.after ELSE 0

\* What of max the curators of c and their delegators get and what they leave.
pay_curators(c, info, max) ==
    LET nobody == [unclaimed |-> max, curators |-> 0, delegators |-> 0, heaviest |-> <<>>, stop |-> FALSE]
        Takes(e) == post[c].opts.dest = "to_curators" /\ e.time = AuctionWindow
        s == FoldLeft(LAMBDA x, e : IF x.stop THEN x ELSE PayTurn(x, e, Claim(e, info, max, Takes(e)), Takes(e)),
                      nobody, info.list)
    IN  IF info.total = 0 \/ ~post[c].opts.curation THEN nobody
        ELSE IF s.heaviest = <<>> THEN s
        ELSE pay_curator(s, s.heaviest[1], s.unclaimed)

\* claim_rshare_reward
ToSbd(n) == n * median.price
ToSteem(n) == IF median.price = 0 THEN 0 ELSE n \div median.price

Reward(c) ==
    LET part == (post[c].net * post[c].weight) \div FullPercent
        n == (fund * part) \div shares
    IN  IF ToSbd(n) < MinPayout THEN 0 ELSE Min({n, ToSteem(post[c].opts.max)})

\* A percentage of a number that may be negative: C++ rounds to zero.
PercentOf(n, percent, whole) == Sign(n) * ((Sign(n) * n * percent) \div whole)

(***************************************************************************)
(* How cashout_comment_helper divides a reward: `returned' goes back to the *)
(* fund, sbd and vesting are what the author gets.                          *)
(***************************************************************************)
Divide(c, reward) ==
    LET opts == post[c].opts
        curation == (reward * opts.percent) \div FullPercent
        paid == pay_curators(c, curation_info(median.curve, c), curation)
        returned == IF ~opts.curation \/ (opts.dest # "to_author" /\ paid.unclaimed > 0)
                    THEN paid.unclaimed ELSE 0
        tokens == reward - curation + paid.unclaimed - returned
        benef == FoldLeft(LAMBDA n, b : n + PercentOf(tokens, b.weight, FullPercent), 0, opts.benef)
        sbd == PercentOf(tokens - benef, opts.sbd, 2 * FullPercent)
    IN  [reward |-> reward, curation |-> curation, curators |-> paid.curators, delegators |-> paid.delegators,
         returned |-> returned, benef |-> benef, sbd |-> sbd, vesting |-> tokens - benef - sbd]

\* cashout_comment_helper
CashoutComment ==
    /\ phase = "cashout"
    /\ queue # <<>>
    /\ LET c == Head(queue)
           net == post[c].net
           old == Rewarded(net)
       IN  /\ post[c].cashout <= now
           /\ \E reward \in {IF net > 0 THEN Reward(c) ELSE 0} :
                IF reward = 0
                THEN payout' = None /\ UNCHANGED fund
                ELSE \E d \in {Divide(c, reward)} : payout' = d /\ fund' = fund - reward + d.returned
           /\ shares' = shares - old
           /\ post' = [AdjustShares(post, c, old, 0) EXCEPT
                ![c].net = @ - old, ![c].abs = 0, ![c].cashout = Never]
           /\ votes' = [votes EXCEPT ![c] =
                [i \in DOMAIN @ |-> [@[i] EXCEPT !.changes = -1 - @]]]
    /\ queue' = Tail(queue)
    /\ UNCHANGED <<now, phase, ops, referrer, median>>

\* The block after its operations: update_global_dynamic_data, the medians and process_funds.
EndOfBlock ==
    /\ phase = "operations" /\ now < MaxTime
    /\ now' = now + 1
    /\ phase' = "cashout"
    /\ median' \in Medians
    /\ fund' = fund + Inflow
    /\ payout' = None
    /\ UNCHANGED <<ops, post, votes, queue, referrer, shares>>

\* process_comment_cashout has paid all that is due; the medians are next read after they are set.
CashoutDone ==
    /\ phase = "cashout"
    /\ queue # <<>> => post[Head(queue)].cashout > now
    /\ phase' = "operations"
    /\ median' = None /\ payout' = None
    /\ UNCHANGED <<now, ops, post, votes, queue, referrer, shares, fund>>

Init ==
    /\ now = 0 /\ phase = "operations" /\ ops = 0
    /\ post = <<>> /\ votes = <<>> /\ queue = <<>>
    /\ referrer = referral
    /\ shares = 0 /\ fund = OpeningFund
    /\ median = None /\ payout = None

Next ==
    \/ \E c \in Comment :
         \/ \E w \in RewardWeights \cup {FullPercent} : WriteComment(c, w)
         \/ DeleteComment(c)
         \/ \E o \in Options : CommentOptions(c, o)
         \/ \E v \in Voter, w \in Weights :
              \/ \E n \in Strengths : NewVote(c, v, w, n) \/ ChangeVote(c, v, w, n)
              \/ LateVote(c, v, w)
    \/ CashoutComment \/ EndOfBlock \/ CashoutDone

Spec == Init /\ [][Next]_vars
-----------------------------------------------------------------------------
SumOf(op(_), S) == MapThenSumSet(op, S)

(***************************************************************************)
(* The pool of reward shares is what the unpaid comments have, the sum of   *)
(* a thread is kept with each comment above it, and every comment counts    *)
(* the replies below it, all of which exist with what they reply to: the    *)
(* walk of adjust_rshares2 to the post never fails and a claim never        *)
(* divides by less than the claimant's part.                                *)
(***************************************************************************)
RewardsTallied ==
    /\ shares = SumOf(LAMBDA c : Rewarded(post[c].net), DOMAIN post)
    /\ \A c \in DOMAIN post :
         /\ Path[c] \subseteq DOMAIN post
         /\ post[c].shares2 = SumOf(LAMBDA d : Rewarded(post[d].net), Thread(c))
         /\ post[c].children = Cardinality(Thread(c)) - 1

(***************************************************************************)
(* However votes are cast, changed and withdrawn, net_rshares and net_votes *)
(* of an unpaid comment are those of the votes there are, and a paid        *)
(* comment has no reward left: its votes are out of the consensus.          *)
(***************************************************************************)
VotesTallied ==
    \A c \in DOMAIN post :
      LET all == DOMAIN votes[c]
      IN  /\ post[c].netVotes = SumOf(LAMBDA i : Sign(votes[c][i].rshares), all)
          /\ IF post[c].cashout = Never
             THEN post[c].net <= 0 /\ \A i \in all : votes[c][i].changes < 0
             ELSE /\ post[c].net = SumOf(LAMBDA i : votes[c][i].rshares, all)
                  /\ post[c].cashout > now \/ phase = "cashout"

\* A vote for the comment, early in the auction window, that was turned against it: its
\* linear weight is a negative number taken as an unsigned one.
Turned(c) == \E i \in DOMAIN votes[c] : votes[c][i].orig > 0 /\ votes[c][i].rshares < 0

(***************************************************************************)
(* A reward is divided without a rest: what leaves the fund is what author, *)
(* beneficiaries, curators and their delegators get.  The curators together *)
(* get at most the part set aside for them, whatever the roundings and the  *)
(* auction window do, so the author never pays for them.  For the linear    *)
(* curve only while no vote was Turned.                                     *)
(***************************************************************************)
PayoutExact ==
    [][queue' # queue /\ payout' # None /\ (median.curve = "linear" => ~Turned(Head(queue))) =>
         LET p == payout'
         IN  /\ fund - fund' = p.curators + p.delegators + p.benef + p.sbd + p.vesting
             /\ \A f \in {"curators", "delegators", "returned", "benef", "sbd", "vesting"} : p[f] >= 0
             /\ p.curators + p.delegators <= p.curation
             /\ fund' >= 0]_vars
=============================================================================
