----------------------------- MODULE MCCashout -----------------------------
(***************************************************************************)
(* A post and a reply to it.  Account 1 writes the post, with a referrer,   *)
(* and votes for itself; account 2 has delegators.                          *)
(***************************************************************************)
EXTENDS Cashout

MCParent == [c \in {"post", "reply"} |-> IF c = "post" THEN None ELSE "post"]
MCAuthor == [c \in {"post", "reply"} |-> IF c = "post" THEN 1 ELSE 3]
MCRate == [v \in {1, 2} |-> IF v = 2 THEN 30 ELSE 0]
MCReferral == [a \in {1, 3} |-> IF a = 1 THEN 20 ELSE 0]
MCMedians == {[curve |-> "bounded", price |-> 1], [curve |-> "square_root", price |-> 1],
              [curve |-> "linear", price |-> 2]}
MCWeights == {-1, 0, 1}

Same == [votes |-> TRUE, curation |-> TRUE, max |-> 9, sbd |-> 100, benef |-> <<>>, dest |-> <<>>, percent |-> <<>>]
MCOptions ==
    {[Same EXCEPT !.curation = FALSE, !.benef = <<[to |-> "other", weight |-> 15]>>],
     [Same EXCEPT !.dest = <<"to_author">>, !.percent = <<60>>, !.sbd = 50],
     [Same EXCEPT !.votes = FALSE, !.dest = <<"to_reward_fund">>]}
=============================================================================
