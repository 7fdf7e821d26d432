----------------------- MODULE MCPendingTransactions -----------------------
(***************************************************************************)
(* A small instance of PendingTransactions: t2 builds on t1 and refers to a *)
(* block of one branch, t3 competes with t1.                                *)
(***************************************************************************)
EXTENDS PendingTransactions, TLC

CONSTANTS t1, t2, t3, left, right

MCExpiration == [t \in Tx |-> (t1 :> 4 @@ t2 :> 3 @@ t3 :> 3)[t]]
MCNeeds == [t \in Tx |-> IF t = t2 THEN {t1} ELSE {}]
MCRivals == [t \in Tx |-> (t1 :> {t3} @@ t2 :> {} @@ t3 :> {t1})[t] \cap Tx]
MCRef == [t \in Tx |-> IF t = t2 THEN {left} ELSE {}]
=============================================================================
