----------------------------- MODULE Summation -----------------------------
(***************************************************************************)
(* The sum of a function over a finite set of its arguments.                *)
(***************************************************************************)
EXTENDS FiniteSetsExt

SumOver(f, S) == MapThenSumSet(LAMBDA x : f[x], S)
=============================================================================
