----------------------------- MODULE MCCheckout -----------------------------
(* Instances of Checkout for TLC: one product in two sizes, or two products. *)
EXTENDS Checkout, TLC

CONSTANTS small, big, one, two

TwoSizes == {<<small, one>>, <<small, two>>}
TwoProducts == {<<small, one>>, <<big, two>>}

\* The sizes of TwoSizes may be swapped.
SizeSymmetry == Permutations({one, two})
=============================================================================
