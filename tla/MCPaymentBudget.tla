-------------------------- MODULE MCPaymentBudget --------------------------
(* Two builds that differ in nothing but their name.                        *)
EXTENDS PaymentBudget, TLC

PayersAreAlike == Permutations(Payers)
=============================================================================
