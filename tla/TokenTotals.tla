---- MODULE TokenTotals ----
(***************************************************************************)
(* Totals over the token contract's balances.                              *)
(*                                                                         *)
(* The contracts keep an amount per address and compare all of them with a *)
(* single number (KEY_TOTAL, the balance of the contract).  The models say *)
(* "the sum of the amounts" as the number of coins: an amount of n is the  *)
(* n coins <<owner, 1>> .. <<owner, n>>.  A cardinality, unlike a          *)
(* recursive sum, can be reasoned about with the theorems on finite sets,  *)
(* so the same definition is evaluated by TLC and used in the proofs.      *)
(***************************************************************************)
EXTENDS Integers, FiniteSets

\* The coins that the owners in S have under the balance function bal.
Coins(bal, S) == UNION {{x} \X (1..bal[x]) : x \in S}

\* The sum of bal[x] for x in S, where every bal[x] is a natural number.
TotalOf(bal, S) == Cardinality(Coins(bal, S))
====
