----------------------------- MODULE MCClassifier -----------------------------
(* An instance of Classifier for TLC: closes 3% and 9% apart, so that halves *)
(* differ by less and by more than 2%, and daily returns make low, medium    *)
(* and high volatility.                                                      *)
EXTENDS Classifier

Prices == {100, 103, 112}

NoneOrSome == {0, 1}

LnOfPrice == [p \in Prices |-> CASE p = 100 -> 4605 [] p = 103 -> 4635 [] p = 112 -> 4718]
=============================================================================
