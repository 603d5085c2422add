---------------------------- MODULE MCBoardPage -----------------------------
(* A board of two columns with two cards, and one more to be made.         *)
EXTENDS BoardPage, TLC

CONSTANTS todo, done, k1, k2

TwoCards  == todo :> <<k1, k2>> @@ done :> <<>>
Symmetric == Permutations(Runs)
=============================================================================
