---------------------------- MODULE MCAgentTurn ----------------------------
(* Two columns on the board of the turn and one on another board of the    *)
(* same user.                                                              *)
EXTENDS AgentTurn, TLC

CONSTANTS todo, done, elsewhere, k1, k2, k3, board, other

Placed == k1 :> todo @@ k2 :> elsewhere @@ k3 :> Unborn
Homes  == todo :> board @@ done :> board @@ elsewhere :> other
Owned  == {board, other}
=============================================================================
