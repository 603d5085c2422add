----------------------------- MODULE MCAccounts -----------------------------
(***************************************************************************)
(* A small instance of Accounts: two spellings of one address, and times   *)
(* as short as leave room between the touch interval, the idle lifetime    *)
(* and the absolute one, and between the first lock and the longest.       *)
(***************************************************************************)
EXTENDS Accounts, TLC

CONSTANTS u1, u2

LowerCase  == [s \in Spellings |-> "sonu"]
NobodyYet  == [u \in UserIds |-> None]
OneAccount == [u \in UserIds |-> IF u = u1 THEN "sonu" ELSE None]

Symmetric == Permutations(UserIds) \cup Permutations(Tokens) \cup Permutations(Requests)
=============================================================================
