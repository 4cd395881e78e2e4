------------------------------- MODULE MCTurn -------------------------------
(* Small instances of Turn: two turns or a turn and its retry.             *)
EXTENDS Turn, TLC

CONSTANTS r1, r2, k1, none

MCKeyOf == r1 :> k1 @@ r2 :> k1
=============================================================================
