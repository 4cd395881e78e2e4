------------------------------- MODULE MCBatch -------------------------------
(* Small instances of Batch: three connections for two slots, two          *)
(* conversations that come back and one that does not.                     *)
EXTENDS Batch, TLC

CONSTANTS c1, c2, c3, u, v, w

Fresh(x) == [conv |-> x, mode |-> "FRESH"]
FollowUp(x) == [conv |-> x, mode |-> "FOLLOW_UP"]
Snapshot(x) == [conv |-> x, mode |-> "SNAPSHOT"]

MCAsks == c1 :> {Fresh(v)} @@ c2 :> {Fresh(u), FollowUp(v)} @@ c3 :> {Fresh(w), Snapshot(v)}
=============================================================================
