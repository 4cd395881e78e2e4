----------------------------- MODULE MCAdmission -----------------------------
(* Small instances of Admission: two conversations, the batch widths 1 and *)
(* 2, one or two places in the queue.                                      *)
EXTENDS Admission, TLC

CONSTANTS r1, r2, r3, r4, c1, c2

MCReqs3 == {r1, r2, r3}
MCReqs4 == {r1, r2, r3, r4}
MCConvs == {c1, c2}
MCConvOf3 == [r \in MCReqs3 |-> IF r = r3 THEN c2 ELSE c1]
MCConvOf4 == [r \in MCReqs4 |-> IF r = r3 THEN c2 ELSE c1]
MCWidths == {1, 2}
MCSymmetry == Permutations({r1, r2, r4})
=============================================================================
