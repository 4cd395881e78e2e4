---------------------------- MODULE MCSpecDecode ----------------------------
(***************************************************************************)
(* Values of the constants of SpecDecode for TLC.                          *)
(***************************************************************************)
EXTENDS SpecDecode

CONSTANTS a, b

MCToken == {a, b}

(* A model whose answer depends on the length and on the last token.       *)
MCGreedy(s) ==
  IF s = <<>> THEN a
  ELSE IF Len(s) % 3 = 1 THEN s[Len(s)]
  ELSE IF s[Len(s)] = a THEN b ELSE a

MCBase == <<a>>
MCPrompts == {<<b>>, <<a, b>>}
MCDeltas == {<<b>>, <<a, a>>}
=============================================================================
