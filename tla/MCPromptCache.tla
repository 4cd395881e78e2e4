--------------------------- MODULE MCPromptCache ---------------------------
(* Small instances of PromptCache: a conversation of two nodes and a       *)
(* branch of it, with the boot conversation's node beside or as its root.  *)
EXTENDS PromptCache, TLC

CONSTANTS a, b, c, none

MCKeys == {a, b, c}
MCParent == a :> none @@ b :> a @@ c :> none
MCChain == a :> {a} @@ b :> {a, b} @@ c :> {c}
(* Nothing, or a root of the conversation and the boot node, pinned.       *)
MCEarlier == {NoCopy, [ent |-> {a, c}, pin |-> {c}, mixed |-> FALSE]}
=============================================================================
