---------------------------- MODULE GreedyDecode ----------------------------
(***************************************************************************)
(* What the decode engine promises (the lossless, "Tier-1" contract of     *)
(* engine/mtp.py): whatever drafts, modes, rebuilds and parkings happen    *)
(* inside, the resident conversation only grows by the model's own greedy  *)
(* continuation of everything that is in it.                               *)
(*                                                                         *)
(* text is the resident conversation; its last token has been emitted and  *)
(* is not yet fed to the model.  <<>> means that nothing is promised.      *)
(***************************************************************************)
EXTENDS Integers, Sequences

CONSTANTS
  Token,      \* the vocabulary
  Greedy(_),  \* the model: the argmax of its logits after a token sequence
  Prompts,    \* what a new conversation may begin with
  BootText    \* the conversation the engine starts with

VARIABLES
  text,       \* the resident conversation
  saved,      \* the conversation a snapshot holds
  replying    \* the engine is generating

vars == <<text, saved, replying>>

(* The last token of t is the model's answer to the rest of it.            *)
Answered(t) ==
  /\ t \in Seq(Token)
  /\ Len(t) > 1
  /\ t[Len(t)] = Greedy(SubSeq(t, 1, Len(t) - 1))

(* t is s followed by greedy tokens, one or more.                          *)
Continues(s, t) ==
  /\ Len(t) > Len(s)
  /\ SubSeq(t, 1, Len(s)) = s
  /\ \A i \in Len(s) + 1 .. Len(t) : t[i] = Greedy(SubSeq(t, 1, i - 1))

Init == text = BootText /\ Answered(text) /\ saved = <<>> /\ ~replying

(* Back to the conversation of the start, at any time.                     *)
Restart == text' = BootText /\ replying' = FALSE /\ UNCHANGED saved

(* A new conversation, with the first token of the reply.                  *)
Ask ==
  /\ ~replying
  /\ \E p \in Prompts : text' = Append(p, Greedy(p))
  /\ UNCHANGED <<saved, replying>>

(* New tokens after what the model has been fed of the conversation.       *)
Add ==
  /\ ~replying /\ text # <<>>
  /\ Answered(text')
  /\ Len(text') > Len(text)
  /\ SubSeq(text', 1, Len(text) - 1) = SubSeq(text, 1, Len(text) - 1)
  /\ UNCHANGED <<saved, replying>>

(* The reply begins, goes on, ends.                                        *)
Begin == ~replying /\ replying' = TRUE /\ UNCHANGED <<text, saved>>

Reply ==
  /\ replying /\ replying' \in BOOLEAN
  /\ text # <<>> /\ Continues(text, text')
  /\ UNCHANGED saved

End == replying' = FALSE /\ UNCHANGED <<text, saved>>

(* Nothing is promised any more, until the next Restart, Ask or Load.      *)
Lose == text' = <<>> /\ replying' \in BOOLEAN /\ UNCHANGED saved

Save == ~replying /\ saved' = text /\ UNCHANGED <<text, replying>>

Load == ~replying /\ text' = saved /\ UNCHANGED <<saved, replying>>

Next == Restart \/ Ask \/ Add \/ Begin \/ Reply \/ End \/ Lose \/ Save \/ Load

Spec == Init /\ [][Next]_vars
=============================================================================
