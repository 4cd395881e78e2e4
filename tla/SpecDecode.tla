----------------------------- MODULE SpecDecode -----------------------------
(***************************************************************************)
(* Speculative decoding of the one resident conversation of the legacy     *)
(* daemon: DecodeSession and the state transfers of engine/mtp.py under    *)
(* the RPC handlers of engine/serve.py (prefill, generate, snapshots).     *)
(*                                                                         *)
(* A device buffer is modelled by its tag: the token sequence it has       *)
(* absorbed.  The recurrent state exists twice, in the SPEC world (slot 4  *)
(* of rec4/conv4) and in the TRUNK world (rec, and conv twice, as a        *)
(* ping-pong pair); a KV row holds the sequence up to its token.  The      *)
(* model's next token is Greedy(s) when everything a step reads has        *)
(* absorbed the same s, and any token otherwise.                           *)
(*                                                                         *)
(* The daemon runs one RPC at a time, and looks at the world between two   *)
(* cycles of a generate; so an action is a handler, or one cycle.          *)
(***************************************************************************)
EXTENDS Integers, Sequences

CONSTANTS
  Token,        \* the vocabulary
  Greedy(_),    \* argmax of the model's logits after a token sequence
  NoTok,        \* not a token
  CtxK,         \* CTXK: rows of a KV plane
  Planes,       \* K and V planes of a KV slab, laid out one after the other
  BaseK,        \* draft length of the K2 set
  ProseK,       \* ... of the K4-EAGLE prose set
  DeepK,        \* ... of the deep lookup set
  DeepTrig,     \* LOOKUP_TRIG
  ProseTrig,    \* TLX_EAGLE_PROSE_TRIG
  T1Trig,       \* TLX_T1_TRIG
  T1Guard,      \* 8 in the code: rows kept free by the T=1 mode
  HistSlack,    \* 256 in the code: rows of tok_hist beyond CTXK
  SnapSlack,    \* 16 in the code: rows saved beyond pos
  BaseIds,      \* the prompt of the boot snapshot
  Prompts,      \* bound: the prompts of FRESH prefills
  Deltas,       \* bound: the new tokens of FOLLOW_UP prefills
  MaxCycles,    \* bound on max_cycles of a generate
  MaxRpcs       \* bound on the RPCs between two starts of the daemon

(* The longest sequence the model is asked about.                          *)
MaxText == 2 * CtxK + BaseK + ProseK + DeepK

ASSUME TokenAssumption == Token # {} /\ NoTok \notin Token
ASSUME SizeAssumption ==
  /\ CtxK \in Nat \ {0} /\ Planes \in Nat \ {0}
  /\ BaseK \in Nat \ {0} /\ ProseK \in Nat \ {0} /\ DeepK \in Nat \ {0}
  /\ DeepTrig \in Nat \ {0} /\ ProseTrig \in Nat /\ T1Trig \in Nat \ {0}
  /\ T1Guard \in Nat \ {0} /\ HistSlack \in Nat /\ SnapSlack \in Nat
  /\ MaxCycles \in Nat \ {0} /\ MaxRpcs \in Nat
ASSUME InputAssumption ==
  /\ \A p \in Prompts \cup {BaseIds} : p \in Seq(Token) /\ Len(p) \in 1 .. CtxK
  /\ \A u \in Deltas : u \in Seq(Token) /\ Len(u) > 0
ASSUME GreedyAssumption ==
  \A n \in 0 .. MaxText : \A s \in [1 .. n -> Token] : Greedy(s) \in Token

VARIABLES
  knob,    \* boot knobs: "t1" (TLX_T1_MODE) or "eagle" (TLX_EAGLE_K = 4)
  eng,     \* device buffers and DecodeSession, see Boot
  hpos,    \* ST.pos_cache
  mode,    \* ST.mode
  dirty,   \* ST.dirty
  busy,    \* a generate is running
  left,    \* its cycles left
  rpcs,    \* RPCs since the daemon started
  text,    \* history: the conversation the daemon holds; <<>> when some
           \* buffer is known not to match what was reported
  strained, \* history: the conversation was lost with no error raised: a
            \* step ran past the context, or a reload brought back less
  snap     \* the directory of snapshot_save

vars == <<knob, eng, hpos, mode, dirty, busy, left, rpcs, text, strained, snap>>

----------------------------------------------------------------------------
(* Tags and KV slabs.                                                      *)

Junk == <<NoTok>>
Tag(ok, s) == IF ok THEN s ELSE Junk
Front(s) == SubSeq(s, 1, Len(s) - 1)
Cells == (0 .. Planes - 1) \X (0 .. CtxK - 1)

(* Everything a step at w.pos reads has absorbed s.                        *)
Reads(w, s) ==
  /\ s \in Seq(Token)
  /\ Len(s) = w.pos
  /\ w.pos <= CtxK
  /\ \A c \in Cells : c[2] < w.pos => w.kv[c] = SubSeq(s, 1, c[2] + 1)

SpecSound(w) == w.conv4 = w.rec4 /\ Reads(w, w.rec4)
TrunkSound(w, par) == w.conv[par] = w.rec /\ Reads(w, w.rec)

(* The rows of tokens u are written from w.pos on, after s was absorbed.   *)
(* A row past the end of its plane is a row of the next plane.             *)
Written(w, ok, s, u) ==
  [c \in Cells |->
     IF c[2] - w.pos \in 0 .. Len(u) - 1 THEN Tag(ok, s \o SubSeq(u, 1, c[2] - w.pos + 1))
     ELSE IF c[1] > 0 /\ c[2] + CtxK - w.pos \in 0 .. Len(u) - 1 THEN Junk
     ELSE w.kv[c]]

----------------------------------------------------------------------------
(* Transfers between the two worlds.                                       *)

StLoad(w) == [w EXCEPT !.rec = w.rec4, !.conv[0] = w.conv4]

(* Fault: the other half of the ping-pong pair is taken.                   *)
StSeedWrongHalf(w, par) == [w EXCEPT !.rec4 = w.rec, !.conv4 = w.conv[1 - par]]

StSeed(w, par) == [w EXCEPT !.rec4 = w.rec, !.conv4 = w.conv[par]]

T1Enter(w) ==
  [StLoad(w) EXCEPT !.tok = w.cur, !.t1 = TRUE, !.t1par = 0, !.t1pos = w.pos, !.zerorun = 0]

T1Exit(w, hit) ==
  [StSeed(w, w.t1par) EXCEPT
     !.cur = w.tok, !.t1 = FALSE, !.t1par = 0, !.zerorun = 0,
     !.hitrun = IF hit THEN DeepTrig ELSE @, !.deep = hit \/ @]

(* _t1_park: the spec world is current afterwards.                         *)
Park(w) == IF w.t1 THEN T1Exit(w, FALSE) ELSE w

(* DecodeSession.begin.                                                    *)
Begin(w) ==
  [Park([w EXCEPT !.deep = FALSE, !.hitrun = 0]) EXCEPT
     !.t1par = 0, !.zerorun = 0, !.missrun = 0, !.prose = FALSE]

(* The trunk feeds u, token k reading conv[k % 2] and writing the other    *)
(* half (prefill_t1; the batched prefill leaves the same live state); next *)
(* is the argmax after the last one.                                       *)
Feed(w, u, next) ==
  LET ok == TrunkSound(w, 0)
  IN  IF u = <<>> THEN w
      ELSE [w EXCEPT
              !.rec  = Tag(ok, w.rec \o u),
              !.conv = [h \in {0, 1} |->
                          Tag(ok, w.rec \o IF h = Len(u) % 2 THEN u ELSE Front(u))],
              !.kv   = Written(w, ok, w.rec, u),
              !.pos  = @ + Len(u),
              !.tok  = next]

(* What the argmax after s may be.                                         *)
Answers(ok, s) == IF ok THEN {Greedy(s)} ELSE Token

----------------------------------------------------------------------------
(* One cycle.                                                              *)

DraftLen(w) == IF w.deep THEN DeepK ELSE IF knob = "eagle" /\ w.prose THEN ProseK ELSE BaseK

(* The probe's argmaxes: a[j] is the answer after cur and j - 1 drafts.    *)
Probes(w, d) ==
  {a \in [1 .. Len(d) + 1 -> Token] :
     SpecSound(w) => \A j \in DOMAIN a :
                        a[j] = Greedy(Append(w.rec4, w.cur) \o SubSeq(d, 1, j - 1))}

(* Fault: a draft is accepted after a rejected one.                        *)
AcceptsAnywhere(d, a, m) ==
  /\ m > 0 => d[m] = a[m]
  /\ \A j \in m + 1 .. Len(d) : d[j] # a[j]

(* The accept ladder: m is the longest prefix of drafts the probe confirms. *)
Accepts(d, a, m) ==
  /\ \A j \in 1 .. m : d[j] = a[j]
  /\ m < Len(d) => d[m + 1] # a[m + 1]

(* The accept and acceptsel kernels: slot m becomes slot 4.                *)
Commit(w, d, a, m) ==
  LET ok == SpecSound(w)
      u  == <<w.cur>> \o d
      s  == Tag(ok, w.rec4 \o SubSeq(u, 1, m + 1))
  IN  [w EXCEPT !.rec4 = s, !.conv4 = s, !.kv = Written(w, ok, w.rec4, u),
                !.pos = @ + m + 1, !.cur = a[m + 1]]

AtMost(n, k) == IF n < k THEN n ELSE k

(* The graph set of the next cycle, after a cycle of w that reached c (runs *)
(* are counted up to their trigger).                                       *)
Select(w, c, m, hit) ==
  LET hr   == IF hit THEN AtMost(w.hitrun + 1, DeepTrig) ELSE 0
      deep == hr >= DeepTrig
      mr   == IF deep \/ hit THEN 0 ELSE AtMost(w.missrun + 1, ProseTrig)
      zr   == IF m = 0 /\ ~hit THEN AtMost(w.zerorun + 1, T1Trig) ELSE 0
      v    == [c EXCEPT !.hitrun = hr, !.deep = deep]
  IN  IF knob = "eagle"
      THEN [v EXCEPT !.missrun = mr,
                     !.prose = ~deep /\ ~hit /\ (@ \/ mr >= ProseTrig)]
      ELSE IF w.deep THEN v ELSE [v EXCEPT !.zerorun = zr]

(* The alpha-death tracker, at the end of a cycle of set w.                *)
EntersT1(w, v) ==
  knob = "t1" /\ ~w.deep /\ v.zerorun >= T1Trig /\ v.pos + T1Guard < CtxK

SpecStep(w, d, a, m, hit) ==
  LET v == Select(w, Commit(w, d, a, m), m, hit)
  IN  IF EntersT1(w, v) THEN T1Enter(v) ELSE v

(* Fault: only a hit ends a T=1 episode.                                   *)
LeavesT1OnHit(v, hit) == hit

LeavesT1(v, hit) == hit \/ v.t1pos >= CtxK - T1Guard

(* The T=1 parity graph: tok is fed, its answer is the next tok.           *)
T1Feed(w, t) ==
  LET ok == TrunkSound(w, w.t1par)
      s  == Tag(ok, Append(w.rec, w.tok))
  IN  [w EXCEPT !.rec = s, !.conv[1 - w.t1par] = s,
                !.kv = Written(w, ok, w.rec, <<w.tok>>),
                !.pos = @ + 1, !.tok = t, !.t1pos = @ + 1, !.t1par = 1 - @]

T1Step(w, t, hit) ==
  LET v == T1Feed(w, t)
  IN  IF LeavesT1(v, hit) THEN T1Exit(v, hit) ELSE v

----------------------------------------------------------------------------
(* The history: does the engine hold t?                                    *)

LiveRec(w)  == IF w.t1 THEN w.rec ELSE w.rec4
LiveConv(w) == IF w.t1 THEN w.conv[w.t1par] ELSE w.conv4
NextTok(w)  == IF w.t1 THEN w.tok ELSE w.cur

Holds(w, t) ==
  /\ t # <<>>
  /\ LiveRec(w) = Front(t) /\ LiveConv(w) = Front(t)
  /\ Reads(w, Front(t))
  /\ NextTok(w) = t[Len(t)]

Held(w, t) == IF Holds(w, t) THEN t ELSE <<>>

(* tokens out follow, and were computed without writing past the slabs.    *)
Grown(fits, out) == IF fits /\ text # <<>> THEN text \o out ELSE <<>>

----------------------------------------------------------------------------
BaseText == Append(BaseIds, Greedy(BaseIds))

(* reset_snapshot: the GDN state of the snapshot and the small slots; the  *)
(* KV slabs are left as they are.                                          *)
ResetSnapshot(w) ==
  [w EXCEPT !.rec4 = BaseIds, !.conv4 = BaseIds, !.pos = Len(BaseIds),
            !.cur = BaseText[Len(BaseText)], !.tok = BaseText[Len(BaseText)]]

(* The daemon after its boot: prompt KV loaded, snapshot reset.            *)
Boot ==
  [rec4 |-> BaseIds, conv4 |-> BaseIds,         \* spec world, slot 4
   rec |-> Junk, conv |-> [h \in {0, 1} |-> Junk],  \* trunk world
   kv |-> [c \in Cells |-> IF c[2] < Len(BaseIds) THEN SubSeq(BaseIds, 1, c[2] + 1) ELSE Junk],
   pos |-> Len(BaseIds),                        \* pos_slot
   cur |-> BaseText[Len(BaseText)],             \* cur_slot
   tok |-> BaseText[Len(BaseText)],             \* tok_slot
   deep |-> FALSE, hitrun |-> 0, missrun |-> 0, prose |-> FALSE, zerorun |-> 0,
   t1 |-> FALSE, t1par |-> 0, t1pos |-> 0]      \* t1mode, t1cyc & 1, t1pos

NoSnap == [there |-> FALSE, rec |-> Junk, conv |-> Junk, pos |-> 0, cur |-> BaseText[Len(BaseText)],
           end |-> 0, rows |-> [c \in Cells |-> Junk], text |-> <<>>]

Booted ==
  /\ eng' = Boot /\ hpos' = Len(BaseIds) /\ mode' = "snapshot" /\ dirty' = FALSE
  /\ busy' = FALSE /\ left' = 0 /\ text' = BaseText /\ strained' = FALSE

Init ==
  /\ knob \in {"t1", "eagle"}
  /\ eng = Boot /\ hpos = Len(BaseIds) /\ mode = "snapshot" /\ dirty = FALSE
  /\ busy = FALSE /\ left = 0 /\ text = BaseText /\ strained = FALSE
  /\ rpcs = 0 /\ snap = NoSnap

(* The daemon exits (watchdog, rebuild budget, device fault, shutdown) and *)
(* its supervisor boots it again.                                          *)
Reboot == Booted /\ rpcs' = 0 /\ UNCHANGED <<knob, snap>>

Rpc == ~busy /\ rpcs < MaxRpcs /\ rpcs' = rpcs + 1

----------------------------------------------------------------------------
(* prefill.  Each handler parks first.                                     *)

(* Fault: the token slots are poisoned with -1 as the recurrent state is.  *)
ResetFreshPoisoned(w, t) ==
  [w EXCEPT !.rec4 = <<>>, !.conv4 = <<>>, !.rec = <<>>, !.conv = [h \in {0, 1} |-> <<>>],
            !.pos = 0, !.cur = NoTok, !.tok = NoTok]

(* reset_fresh, then stload_trunk and a zeroed second conv half.           *)
ResetFresh(w, t) ==
  [w EXCEPT !.rec4 = <<>>, !.conv4 = <<>>, !.rec = <<>>, !.conv = [h \in {0, 1} |-> <<>>],
            !.pos = 0, !.cur = t, !.tok = t]

(* The end of a prefill of n tokens: reseed the spec world, publish cur.   *)
Publish(w, n) == [StSeed(w, n % 2) EXCEPT !.cur = w.tok]

(* Fault: the host's copy of the position is not refreshed.                *)
PrefillDoneStale(w, m) ==
  /\ eng' = w /\ UNCHANGED hpos /\ mode' = m /\ dirty' = FALSE

PrefillDone(w, m) ==
  /\ eng' = w /\ hpos' = w.pos /\ mode' = m /\ dirty' = FALSE

(* FRESH: the conversation is p from its first token on.                   *)
Fresh ==
  /\ Rpc
  /\ \E p \in Prompts :
       LET w == Feed(ResetFresh(Park(eng), p[1]), p, Greedy(p))
       IN  /\ PrefillDone(Publish(w, Len(p)), "FRESH")
           /\ text' = Append(p, Greedy(p))
  /\ strained' = FALSE
  /\ UNCHANGED <<knob, busy, left, snap>>

(* Fault: FOLLOW_UP does not look at the mark.                             *)
ResumesAnything == TRUE

(* The dirty gate of FOLLOW_UP.                                            *)
Resumable == ~dirty

(* FOLLOW_UP of the resident conversation, whose id matched: the tokens    *)
(* new are fed after c, which is cur or what the client puts in its place. *)
FollowUp ==
  /\ Rpc /\ Resumable
  /\ \E new \in Deltas : \E c \in Token :
       LET w == Park(eng)
           u == <<c>> \o new
       IN  /\ hpos + Len(u) <= CtxK
           /\ \E t \in Answers(SpecSound(w), w.rec4 \o u) :
                /\ PrefillDone(Publish(Feed(StLoad(w), u, t), Len(u)), "FOLLOW_UP")
                /\ text' = IF text # <<>> /\ w.pos + Len(u) <= CtxK
                           THEN Append(Front(text) \o u, t) ELSE <<>>
  /\ strained' = (text' = <<>>)
  /\ UNCHANGED <<knob, busy, left, snap>>

(* A prefill stops after some tokens: cancelled at a checkpoint, which     *)
(* unbinds the conversation, or by an exception; dirty either way.         *)
Interrupted(w) ==
  /\ eng' = w /\ text' = <<>> /\ dirty' = TRUE /\ strained' = FALSE
  /\ \/ hpos' = 0 /\ mode' = "none"
     \/ UNCHANGED <<hpos, mode>>

InterruptedPrefill ==
  /\ Rpc
  /\ \/ \E p \in Prompts : \E k \in 0 .. Len(p) :
          Interrupted(Feed(ResetFresh(Park(eng), p[1]), SubSeq(p, 1, k), Greedy(SubSeq(p, 1, k))))
     \/ /\ Resumable
        /\ \E new \in Deltas : \E c \in Token : \E k \in 0 .. Len(new) + 1 :
             LET w == [Park(eng) EXCEPT !.cur = c]
                 u == SubSeq(<<c>> \o new, 1, k)
             IN  /\ hpos + 1 + Len(new) <= CtxK
                 /\ \E t \in Answers(SpecSound(w), w.rec4 \o u) :
                      Interrupted(Feed(IF k = 0 THEN w ELSE StLoad(w), u, t))
  /\ UNCHANGED <<knob, busy, left, snap>>

(* A FOLLOW_UP for another conversation, or to a dirty engine, is refused  *)
(* by an exception of the handler: the engine counts as dirty afterwards.  *)
RefusedFollowUp ==
  /\ Rpc
  /\ eng' = Park(eng) /\ dirty' = TRUE
  /\ UNCHANGED <<knob, hpos, mode, busy, left, text, strained, snap>>

(* prefill with a snapshot: back to the prompt of the boot.                *)
PrefillSnapshot ==
  /\ Rpc
  /\ PrefillDone(ResetSnapshot(Park(eng)), "snapshot")
  /\ text' = Held(eng', BaseText)
  /\ strained' = (text' = <<>>)
  /\ UNCHANGED <<knob, busy, left, snap>>

----------------------------------------------------------------------------
(* generate.                                                               *)

(* validate_rpc: at most as many cycles as the context has rows left, and  *)
(* one in any case.                                                        *)
CycleCap == IF hpos < CtxK THEN CtxK - hpos ELSE 1

BeginGenerate ==
  /\ Rpc
  /\ eng' = Begin(eng)
  /\ busy' = TRUE
  /\ left' \in 1 .. AtMost(MaxCycles, CycleCap)
  /\ UNCHANGED <<knob, hpos, mode, dirty, text, strained, snap>>

(* W4.3: the position a cycle reports must follow from the last one.       *)
EmitOk(pnew, out) == pnew = hpos + Len(out)

(* _rebuild_capacity_asserts raises.                                       *)
HistFull(w) == w.pos + DeepK + 3 > CtxK + HistSlack

(* The rest of the loop body after a cycle that reached v at pnew with     *)
(* tokens out: the emit check, then perhaps a rebuild of the graphs, which *)
(* parks and begins anew, parks and fails, or is refused by its asserts.   *)
AfterCycle(v, pnew, out, fits) ==
  IF ~EmitOk(pnew, out)
  THEN /\ eng' = v /\ busy' = FALSE /\ left' = 0 /\ dirty' = TRUE
       /\ text' = <<>> /\ UNCHANGED <<hpos, strained>>
  ELSE /\ hpos' = pnew
       /\ text' = Grown(fits, out) /\ strained' = (strained \/ ~fits)
       /\ \/ /\ eng' \in {v, Begin(Park(v)), Park(v)}
             /\ left' = left - 1 /\ UNCHANGED <<busy, dirty>>
          \/ /\ HistFull(v)
             /\ eng' = v /\ busy' = FALSE /\ left' = 0 /\ dirty' = TRUE

(* Bound: no cycle starts further out than this.                           *)
PosBound == CtxK + HistSlack

SpecCycle ==
  /\ busy /\ left > 0 /\ ~eng.t1 /\ eng.pos <= PosBound
  /\ \E d \in [1 .. DraftLen(eng) -> Token] : \E hit \in BOOLEAN : \E a \in Probes(eng, d) :
     \E m \in 0 .. Len(d) :
       LET v == SpecStep(eng, d, a, m, hit)
       IN  /\ Accepts(d, a, m)
           /\ AfterCycle(v, v.pos, SubSeq(a, 1, m + 1), eng.pos + Len(d) < CtxK)
  /\ UNCHANGED <<knob, mode, rpcs, snap>>

T1Cycle ==
  /\ busy /\ left > 0 /\ eng.t1 /\ eng.pos <= PosBound
  /\ \E hit \in BOOLEAN :
     \E t \in Answers(TrunkSound(eng, eng.t1par), Append(eng.rec, eng.tok)) :
       AfterCycle(T1Step(eng, t, hit), eng.t1pos + 1, <<t>>, eng.pos < CtxK)
  /\ UNCHANGED <<knob, mode, rpcs, snap>>

(* The loop ends (stop token, cancel, cycles used up): park and answer.    *)
EndGenerate ==
  /\ busy
  /\ eng' = Park(eng) /\ busy' = FALSE /\ left' = 0
  /\ UNCHANGED <<knob, hpos, mode, dirty, rpcs, text, strained, snap>>

----------------------------------------------------------------------------
(* Snapshots.                                                              *)

(* The bytes of rows from r0 to r1 - 1 in h_snapshot_save: Planes rows for *)
(* each of them, counted through the slab.                                 *)
Window(r0, r1) ==
  {c \in Cells : LET f == c[1] * CtxK + c[2] IN Planes * r0 <= f /\ f < Planes * r1}

SnapshotSave ==
  /\ Rpc
  /\ LET w  == Park(eng)
         r1 == AtMost(w.pos + SnapSlack, CtxK)
     IN  /\ r1 > Len(BaseIds)
         /\ eng' = w
         /\ snap' = [there |-> TRUE, rec |-> w.rec4, conv |-> w.conv4, pos |-> w.pos,
                     cur |-> w.cur, end |-> r1, text |-> text,
                     rows |-> [c \in Cells |-> IF c \in Window(Len(BaseIds), r1)
                                               THEN w.kv[c] ELSE Junk]]
  /\ UNCHANGED <<knob, hpos, mode, dirty, busy, left, text, strained>>

(* The state goes back; ST.pos_cache and a live T=1 episode stay.          *)
SnapshotLoad ==
  /\ Rpc /\ snap.there
  /\ eng' = [eng EXCEPT
               !.rec4 = snap.rec, !.conv4 = snap.conv, !.pos = snap.pos,
               !.cur = snap.cur, !.tok = snap.cur,
               !.kv = [c \in Cells |-> IF c \in Window(Len(BaseIds), snap.end)
                                        THEN snap.rows[c] ELSE eng.kv[c]]]
  /\ mode' = "snapshot_load"
  /\ text' = Held(eng', snap.text)
  /\ strained' = (text' = <<>>)
  /\ UNCHANGED <<knob, hpos, dirty, busy, left, snap>>

----------------------------------------------------------------------------
Prefill == Fresh \/ FollowUp \/ InterruptedPrefill \/ RefusedFollowUp \/ PrefillSnapshot
Generate == BeginGenerate \/ SpecCycle \/ T1Cycle \/ EndGenerate

Next == Prefill \/ Generate \/ SnapshotSave \/ SnapshotLoad \/ Reboot

Spec == Init /\ [][Next]_vars

----------------------------------------------------------------------------
(* Properties.                                                             *)

Tags == Seq(Token \cup {NoTok})
Engines ==
  [rec4 : Tags, conv4 : Tags, rec : Tags, conv : [{0, 1} -> Tags], kv : [Cells -> Tags],
   pos : Nat, cur : Token, tok : Token, deep : BOOLEAN, hitrun : Nat, missrun : Nat,
   prose : BOOLEAN, zerorun : Nat, t1 : BOOLEAN, t1par : {0, 1}, t1pos : Nat]

Snaps ==
  [there : BOOLEAN, rec : Tags, conv : Tags, pos : Nat, cur : Token, end : Nat,
   rows : [Cells -> Tags], text : Seq(Token)]

(* Every variable has its type: slots, parities and modes stay in range    *)
(* through every handler of serve.py and every step of mtp.py.             *)
TypeOK ==
  /\ knob \in {"t1", "eagle"}
  /\ eng \in Engines
  /\ hpos \in Nat
  /\ mode \in {"snapshot", "FRESH", "FOLLOW_UP", "snapshot_load", "none"}
  /\ dirty \in BOOLEAN /\ busy \in BOOLEAN /\ strained \in BOOLEAN
  /\ left \in Nat /\ rpcs \in Nat
  /\ text \in Seq(Token)
  /\ snap \in Snaps

(* The two worlds, the KV rows and the token slots agree with what the     *)
(* daemon has reported: across drafts, T=1 episodes, ping-pong parities,   *)
(* rebuilds, parkings, prefills and reloads, what is live has absorbed the *)
(* whole conversation but its last token (the law behind stload_trunk,     *)
(* stseed_spec, _t1_park and acceptsel).                                   *)
WorldCoherent == text # <<>> => Holds(eng, text)

(* A T=1 episode stays clear of the end of the context: "headroom-checked  *)
(* so the episode + exit always fit the ctx" (DecodeSession.step).         *)
T1Fits == busy /\ eng.t1 => eng.t1pos = eng.pos /\ eng.pos + T1Guard < CtxK

(* A FOLLOW_UP appends to an engine that holds one conversation whole, to  *)
(* its last row and slot, and reported all of it: never to what a prefill  *)
(* that was cancelled, one that raised, or a failed emit check left, unless*)
(* the conversation ran past the context or a reload brought back less, of *)
(* which the daemon knows nothing (the dirty gate of h_prefill).           *)
FollowUpExtendsWhole == [][FollowUp => Holds(eng, text) \/ strained]_vars

(* ST.pos_cache, from which validate_rpc computes its caps and h_generate  *)
(* its emit check, is the device's position whenever the conversation is   *)
(* sound, unless a snapshot_load was the last to set it.                   *)
PosMirror == text # <<>> /\ mode # "snapshot_load" => hpos = eng.pos

(* Speculation is lossless: the conversation only grows by the model's     *)
(* greedy continuation, as GreedyDecode promises.                          *)
Promise == INSTANCE GreedyDecode
             WITH saved <- snap.text, replying <- busy, BootText <- BaseText
Lossless == Promise!Spec

(* What the repository says, and what the runs that expect a violation     *)
(* refute.                                                                 *)

(* "post-reload regenerate exact": a generate after a snapshot_load that   *)
(* brought back a sound state emits its tokens.                            *)
ReloadRegenerates ==
  [][(busy /\ left' < left /\ mode' = "snapshot_load" /\ text # <<>>
        /\ eng.pos + DeepK < CtxK)
       => text' # <<>>]_vars

(* "the device-side hist indices must have headroom for the next window":  *)
(* no cycle writes tok_hist past its CTXK + 256 rows.                      *)
HistInBounds == eng.pos <= CtxK + HistSlack

(* "relaunch + snapshot_load(g4snap) + generate 5 == the A3 continuation": *)
(* a snapshot_load by a daemon that has just booted brings back the saved  *)
(* conversation, if it began with the prompt the daemon boots with.        *)
RelaunchRestores ==
  [][(SnapshotLoad /\ rpcs = 0 /\ snap.text # <<>>
        /\ SubSeq(snap.text, 1, Len(BaseIds)) = BaseIds)
       => text' # <<>>]_vars
=============================================================================
