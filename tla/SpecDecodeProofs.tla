-------------------------- MODULE SpecDecodeProofs --------------------------
(***************************************************************************)
(* Theorems about SpecDecode: its type invariant, the coherence of the two *)
(* worlds with the conversation, and that it implements GreedyDecode.      *)
(***************************************************************************)
EXTENDS SpecDecode, SequenceTheorems, TLAPS

----------------------------------------------------------------------------
(* Sequences.                                                              *)

(* A prefix of a sequence: its type, length and elements.                  *)
LEMMA PrefixFacts ==
  ASSUME NEW S, NEW s \in Seq(S), NEW k \in 0 .. Len(s)
  PROVE  /\ SubSeq(s, 1, k) \in Seq(S)
         /\ Len(SubSeq(s, 1, k)) = k
         /\ \A i \in 1 .. k : SubSeq(s, 1, k)[i] = s[i]
<1>1. \A i \in 1 .. k : s[i] \in S
  OBVIOUS
<1>2. QED
  BY <1>1, SubSeqProperties, Z3

(* The whole of a sequence is a prefix of it.                              *)
LEMMA PrefixWhole ==
  ASSUME NEW S, NEW s \in Seq(S)
  PROVE  SubSeq(s, 1, Len(s)) = s
<1>1. /\ SubSeq(s, 1, Len(s)) \in Seq(S) /\ Len(SubSeq(s, 1, Len(s))) = Len(s)
      /\ \A i \in 1 .. Len(s) : SubSeq(s, 1, Len(s))[i] = s[i]
  BY PrefixFacts
<1>2. QED
  BY <1>1, SeqEqual

(* A prefix of a prefix is a prefix.                                       *)
LEMMA PrefixOfPrefix ==
  ASSUME NEW S, NEW s \in Seq(S), NEW n \in 0 .. Len(s), NEW k \in 0 .. n
  PROVE  SubSeq(SubSeq(s, 1, n), 1, k) = SubSeq(s, 1, k)
<1> DEFINE p == SubSeq(s, 1, n)
<1>1. p \in Seq(S) /\ Len(p) = n /\ \A i \in 1 .. n : p[i] = s[i]
  BY PrefixFacts
<1>2. SubSeq(p, 1, k) \in Seq(S) /\ Len(SubSeq(p, 1, k)) = k
      /\ \A i \in 1 .. k : SubSeq(p, 1, k)[i] = p[i]
  BY <1>1, PrefixFacts
<1>3. SubSeq(s, 1, k) \in Seq(S) /\ Len(SubSeq(s, 1, k)) = k
      /\ \A i \in 1 .. k : SubSeq(s, 1, k)[i] = s[i]
  BY PrefixFacts
<1>4. QED
  BY <1>1, <1>2, <1>3, SeqEqual

(* A prefix of s \o u that ends in s.                                      *)
LEMMA PrefixInFirst ==
  ASSUME NEW S, NEW s \in Seq(S), NEW u \in Seq(S), NEW k \in 0 .. Len(s)
  PROVE  SubSeq(s \o u, 1, k) = SubSeq(s, 1, k)
<1>1. /\ s \o u \in Seq(S) /\ Len(s \o u) = Len(s) + Len(u)
      /\ \A i \in 1 .. Len(s) : (s \o u)[i] = s[i]
  BY ConcatProperties
<1>2. /\ SubSeq(s \o u, 1, k) \in Seq(S) /\ Len(SubSeq(s \o u, 1, k)) = k
      /\ \A i \in 1 .. k : SubSeq(s \o u, 1, k)[i] = (s \o u)[i]
  BY <1>1, PrefixFacts
<1>3. /\ SubSeq(s, 1, k) \in Seq(S) /\ Len(SubSeq(s, 1, k)) = k
      /\ \A i \in 1 .. k : SubSeq(s, 1, k)[i] = s[i]
  BY PrefixFacts
<1>4. QED
  BY <1>1, <1>2, <1>3, SeqEqual

(* A prefix of s \o u that ends in u.                                      *)
LEMMA PrefixInSecond ==
  ASSUME NEW S, NEW s \in Seq(S), NEW u \in Seq(S), NEW k \in 0 .. Len(u)
  PROVE  SubSeq(s \o u, 1, Len(s) + k) = s \o SubSeq(u, 1, k)
<1> DEFINE v == SubSeq(u, 1, k)
           l == SubSeq(s \o u, 1, Len(s) + k)
<1>1. /\ s \o u \in Seq(S) /\ Len(s \o u) = Len(s) + Len(u)
      /\ \A i \in 1 .. Len(s) + Len(u) :
            (s \o u)[i] = IF i <= Len(s) THEN s[i] ELSE u[i - Len(s)]
  BY ConcatProperties
<1>2. v \in Seq(S) /\ Len(v) = k /\ \A i \in 1 .. k : v[i] = u[i]
  BY PrefixFacts
<1>3. /\ s \o v \in Seq(S) /\ Len(s \o v) = Len(s) + k
      /\ \A i \in 1 .. Len(s) + k :
            (s \o v)[i] = IF i <= Len(s) THEN s[i] ELSE v[i - Len(s)]
  BY <1>2, ConcatProperties
<1>4. /\ l \in Seq(S) /\ Len(l) = Len(s) + k
      /\ \A i \in 1 .. Len(s) + k : l[i] = (s \o u)[i]
  BY <1>1, PrefixFacts
<1>5. \A i \in 1 .. Len(s) + k : l[i] = (s \o v)[i]
  BY <1>1, <1>2, <1>3, <1>4
<1>6. QED
  BY <1>3, <1>4, <1>5, SeqEqual

(* Append, its front and its last element.                                 *)
LEMMA FrontOfAppend ==
  ASSUME NEW S, NEW s \in Seq(S), NEW e \in S
  PROVE  /\ Append(s, e) \in Seq(S) /\ Len(Append(s, e)) = Len(s) + 1
         /\ Front(Append(s, e)) = s
         /\ Append(s, e)[Len(Append(s, e))] = e
         /\ Append(s, e) # <<>>
<1>1. /\ Append(s, e) \in Seq(S) /\ Len(Append(s, e)) = Len(s) + 1
      /\ \A i \in 1 .. Len(s) : Append(s, e)[i] = s[i]
      /\ Append(s, e)[Len(s) + 1] = e
  BY AppendProperties
<1>2. /\ SubSeq(Append(s, e), 1, Len(s)) \in Seq(S)
      /\ Len(SubSeq(Append(s, e), 1, Len(s))) = Len(s)
      /\ \A i \in 1 .. Len(s) : SubSeq(Append(s, e), 1, Len(s))[i] = Append(s, e)[i]
  BY <1>1, PrefixFacts
<1>3. SubSeq(Append(s, e), 1, Len(s)) = s
  BY <1>1, <1>2, SeqEqual
<1>4. QED
  BY <1>1, <1>3 DEF Front

(* A nonempty sequence is its front and its last element.                  *)
LEMMA AppendOfFront ==
  ASSUME NEW S, NEW t \in Seq(S), t # <<>>
  PROVE  /\ Front(t) \in Seq(S) /\ Len(Front(t)) = Len(t) - 1
         /\ t[Len(t)] \in S
         /\ t = Append(Front(t), t[Len(t)])
         /\ t = Front(t) \o <<t[Len(t)]>>
<1>1. Len(t) \in Nat \ {0}
  BY EmptySeq
<1>2. /\ Front(t) \in Seq(S) /\ Len(Front(t)) = Len(t) - 1
      /\ \A i \in 1 .. Len(t) - 1 : Front(t)[i] = t[i]
  BY <1>1, PrefixFacts DEF Front
<1>3. t[Len(t)] \in S
  BY <1>1
<1>4. t = Append(Front(t), t[Len(t)])
  <2>1. /\ Append(Front(t), t[Len(t)]) \in Seq(S)
        /\ Len(Append(Front(t), t[Len(t)])) = Len(t)
        /\ \A i \in 1 .. Len(t) - 1 : Append(Front(t), t[Len(t)])[i] = Front(t)[i]
        /\ Append(Front(t), t[Len(t)])[Len(t)] = t[Len(t)]
    BY <1>1, <1>2, <1>3, AppendProperties
  <2>2. QED
    BY <1>1, <1>2, <2>1, SeqEqual
<1>5. QED
  BY <1>2, <1>3, <1>4, AppendIsConcat

(* A prefix and the next element.                                          *)
LEMMA PrefixPlusOne ==
  ASSUME NEW S, NEW s \in Seq(S), NEW k \in Nat, k < Len(s)
  PROVE  SubSeq(s, 1, k + 1) = Append(SubSeq(s, 1, k), s[k + 1]) /\ s[k + 1] \in S
<1> DEFINE p == SubSeq(s, 1, k)
           q == SubSeq(s, 1, k + 1)
<1>1. k \in 0 .. Len(s) /\ k + 1 \in 0 .. Len(s) /\ s[k + 1] \in S
  OBVIOUS
<1>2. p \in Seq(S) /\ Len(p) = k /\ \A i \in 1 .. k : p[i] = s[i]
  BY <1>1, PrefixFacts
<1>3. q \in Seq(S) /\ Len(q) = k + 1 /\ \A i \in 1 .. k + 1 : q[i] = s[i]
  BY <1>1, PrefixFacts
<1> HIDE DEF p, q
<1>4. /\ Append(p, s[k + 1]) \in Seq(S) /\ Len(Append(p, s[k + 1])) = k + 1
      /\ \A i \in 1 .. k : Append(p, s[k + 1])[i] = p[i]
      /\ Append(p, s[k + 1])[k + 1] = s[k + 1]
  BY <1>1, <1>2, AppendProperties
<1>5. \A i \in 1 .. k + 1 : q[i] = Append(p, s[k + 1])[i]
  BY <1>2, <1>3, <1>4
<1>6. q = Append(p, s[k + 1])
  BY <1>3, <1>4, <1>5, SeqEqual
<1>7. QED
  BY <1>1, <1>6 DEF p, q

(* Sequences that agree up to k have the same prefix.                      *)
LEMMA PrefixAgree ==
  ASSUME NEW S, NEW s \in Seq(S), NEW r \in Seq(S), NEW k \in 0 .. Len(s), k <= Len(r),
         \A i \in 1 .. k : s[i] = r[i]
  PROVE  SubSeq(s, 1, k) = SubSeq(r, 1, k)
<1>1. k \in 0 .. Len(r)
  OBVIOUS
<1>2. /\ SubSeq(s, 1, k) \in Seq(S) /\ Len(SubSeq(s, 1, k)) = k
      /\ \A i \in 1 .. k : SubSeq(s, 1, k)[i] = s[i]
  BY PrefixFacts
<1>3. /\ SubSeq(r, 1, k) \in Seq(S) /\ Len(SubSeq(r, 1, k)) = k
      /\ \A i \in 1 .. k : SubSeq(r, 1, k)[i] = r[i]
  BY <1>1, PrefixFacts
<1>4. QED
  BY <1>2, <1>3, SeqEqual

(* Appending to the second of two concatenated sequences.                  *)
LEMMA ConcatAppend ==
  ASSUME NEW S, NEW s \in Seq(S), NEW r \in Seq(S), NEW e \in S
  PROVE  s \o Append(r, e) = Append(s \o r, e)
<1>1. s \o r \in Seq(S) /\ <<e>> \in Seq(S)
  OBVIOUS
<1>2. Append(r, e) = r \o <<e>> /\ Append(s \o r, e) = (s \o r) \o <<e>>
  BY <1>1, AppendIsConcat
<1>3. (s \o r) \o <<e>> = s \o (r \o <<e>>)
  BY <1>1, ConcatAssociative
<1>4. QED
  BY <1>2, <1>3

(* One element between two sequences.                                      *)
LEMMA ConcatOne ==
  ASSUME NEW S, NEW s \in Seq(S), NEW e \in S, NEW r \in Seq(S)
  PROVE  (s \o <<e>>) \o r = s \o (<<e>> \o r)
<1>1. <<e>> \in Seq(S)
  OBVIOUS
<1>2. QED
  BY <1>1, ConcatAssociative

----------------------------------------------------------------------------
(* Types.                                                                  *)

(* The model's answer to a text it may be asked about is a token.          *)
LEMMA GreedyType ==
  ASSUME NEW s \in Seq(Token), Len(s) <= MaxText
  PROVE  Greedy(s) \in Token
<1>1. s \in [1 .. Len(s) -> Token] /\ Len(s) \in Nat
  BY LenProperties
<1>2. MaxText \in Nat
  BY SizeAssumption DEF MaxText
<1>3. Len(s) \in 0 .. MaxText
  BY <1>1, <1>2
<1>4. QED
  BY <1>1, <1>3, GreedyAssumption

(* The sizes of the texts the model is asked about.                        *)
LEMMA MaxTextBound ==
  /\ MaxText \in Nat /\ CtxK \in Nat
  /\ 2 * CtxK <= MaxText
BY SizeAssumption DEF MaxText

(* What a buffer may hold: junk, texts, tagged texts.                      *)
LEMMA TagTypes ==
  /\ Junk \in Tags
  /\ \A s \in Seq(Token) : s \in Tags
  /\ \A s \in Tags, u \in Seq(Token) : s \o u \in Tags
  /\ \A s \in Tags : \A ok : Tag(ok, s) \in Tags
<1>1. Junk \in Tags
  BY DEF Junk, Tags
<1>2. \A s \in Seq(Token) : s \in Tags
  BY SeqMonotonic, Token \subseteq Token \cup {NoTok} DEF Tags
<1>3. \A s \in Tags, u \in Seq(Token) : s \o u \in Tags
  BY <1>2, ConcatProperties DEF Tags
<1>4. \A s \in Tags : \A ok : Tag(ok, s) \in Tags
  BY <1>1 DEF Tag
<1>5. QED
  BY <1>1, <1>2, <1>3, <1>4

(* Writing KV rows keeps the type of the slab.                             *)
LEMMA WrittenType ==
  ASSUME NEW w \in Engines, NEW ok, NEW s \in Tags, NEW u \in Seq(Token)
  PROVE  Written(w, ok, s, u) \in [Cells -> Tags]
<1>1. w.kv \in [Cells -> Tags] /\ w.pos \in Nat
  BY DEF Engines
<1> SUFFICES ASSUME NEW c \in Cells
             PROVE  Written(w, ok, s, u)[c] \in Tags
  BY DEF Written
<1>2. c[1] \in Int /\ c[2] \in Int
  BY SizeAssumption DEF Cells
<1>3. CASE c[2] - w.pos \in 0 .. Len(u) - 1
  <2>1. c[2] - w.pos + 1 \in 0 .. Len(u)
    BY <1>3
  <2>2. SubSeq(u, 1, c[2] - w.pos + 1) \in Seq(Token)
    BY <2>1, PrefixFacts
  <2>3. Tag(ok, s \o SubSeq(u, 1, c[2] - w.pos + 1)) \in Tags
    BY <2>2, TagTypes
  <2>4. QED
    BY <1>3, <2>3 DEF Written
<1>4. CASE c[2] - w.pos \notin 0 .. Len(u) - 1
  BY <1>1, <1>4, TagTypes DEF Written
<1>5. QED
  BY <1>3, <1>4

(* stload_trunk keeps the type of the engine.                              *)
LEMMA StLoadType ==
  ASSUME NEW w \in Engines
  PROVE  StLoad(w) \in Engines
BY DEF StLoad, Engines

(* stseed_spec keeps the type of the engine.                               *)
LEMMA StSeedType ==
  ASSUME NEW w \in Engines, NEW par \in {0, 1}
  PROVE  StSeed(w, par) \in Engines
BY DEF StSeed, Engines

(* Entering a T=1 episode keeps the type of the engine.                    *)
LEMMA T1EnterType ==
  ASSUME NEW w \in Engines
  PROVE  T1Enter(w) \in Engines
BY StLoadType DEF T1Enter, StLoad, Engines

(* Leaving one keeps it, too.                                              *)
LEMMA T1ExitType ==
  ASSUME NEW w \in Engines, NEW hit \in BOOLEAN
  PROVE  T1Exit(w, hit) \in Engines
<1>1. w.t1par \in {0, 1} /\ w.tok \in Token
  BY DEF Engines
<1> DEFINE v == StSeed(w, w.t1par)
<1>2. v \in Engines
  BY <1>1, StSeedType
<1>3. (hit \/ v.deep) \in BOOLEAN
  BY <1>2 DEF Engines
<1>4. (IF hit THEN DeepTrig ELSE v.hitrun) \in Nat
  BY <1>2, SizeAssumption DEF Engines
<1> HIDE DEF v
<1>5. [v EXCEPT !.cur = w.tok, !.t1 = FALSE, !.t1par = 0, !.zerorun = 0,
               !.hitrun = IF hit THEN DeepTrig ELSE @, !.deep = hit \/ @] \in Engines
  BY <1>1, <1>2, <1>3, <1>4 DEF Engines
<1>6. QED
  BY <1>5 DEF T1Exit, v

(* Parking keeps the type, and ends the episode.                           *)
LEMMA ParkType ==
  ASSUME NEW w \in Engines
  PROVE  Park(w) \in Engines /\ Park(w).t1 = FALSE
<1>1. CASE w.t1
  <2>1. T1Exit(w, FALSE) \in Engines
    BY T1ExitType
  <2>2. T1Exit(w, FALSE).t1 = FALSE
    BY DEF T1Exit, StSeed, Engines
  <2>3. QED
    BY <1>1, <2>1, <2>2 DEF Park
<1>2. CASE ~w.t1
  <2>1. w.t1 = FALSE
    BY <1>2 DEF Engines
  <2>2. QED
    BY <1>2, <2>1 DEF Park
<1>3. QED
  BY <1>1, <1>2

(* Beginning a generate keeps the type, and leaves no episode.             *)
LEMMA BeginType ==
  ASSUME NEW w \in Engines
  PROVE  Begin(w) \in Engines /\ Begin(w).t1 = FALSE
<1> DEFINE x == [w EXCEPT !.deep = FALSE, !.hitrun = 0]
<1>1. x \in Engines
  BY DEF Engines
<1>2. Park(x) \in Engines /\ Park(x).t1 = FALSE
  BY <1>1, ParkType
<1> DEFINE p == Park(x)
<1> HIDE DEF x, p
<1>3. [p EXCEPT !.t1par = 0, !.zerorun = 0, !.missrun = 0, !.prose = FALSE] \in Engines
  BY <1>2 DEF Engines, p
<1>4. [p EXCEPT !.t1par = 0, !.zerorun = 0, !.missrun = 0, !.prose = FALSE].t1 = FALSE
  BY <1>2 DEF Engines, p
<1>5. QED
  BY <1>3, <1>4 DEF Begin, x, p

(* Feeding typed tokens keeps the type of the engine.                      *)
LEMMA FeedType ==
  ASSUME NEW w \in Engines, NEW u \in Seq(Token), NEW next \in Token
  PROVE  /\ Feed(w, u, next) \in Engines
         /\ Feed(w, u, next).t1 = w.t1
         /\ Feed(w, u, next).pos = w.pos + Len(u)
<1> DEFINE ok == TrunkSound(w, 0)
<1>1. w.rec \in Tags /\ w.pos \in Nat
  BY DEF Engines
<1>2. CASE u = <<>>
  BY <1>1, <1>2 DEF Feed
<1>3. CASE u # <<>>
  <2>1. Len(u) \in Nat \ {0}
    BY <1>3, EmptySeq
  <2>2. Front(u) \in Seq(Token)
    BY <1>3, AppendOfFront
  <2>3. Tag(ok, w.rec \o u) \in Tags /\ Tag(ok, w.rec \o Front(u)) \in Tags
    BY <1>1, <2>2, TagTypes
  <2>4. Written(w, ok, w.rec, u) \in [Cells -> Tags]
    BY <1>1, WrittenType
  <2> DEFINE k == Written(w, ok, w.rec, u)
             r == Tag(ok, w.rec \o u)
             g == [h \in {0, 1} |-> Tag(ok, w.rec \o IF h = Len(u) % 2 THEN u ELSE Front(u))]
  <2>5. g \in [{0, 1} -> Tags]
    BY <2>3
  <2>6. Feed(w, u, next) = [w EXCEPT !.rec = r, !.conv = g, !.kv = k, !.pos = @ + Len(u),
                                     !.tok = next]
    BY <1>3 DEF Feed
  <2> HIDE DEF k, r, g
  <2>7. r \in Tags /\ k \in [Cells -> Tags]
    BY <2>3, <2>4 DEF k, r
  <2>8. w.pos + Len(u) \in Nat
    BY <1>1, <2>1
  <2>9. Feed(w, u, next) \in Engines
    BY <2>5, <2>6, <2>7, <2>8, ZenonT(60) DEF Engines
  <2>10. Feed(w, u, next).t1 = w.t1 /\ Feed(w, u, next).pos = w.pos + Len(u)
    BY <2>6 DEF Engines
  <2>11. QED
    BY <2>9, <2>10
<1>4. QED
  BY <1>2, <1>3

(* The drafts and the probe's answers of a cycle.                          *)
LEMMA CommitType ==
  ASSUME NEW w \in Engines, NEW n \in Nat, NEW d \in [1 .. n -> Token],
         NEW a \in [1 .. n + 1 -> Token], NEW m \in 0 .. n
  PROVE  /\ Len(d) = n /\ d \in Seq(Token) /\ a \in Seq(Token)
         /\ Commit(w, d, a, m) \in Engines
         /\ Commit(w, d, a, m).t1 = w.t1
         /\ Commit(w, d, a, m).pos = w.pos + m + 1
<1> DEFINE ok == SpecSound(w)
           u  == <<w.cur>> \o d
           s  == Tag(ok, w.rec4 \o SubSeq(u, 1, m + 1))
           k  == Written(w, ok, w.rec4, u)
<1>1. w.rec4 \in Tags /\ w.pos \in Nat /\ w.cur \in Token
  BY DEF Engines
<1>2. d \in Seq(Token) /\ Len(d) = n /\ a \in Seq(Token) /\ Len(a) = n + 1
  OBVIOUS
<1>3. u \in Seq(Token) /\ Len(u) = n + 1
  BY <1>1, <1>2
<1>4. SubSeq(u, 1, m + 1) \in Seq(Token)
  BY <1>3, PrefixFacts
<1>5. s \in Tags /\ k \in [Cells -> Tags]
  BY <1>1, <1>3, <1>4, TagTypes, WrittenType
<1>6. a[m + 1] \in Token
  BY <1>2
<1>7. Commit(w, d, a, m) = [w EXCEPT !.rec4 = s, !.conv4 = s, !.kv = k,
                                      !.pos = @ + m + 1, !.cur = a[m + 1]]
  BY DEF Commit
<1> HIDE DEF s, k
<1>8. w.pos + m + 1 \in Nat
  BY <1>1
<1>9. Commit(w, d, a, m) \in Engines
  BY <1>5, <1>6, <1>7, <1>8, ZenonT(60) DEF Engines
<1>10. Commit(w, d, a, m).t1 = w.t1 /\ Commit(w, d, a, m).pos = w.pos + m + 1
  BY <1>7 DEF Engines
<1>11. QED
  BY <1>2, <1>9, <1>10

(* Choosing the next graph set changes nothing but the counters.           *)
LEMMA SelectType ==
  ASSUME NEW w \in Engines, NEW c \in Engines, NEW m \in Nat, NEW hit \in BOOLEAN
  PROVE  /\ Select(w, c, m, hit) \in Engines
         /\ Select(w, c, m, hit).pos = c.pos
         /\ Select(w, c, m, hit).rec4 = c.rec4 /\ Select(w, c, m, hit).conv4 = c.conv4
         /\ Select(w, c, m, hit).kv = c.kv /\ Select(w, c, m, hit).cur = c.cur
         /\ Select(w, c, m, hit).t1 = c.t1
<1> DEFINE hr   == IF hit THEN AtMost(w.hitrun + 1, DeepTrig) ELSE 0
           deep == hr >= DeepTrig
           mr   == IF deep \/ hit THEN 0 ELSE AtMost(w.missrun + 1, ProseTrig)
           zr   == IF m = 0 /\ ~hit THEN AtMost(w.zerorun + 1, T1Trig) ELSE 0
           pr   == ~deep /\ ~hit /\ (c.prose \/ mr >= ProseTrig)
           v    == [c EXCEPT !.hitrun = hr, !.deep = deep]
           ve   == [v EXCEPT !.missrun = mr, !.prose = pr]
           vt   == [v EXCEPT !.zerorun = zr]
<1>1. w.hitrun \in Nat /\ w.missrun \in Nat /\ w.zerorun \in Nat /\ c.prose \in BOOLEAN
  BY DEF Engines
<1>2. hr \in Nat /\ mr \in Nat /\ zr \in Nat
  BY <1>1, SizeAssumption DEF AtMost
<1>3. deep \in BOOLEAN /\ pr \in BOOLEAN
  BY <1>1
<1>4. Select(w, c, m, hit) \in {ve, v, vt}
  <2>1. v.prose = c.prose
    BY DEF Engines
  <2>2. ve = [v EXCEPT !.missrun = mr, !.prose = ~deep /\ ~hit /\ (@ \/ mr >= ProseTrig)]
    BY <2>1
  <2>3. QED
    BY <2>2, Zenon DEF Select
<1> HIDE DEF hr, deep, mr, zr, pr
<1>5. v \in Engines /\ ve \in Engines /\ vt \in Engines
  BY <1>2, <1>3 DEF Engines
<1>6. \A x \in {ve, v, vt} :
        /\ x.pos = c.pos
        /\ x.rec4 = c.rec4 /\ x.conv4 = c.conv4 /\ x.kv = c.kv /\ x.cur = c.cur
        /\ x.t1 = c.t1
  BY ZenonT(60) DEF Engines
<1>7. QED
  BY <1>4, <1>5, <1>6

(* A cycle of the spec world moves on by the accepted drafts and one more; *)
(* an episode it enters is clear of the end of the context.                *)
LEMMA SpecStepType ==
  ASSUME NEW w \in Engines, ~w.t1, NEW n \in Nat, NEW d \in [1 .. n -> Token],
         NEW a \in [1 .. n + 1 -> Token], NEW m \in 0 .. n, NEW hit \in BOOLEAN
  PROVE  /\ SpecStep(w, d, a, m, hit) \in Engines
         /\ SpecStep(w, d, a, m, hit).pos = w.pos + m + 1
         /\ LET v == SpecStep(w, d, a, m, hit)
            IN  v.t1 => v.t1pos = v.pos /\ v.pos + T1Guard < CtxK
<1> DEFINE c == Commit(w, d, a, m)
           v == Select(w, c, m, hit)
<1>1. c \in Engines /\ c.t1 = w.t1 /\ c.pos = w.pos + m + 1
  BY CommitType
<1> HIDE DEF c
<1>2. v \in Engines /\ v.pos = c.pos /\ v.t1 = c.t1
  <2>1. m \in Nat
    OBVIOUS
  <2>2. QED
    BY <1>1, <2>1, SelectType, ZenonT(60)
<1>3. SpecStep(w, d, a, m, hit) = IF EntersT1(w, v) THEN T1Enter(v) ELSE v
  BY DEF SpecStep, c
<1> HIDE DEF v
<1>4. CASE EntersT1(w, v)
  <2>1. T1Enter(v) \in Engines /\ T1Enter(v).pos = v.pos /\ T1Enter(v).t1pos = v.pos
    BY <1>2, T1EnterType DEF T1Enter, StLoad, Engines
  <2>2. v.pos + T1Guard < CtxK
    BY <1>4 DEF EntersT1
  <2>3. QED
    BY <1>1, <1>2, <1>3, <1>4, <2>1, <2>2
<1>5. CASE ~EntersT1(w, v)
  BY <1>1, <1>2, <1>3, <1>5
<1>6. QED
  BY <1>4, <1>5

(* A T=1 feed moves on by one token.                                       *)
LEMMA T1FeedType ==
  ASSUME NEW w \in Engines, NEW t \in Token
  PROVE  /\ T1Feed(w, t) \in Engines
         /\ T1Feed(w, t).pos = w.pos + 1 /\ T1Feed(w, t).t1pos = w.t1pos + 1
         /\ T1Feed(w, t).t1 = w.t1
<1> DEFINE ok == TrunkSound(w, w.t1par)
           s  == Tag(ok, Append(w.rec, w.tok))
           k  == Written(w, ok, w.rec, <<w.tok>>)
           q  == 1 - w.t1par
           g  == [w.conv EXCEPT ![q] = s]
<1>1. /\ w.rec \in Tags /\ w.pos \in Nat /\ w.t1pos \in Nat /\ w.tok \in Token
      /\ w.t1par \in {0, 1}
  BY DEF Engines
<1>2. Append(w.rec, w.tok) \in Tags
  BY <1>1 DEF Tags
<1>3. s \in Tags /\ k \in [Cells -> Tags] /\ q \in {0, 1} /\ g \in [{0, 1} -> Tags]
  <2>1. s \in Tags
    BY <1>2, TagTypes
  <2>2. <<w.tok>> \in Seq(Token)
    BY <1>1
  <2>3. k \in [Cells -> Tags]
    BY <1>1, <2>2, WrittenType
  <2>4. q \in {0, 1}
    BY <1>1
  <2>5. w.conv \in [{0, 1} -> Tags]
    BY DEF Engines
  <2> HIDE DEF s, q
  <2>6. g \in [{0, 1} -> Tags]
    BY <2>1, <2>4, <2>5
  <2>7. QED
    BY <2>1, <2>3, <2>4, <2>6
<1>4. T1Feed(w, t) = [w EXCEPT !.rec = s, !.conv = g, !.kv = k,
                               !.pos = @ + 1, !.tok = t, !.t1pos = @ + 1, !.t1par = q]
  <2>1. [w EXCEPT !.rec = s].conv = w.conv
    BY DEF Engines
  <2>2. QED
    BY <2>1, Zenon DEF T1Feed
<1> HIDE DEF s, k, q, g
<1>5. w.pos + 1 \in Nat /\ w.t1pos + 1 \in Nat
  BY <1>1
<1>6. T1Feed(w, t) \in Engines
  BY <1>3, <1>4, <1>5, ZenonT(60) DEF Engines
<1>7. /\ T1Feed(w, t).pos = w.pos + 1 /\ T1Feed(w, t).t1pos = w.t1pos + 1
      /\ T1Feed(w, t).t1 = w.t1
  BY <1>4 DEF Engines
<1>8. QED
  BY <1>6, <1>7

(* So does a T=1 cycle; an episode that goes on is clear of the end.       *)
LEMMA T1StepType ==
  ASSUME NEW w \in Engines, w.t1, NEW t \in Token, NEW hit \in BOOLEAN
  PROVE  /\ T1Step(w, t, hit) \in Engines
         /\ T1Step(w, t, hit).pos = w.pos + 1
         /\ LET v == T1Step(w, t, hit)
            IN  v.t1 => v.t1pos = w.t1pos + 1 /\ v.t1pos + T1Guard < CtxK
<1> DEFINE v == T1Feed(w, t)
<1>1. v \in Engines /\ v.pos = w.pos + 1 /\ v.t1pos = w.t1pos + 1 /\ v.t1 = w.t1
  BY T1FeedType
<1>2. T1Step(w, t, hit) = IF LeavesT1(v, hit) THEN T1Exit(v, hit) ELSE v
  BY DEF T1Step
<1> HIDE DEF v
<1>3. CASE LeavesT1(v, hit)
  <2>1. T1Exit(v, hit) \in Engines
    BY <1>1, T1ExitType
  <2>2. T1Exit(v, hit).pos = v.pos /\ T1Exit(v, hit).t1 = FALSE
    BY <1>1 DEF T1Exit, StSeed, Engines
  <2>3. QED
    BY <1>1, <1>2, <1>3, <2>1, <2>2
<1>4. CASE ~LeavesT1(v, hit)
  <2>1. v.t1pos \in Nat /\ ~(v.t1pos >= CtxK - T1Guard)
    BY <1>1, <1>4 DEF LeavesT1, Engines
  <2>2. v.t1pos + T1Guard < CtxK
    BY <2>1, SizeAssumption
  <2>3. QED
    BY <1>1, <1>2, <1>4, <2>2
<1>5. QED
  BY <1>3, <1>4

(* The boot conversation.                                                  *)
LEMMA BaseFacts ==
  /\ BaseIds \in Seq(Token) /\ BaseIds # <<>> /\ Len(BaseIds) \in 1 .. CtxK
  /\ Greedy(BaseIds) \in Token
  /\ BaseText \in Seq(Token) /\ BaseText # <<>> /\ Len(BaseText) = Len(BaseIds) + 1
  /\ Front(BaseText) = BaseIds
  /\ BaseText[Len(BaseText)] = Greedy(BaseIds)
<1>1. BaseIds \in Seq(Token) /\ Len(BaseIds) \in 1 .. CtxK
  BY InputAssumption
<1>2. BaseIds # <<>>
  BY <1>1
<1>3. Len(BaseIds) <= MaxText
  BY <1>1, MaxTextBound
<1>4. Greedy(BaseIds) \in Token
  BY <1>1, <1>3, GreedyType
<1>5. /\ Append(BaseIds, Greedy(BaseIds)) \in Seq(Token)
      /\ Len(Append(BaseIds, Greedy(BaseIds))) = Len(BaseIds) + 1
      /\ Front(Append(BaseIds, Greedy(BaseIds))) = BaseIds
      /\ Append(BaseIds, Greedy(BaseIds))[Len(Append(BaseIds, Greedy(BaseIds)))]
           = Greedy(BaseIds)
      /\ Append(BaseIds, Greedy(BaseIds)) # <<>>
  BY <1>1, <1>4, FrontOfAppend
<1>6. QED
  BY <1>1, <1>2, <1>4, <1>5 DEF BaseText

(* The prompts of FRESH prefills.                                          *)
LEMMA PromptFacts ==
  ASSUME NEW p \in Prompts, NEW k \in 0 .. Len(p)
  PROVE  /\ p \in Seq(Token) /\ Len(p) \in 1 .. CtxK /\ p # <<>> /\ p[1] \in Token
         /\ SubSeq(p, 1, k) \in Seq(Token) /\ Len(SubSeq(p, 1, k)) = k
         /\ Greedy(p) \in Token /\ Greedy(SubSeq(p, 1, k)) \in Token
<1>1. p \in Seq(Token) /\ Len(p) \in 1 .. CtxK
  BY InputAssumption
<1>2. p # <<>> /\ p[1] \in Token
  BY <1>1
<1>3. SubSeq(p, 1, k) \in Seq(Token) /\ Len(SubSeq(p, 1, k)) = k
  BY <1>1, PrefixFacts
<1>4. k <= MaxText /\ Len(p) <= MaxText
  BY <1>1, MaxTextBound
<1>5. Greedy(p) \in Token
  BY <1>1, <1>4, GreedyType
<1>6. Greedy(SubSeq(p, 1, k)) \in Token
  BY <1>3, <1>4, GreedyType
<1>7. QED
  BY <1>1, <1>2, <1>3, <1>5, <1>6

(* The states the daemon sets up from constants have their type.           *)
LEMMA BootType == Boot \in Engines /\ Boot.t1 = FALSE /\ NoSnap \in Snaps
<1>1. BaseIds \in Tags /\ Junk \in Tags /\ BaseText[Len(BaseText)] \in Token
  BY BaseFacts, TagTypes
<1> DEFINE k == [c \in Cells |-> IF c[2] < Len(BaseIds) THEN SubSeq(BaseIds, 1, c[2] + 1)
                                 ELSE Junk]
<1>2. k \in [Cells -> Tags]
  <2> SUFFICES ASSUME NEW c \in Cells, c[2] < Len(BaseIds)
               PROVE  SubSeq(BaseIds, 1, c[2] + 1) \in Tags
    BY <1>1
  <2>1. c[2] + 1 \in 0 .. Len(BaseIds)
    BY BaseFacts, SizeAssumption DEF Cells
  <2>2. SubSeq(BaseIds, 1, c[2] + 1) \in Seq(Token)
    BY <2>1, BaseFacts, PrefixFacts
  <2>3. QED
    BY <2>2, TagTypes
<1>3. [c \in Cells |-> Junk] \in [Cells -> Tags] /\ [h \in {0, 1} |-> Junk] \in [{0, 1} -> Tags]
  BY <1>1
<1>4. Len(BaseIds) \in Nat
  BY BaseFacts
<1> HIDE DEF k
<1>5. Boot \in Engines /\ Boot.t1 = FALSE
  BY <1>1, <1>2, <1>3, <1>4 DEF Boot, Engines, k
<1>6. NoSnap \in Snaps
  BY <1>1, <1>3 DEF NoSnap, Snaps
<1>7. QED
  BY <1>5, <1>6

(* Resets keep the type of the engine.                                     *)
LEMMA ResetType ==
  ASSUME NEW w \in Engines, NEW t \in Token, NEW n \in Nat
  PROVE  /\ ResetSnapshot(w) \in Engines /\ ResetFresh(w, t) \in Engines
         /\ Publish(w, n) \in Engines
         /\ ResetFresh(w, t).t1 = w.t1 /\ ResetSnapshot(w).t1 = w.t1 /\ Publish(w, n).t1 = w.t1
         /\ Publish(w, n).pos = w.pos /\ ResetFresh(w, t).pos = 0
<1>1. BaseIds \in Tags /\ BaseText[Len(BaseText)] \in Token /\ Len(BaseIds) \in Nat
  BY BaseFacts, TagTypes
<1>2. <<>> \in Tags
  BY DEF Tags
<1>3. [h \in {0, 1} |-> <<>>] \in [{0, 1} -> Tags]
  BY <1>2
<1>4. ResetSnapshot(w) \in Engines /\ ResetSnapshot(w).t1 = w.t1
  BY <1>1 DEF ResetSnapshot, Engines
<1>5. ResetFresh(w, t) \in Engines /\ ResetFresh(w, t).t1 = w.t1 /\ ResetFresh(w, t).pos = 0
  BY <1>2, <1>3 DEF ResetFresh, Engines
<1>6. n % 2 \in {0, 1}
  OBVIOUS
<1> DEFINE v == StSeed(w, n % 2)
<1>7. v \in Engines
  BY <1>6, StSeedType
<1>8. v.t1 = w.t1 /\ v.pos = w.pos
  BY DEF StSeed, Engines
<1> HIDE DEF v
<1>9. [v EXCEPT !.cur = w.tok] \in Engines
  BY <1>7 DEF Engines
<1>10. [v EXCEPT !.cur = w.tok].t1 = w.t1 /\ [v EXCEPT !.cur = w.tok].pos = w.pos
  BY <1>7, <1>8 DEF Engines
<1>11. QED
  BY <1>4, <1>5, <1>9, <1>10 DEF Publish, v

(* The conversation the history keeps has its type.                        *)
LEMMA HeldType ==
  ASSUME NEW w, NEW t \in Seq(Token)
  PROVE  Held(w, t) \in Seq(Token)
BY DEF Held

(* What the argmax may be: a token, if the text is not too long.           *)
LEMMA AnswersType ==
  ASSUME NEW ok \in BOOLEAN, NEW s, ok => s \in Seq(Token) /\ Len(s) <= MaxText
  PROVE  Answers(ok, s) \subseteq Token
BY GreedyType DEF Answers

(* A sound world has absorbed a text that fits the context.                *)
LEMMA ReadsFacts ==
  ASSUME NEW w \in Engines, NEW s, Reads(w, s)
  PROVE  s \in Seq(Token) /\ Len(s) = w.pos /\ w.pos <= CtxK
BY DEF Reads

(* A FOLLOW_UP feeds tokens, and the model's answer is a token.            *)
LEMMA FollowUpFacts ==
  ASSUME NEW w \in Engines, NEW new \in Deltas, NEW c \in Token, NEW k \in 0 .. Len(new) + 1,
         NEW h \in Nat, h + 1 + Len(new) <= CtxK
  PROVE  /\ <<c>> \o new \in Seq(Token) /\ Len(<<c>> \o new) = Len(new) + 1 /\ Len(new) \in Nat \ {0}
         /\ SubSeq(<<c>> \o new, 1, k) \in Seq(Token) /\ Len(SubSeq(<<c>> \o new, 1, k)) = k
         /\ SubSeq(<<c>> \o new, 1, Len(new) + 1) = <<c>> \o new
         /\ Answers(SpecSound(w), w.rec4 \o SubSeq(<<c>> \o new, 1, k)) \subseteq Token
<1> DEFINE u == <<c>> \o new
           v == SubSeq(u, 1, k)
<1>1. new \in Seq(Token) /\ Len(new) \in Nat \ {0}
  <2>1. new \in Seq(Token) /\ Len(new) > 0
    BY InputAssumption
  <2>2. QED
    BY <2>1
<1>2. u \in Seq(Token) /\ Len(u) = Len(new) + 1
  BY <1>1
<1>3. v \in Seq(Token) /\ Len(v) = k
  BY <1>2, PrefixFacts
<1>4. /\ SubSeq(u, 1, Len(u)) \in Seq(Token) /\ Len(SubSeq(u, 1, Len(u))) = Len(u)
      /\ \A i \in 1 .. Len(u) : SubSeq(u, 1, Len(u))[i] = u[i]
  BY <1>2, PrefixFacts
<1>5. SubSeq(u, 1, Len(u)) = u
  BY <1>2, <1>4, SeqEqual
<1>6. SpecSound(w) => w.rec4 \o v \in Seq(Token) /\ Len(w.rec4 \o v) <= MaxText
  <2> SUFFICES ASSUME SpecSound(w)
               PROVE  w.rec4 \o v \in Seq(Token) /\ Len(w.rec4 \o v) <= MaxText
    OBVIOUS
  <2>1. w.rec4 \in Seq(Token) /\ Len(w.rec4) = w.pos /\ w.pos <= CtxK
    BY ReadsFacts DEF SpecSound
  <2> HIDE DEF v
  <2>2. Len(w.rec4 \o v) = Len(w.rec4) + k /\ w.rec4 \o v \in Seq(Token)
    BY <1>3, <2>1
  <2>3. QED
    BY <1>1, <2>1, <2>2, MaxTextBound
<1>7. Answers(SpecSound(w), w.rec4 \o v) \subseteq Token
  <2>1. SpecSound(w) \in BOOLEAN
    BY DEF SpecSound, Reads
  <2>2. QED
    BY <1>6, <2>1, AnswersType
<1>8. QED
  BY <1>1, <1>2, <1>3, <1>5, <1>7

(* The loop body after a cycle keeps the types.                            *)
LEMMA AfterCycleType ==
  ASSUME TypeOK, busy, left > 0, NEW v \in Engines, NEW pnew \in Nat, NEW out \in Seq(Token),
         NEW fits, AfterCycle(v, pnew, out, fits)
  PROVE  /\ eng' \in {v, Begin(Park(v)), Park(v)} /\ eng' \in Engines /\ hpos' \in Nat
         /\ left' \in Nat /\ busy' \in BOOLEAN /\ dirty' \in BOOLEAN
         /\ text' \in Seq(Token)
         /\ text' \in {<<>>, Grown(fits, out)} /\ (text' # <<>> => hpos' = pnew)
         /\ (dirty => dirty') /\ strained' \in BOOLEAN
<1>1. Park(v) \in Engines /\ Begin(Park(v)) \in Engines
  BY ParkType, BeginType
<1>2. Grown(fits, out) \in Seq(Token)
  BY DEF Grown, TypeOK
<1>3. left - 1 \in Nat
  BY DEF TypeOK
<1>b. strained' = strained \/ strained' = (strained \/ ~fits)
  BY Zenon DEF AfterCycle
<1>c. strained' \in BOOLEAN
  BY <1>b, Zenon DEF TypeOK
<1>4. CASE ~EmitOk(pnew, out)
  <2>1. /\ eng' = v /\ busy' = FALSE /\ left' = 0 /\ dirty' = TRUE /\ text' = <<>>
        /\ hpos' = hpos
    BY <1>4, Zenon DEF AfterCycle
  <2>2. hpos' \in Nat /\ <<>> \in Seq(Token)
    BY <2>1 DEF TypeOK
  <2>3. busy' \in BOOLEAN /\ dirty' \in BOOLEAN /\ (dirty => dirty')
    BY <2>1, Zenon
  <2>4. left' \in Nat
    BY <2>1
  <2>5. text' \in Seq(Token) /\ text' \in {<<>>, Grown(fits, out)} /\ (text' # <<>> => hpos' = pnew)
    BY <2>1, <2>2, Zenon
  <2>6. eng' \in {v, Begin(Park(v)), Park(v)} /\ eng' \in Engines
    BY <2>1, Zenon
  <2>7. QED
    BY <1>c, <2>2, <2>3, <2>4, <2>5, <2>6
<1>5. CASE EmitOk(pnew, out)
  <2>1. hpos' = pnew /\ text' = Grown(fits, out)
    BY <1>5, Zenon DEF AfterCycle
  <2>2. \/ /\ eng' \in {v, Begin(Park(v)), Park(v)}
           /\ left' = left - 1 /\ busy' = busy /\ dirty' = dirty
        \/ eng' = v /\ busy' = FALSE /\ left' = 0 /\ dirty' = TRUE
    BY <1>5, Zenon DEF AfterCycle
  <2>3. busy \in BOOLEAN /\ dirty \in BOOLEAN
    BY DEF TypeOK
  <2>4. eng' \in {v, Begin(Park(v)), Park(v)} /\ left' \in {0, left - 1}
    BY <2>2, Zenon
  <2>5. left' \in Nat
    BY <1>3, <2>4
  <2>6. busy' \in BOOLEAN /\ dirty' \in BOOLEAN /\ (dirty => dirty')
    BY <2>2, <2>3
  <2>7. eng' \in Engines
    BY <1>1, <2>4
  <2>8. QED
    BY <1>c, <1>2, <2>1, <2>4, <2>5, <2>6, <2>7
<1>6. QED
  BY <1>4, <1>5

(* A draft of a cycle, what the probe answers and the cycle's outcome.     *)
LEMMA SpecCycleFacts ==
  ASSUME TypeOK, ~eng.t1, NEW d \in [1 .. DraftLen(eng) -> Token],
         NEW a \in Probes(eng, d), NEW m \in 0 .. Len(d), NEW hit \in BOOLEAN
  PROVE  /\ DraftLen(eng) \in Nat /\ Len(d) = DraftLen(eng)
         /\ a \in [1 .. Len(d) + 1 -> Token] /\ a \in Seq(Token) /\ Len(a) = Len(d) + 1
         /\ SubSeq(a, 1, m + 1) \in Seq(Token) /\ Len(SubSeq(a, 1, m + 1)) = m + 1
         /\ SpecStep(eng, d, a, m, hit) \in Engines
         /\ SpecStep(eng, d, a, m, hit).pos = eng.pos + m + 1
         /\ LET v == SpecStep(eng, d, a, m, hit)
            IN  v.t1 => v.t1pos = v.pos /\ v.pos + T1Guard < CtxK
<1>1. DraftLen(eng) \in Nat
  BY SizeAssumption DEF DraftLen
<1>2. Len(d) = DraftLen(eng)
  BY <1>1
<1>3. a \in [1 .. Len(d) + 1 -> Token]
  BY DEF Probes
<1>4. a \in Seq(Token) /\ Len(a) = Len(d) + 1
  BY <1>1, <1>2, <1>3
<1>5. SubSeq(a, 1, m + 1) \in Seq(Token) /\ Len(SubSeq(a, 1, m + 1)) = m + 1
  BY <1>1, <1>2, <1>4, PrefixFacts
<1>6. eng \in Engines
  BY DEF TypeOK
<1>7. QED
  BY <1>1, <1>2, <1>3, <1>4, <1>5, <1>6, SpecStepType

(* What a T=1 cycle may answer.                                            *)
LEMMA T1CycleFacts ==
  ASSUME TypeOK, NEW t \in Answers(TrunkSound(eng, eng.t1par), Append(eng.rec, eng.tok))
  PROVE  t \in Token
<1>1. eng \in Engines /\ eng.tok \in Token
  BY DEF TypeOK, Engines
<1>2. TrunkSound(eng, eng.t1par) => /\ Append(eng.rec, eng.tok) \in Seq(Token)
                                    /\ Len(Append(eng.rec, eng.tok)) <= MaxText
  <2> SUFFICES ASSUME TrunkSound(eng, eng.t1par)
               PROVE  /\ Append(eng.rec, eng.tok) \in Seq(Token)
                      /\ Len(Append(eng.rec, eng.tok)) <= MaxText
    OBVIOUS
  <2>1. eng.rec \in Seq(Token) /\ Len(eng.rec) = eng.pos /\ eng.pos <= CtxK /\ eng.pos \in Nat
    BY <1>1, ReadsFacts DEF TrunkSound, Engines
  <2>2. /\ Append(eng.rec, eng.tok) \in Seq(Token)
        /\ Len(Append(eng.rec, eng.tok)) = Len(eng.rec) + 1
    BY <1>1, <2>1, FrontOfAppend
  <2>3. CtxK + 1 <= MaxText
    BY SizeAssumption, MaxTextBound
  <2>4. QED
    BY <2>1, <2>2, <2>3, MaxTextBound
<1>3. TrunkSound(eng, eng.t1par) \in BOOLEAN
  BY DEF TrunkSound, Reads
<1>4. QED
  BY <1>2, <1>3, AnswersType

(* The type invariant is inductive.                                        *)
LEMMA TypeInit == Init => TypeOK
<1>1. Len(BaseIds) \in Nat /\ 0 \in Nat
  BY BaseFacts
<1>2. QED
  BY <1>1, BaseFacts, BootType, Zenon DEF Init, TypeOK

(* A prefill that ends keeps the types.                                    *)
LEMMA PrefillDoneType ==
  ASSUME TypeOK, NEW w \in Engines, NEW m \in {"snapshot", "FRESH", "FOLLOW_UP"},
         PrefillDone(w, m), text' \in Seq(Token), strained' \in BOOLEAN, Rpc, UNCHANGED <<knob, busy, left, snap>>
  PROVE  TypeOK'
<1>1. w.pos \in Nat
  BY DEF Engines
<1>2. rpcs' \in Nat
  BY DEF Rpc, TypeOK
<1>3. QED
  BY <1>1, <1>2, Zenon DEF PrefillDone, TypeOK

(* So does one that stops half way.                                        *)
LEMMA InterruptedType ==
  ASSUME TypeOK, NEW w \in Engines, Interrupted(w), Rpc, UNCHANGED <<knob, busy, left, snap>>
  PROVE  TypeOK'
<1>1. hpos' \in Nat /\ mode' \in {"snapshot", "FRESH", "FOLLOW_UP", "snapshot_load", "none"}
  BY DEF Interrupted, TypeOK
<1>2. rpcs' \in Nat
  BY DEF Rpc, TypeOK
<1>3. <<>> \in Seq(Token)
  OBVIOUS
<1>4. QED
  BY <1>1, <1>2, <1>3, Zenon DEF Interrupted, TypeOK

(* Every step keeps the types.                                             *)
LEMMA TypeStep == TypeOK /\ [Next]_vars => TypeOK'
<1> SUFFICES ASSUME TypeOK, [Next]_vars
             PROVE  TypeOK'
  OBVIOUS
<1>a. eng \in Engines /\ hpos \in Nat
  BY DEF TypeOK
<1>b. Park(eng) \in Engines
  BY <1>a, ParkType
<1>c. Rpc => rpcs' \in Nat
  BY DEF Rpc, TypeOK
<1>1. CASE Fresh
  <2>1. PICK p \in Prompts :
          /\ PrefillDone(Publish(Feed(ResetFresh(Park(eng), p[1]), p, Greedy(p)), Len(p)), "FRESH")
          /\ text' = Append(p, Greedy(p))
    BY <1>1 DEF Fresh
  <2>2. Len(p) \in Nat
    BY InputAssumption
  <2>3. p \in Seq(Token) /\ p[1] \in Token /\ Greedy(p) \in Token
    <3>1. 0 \in 0 .. Len(p)
      BY <2>2
    <3>2. QED
      BY <3>1, PromptFacts
  <2>4. Feed(ResetFresh(Park(eng), p[1]), p, Greedy(p)) \in Engines
    BY <1>b, <2>2, <2>3, ResetType, FeedType
  <2>5. Publish(Feed(ResetFresh(Park(eng), p[1]), p, Greedy(p)), Len(p)) \in Engines
    BY <2>2, <2>3, <2>4, ResetType
  <2>6. text' \in Seq(Token)
    BY <2>1, <2>3, FrontOfAppend
  <2>7. Rpc /\ UNCHANGED <<knob, busy, left, snap>>
    BY <1>1 DEF Fresh
  <2>8. QED
    BY <1>1, <2>1, <2>5, <2>6, <2>7, PrefillDoneType, Zenon DEF Fresh
<1>2. CASE FollowUp
  <2> DEFINE w == Park(eng)
             B(u, t) ==
               /\ hpos + Len(u) <= CtxK
               /\ PrefillDone(Publish(Feed(StLoad(w), u, t), Len(u)), "FOLLOW_UP")
               /\ text' = IF text # <<>> /\ w.pos + Len(u) <= CtxK
                          THEN Append(Front(text) \o u, t) ELSE <<>>
  <2>a. PICK new \in Deltas, c \in Token :
          \E t \in Answers(SpecSound(w), w.rec4 \o (<<c>> \o new)) : B(<<c>> \o new, t)
    BY <1>2, Zenon DEF FollowUp
  <2>1. PICK t \in Answers(SpecSound(w), w.rec4 \o (<<c>> \o new)) : B(<<c>> \o new, t)
    BY <2>a, Zenon
  <2> HIDE DEF w
  <2> DEFINE u == <<c>> \o new
  <2>2. u \in Seq(Token) /\ Len(u) \in Nat /\ Answers(SpecSound(w), w.rec4 \o u) \subseteq Token
    <3>1. Len(new) \in Nat /\ new \in Seq(Token)
      BY InputAssumption
    <3>2. hpos + 1 + Len(new) <= CtxK
      BY <1>a, <2>1, <3>1
    <3>3. Len(new) + 1 \in 0 .. Len(new) + 1 /\ w \in Engines
      BY <1>b, <3>1 DEF w
    <3>4. /\ u \in Seq(Token) /\ Len(u) = Len(new) + 1
          /\ SubSeq(u, 1, Len(new) + 1) = u
          /\ Answers(SpecSound(w), w.rec4 \o SubSeq(u, 1, Len(new) + 1)) \subseteq Token
      BY <1>a, <3>2, <3>3, FollowUpFacts
    <3> HIDE DEF u
    <3>5. Len(u) \in Nat
      BY <3>1, <3>4
    <3>6. QED
      BY <3>4, <3>5, Zenon
  <2>3. t \in Token
    BY <2>1, <2>2
  <2>4. StLoad(w) \in Engines
    BY <1>b, StLoadType DEF w
  <2> HIDE DEF u
  <2>5. Feed(StLoad(w), u, t) \in Engines
    BY <2>2, <2>3, <2>4, FeedType
  <2>6. Publish(Feed(StLoad(w), u, t), Len(u)) \in Engines
    BY <2>2, <2>3, <2>5, ResetType
  <2>7. text' \in Seq(Token)
    <3>1. CASE text' = <<>>
      BY <3>1
    <3>2. CASE text' # <<>>
      <4>1. text # <<>> /\ text' = Append(Front(text) \o u, t)
        BY <2>1, <3>2 DEF u
      <4>2. Front(text) \in Seq(Token)
        BY <4>1, AppendOfFront DEF TypeOK
      <4>3. Front(text) \o u \in Seq(Token)
        BY <2>2, <4>2
      <4>4. QED
        BY <2>3, <4>1, <4>3
    <3>3. QED
      BY <3>1, <3>2
  <2>8. Rpc /\ UNCHANGED <<knob, busy, left, snap>>
    BY <1>2 DEF FollowUp
  <2>9. strained' \in BOOLEAN
    BY <1>2, Zenon DEF FollowUp
  <2>10. QED
    BY <2>1, <2>6, <2>7, <2>8, <2>9, PrefillDoneType DEF u
<1>3. CASE InterruptedPrefill
  <2>1. Rpc /\ UNCHANGED <<knob, busy, left, snap>>
    BY <1>3 DEF InterruptedPrefill
  <2>2. CASE \E p \in Prompts : \E k \in 0 .. Len(p) :
               Interrupted(Feed(ResetFresh(Park(eng), p[1]), SubSeq(p, 1, k),
                                Greedy(SubSeq(p, 1, k))))
    <3>a. PICK p \in Prompts : \E k \in 0 .. Len(p) :
            Interrupted(Feed(ResetFresh(Park(eng), p[1]), SubSeq(p, 1, k), Greedy(SubSeq(p, 1, k))))
      BY <2>2
    <3>1. PICK k \in 0 .. Len(p) :
            Interrupted(Feed(ResetFresh(Park(eng), p[1]), SubSeq(p, 1, k), Greedy(SubSeq(p, 1, k))))
      BY <3>a
    <3>2. p[1] \in Token /\ SubSeq(p, 1, k) \in Seq(Token) /\ Greedy(SubSeq(p, 1, k)) \in Token
      BY PromptFacts
    <3>3. ResetFresh(Park(eng), p[1]) \in Engines
      BY <1>b, <3>2, ResetType, 0 \in Nat
    <3>4. Feed(ResetFresh(Park(eng), p[1]), SubSeq(p, 1, k), Greedy(SubSeq(p, 1, k))) \in Engines
      BY <3>2, <3>3, FeedType
    <3>5. QED
      BY <2>1, <3>1, <3>4, InterruptedType
  <2>3. CASE \E new \in Deltas : \E c \in Token : \E k \in 0 .. Len(new) + 1 :
               LET w == [Park(eng) EXCEPT !.cur = c]
                   u == SubSeq(<<c>> \o new, 1, k)
               IN  /\ hpos + 1 + Len(new) <= CtxK
                   /\ \E t \in Answers(SpecSound(w), w.rec4 \o u) :
                        Interrupted(Feed(IF k = 0 THEN w ELSE StLoad(w), u, t))
    <3>a. PICK new \in Deltas, c \in Token : \E k \in 0 .. Len(new) + 1 :
               LET w == [Park(eng) EXCEPT !.cur = c]
                   u == SubSeq(<<c>> \o new, 1, k)
               IN  /\ hpos + 1 + Len(new) <= CtxK
                   /\ \E t \in Answers(SpecSound(w), w.rec4 \o u) :
                        Interrupted(Feed(IF k = 0 THEN w ELSE StLoad(w), u, t))
      BY <2>3, Zenon
    <3> DEFINE w == [Park(eng) EXCEPT !.cur = c]
    <3>1. PICK k \in 0 .. Len(new) + 1 :
            /\ hpos + 1 + Len(new) <= CtxK
            /\ \E t \in Answers(SpecSound(w), w.rec4 \o SubSeq(<<c>> \o new, 1, k)) :
                 Interrupted(Feed(IF k = 0 THEN w ELSE StLoad(w), SubSeq(<<c>> \o new, 1, k), t))
      BY <3>a, Zenon
    <3> DEFINE u == SubSeq(<<c>> \o new, 1, k)
               z == IF k = 0 THEN w ELSE StLoad(w)
    <3>2. PICK t \in Answers(SpecSound(w), w.rec4 \o u) : Interrupted(Feed(z, u, t))
      BY <3>1, Zenon
    <3>3. w \in Engines
      BY <1>b DEF Engines
    <3> HIDE DEF w
    <3>4. u \in Seq(Token) /\ Answers(SpecSound(w), w.rec4 \o u) \subseteq Token
      BY <1>a, <3>1, <3>3, FollowUpFacts
    <3>5. t \in Token
      BY <3>2, <3>4
    <3>6. z \in Engines
      BY <3>3, StLoadType
    <3> HIDE DEF u, z
    <3>7. Feed(z, u, t) \in Engines
      BY <3>4, <3>5, <3>6, FeedType
    <3>8. QED
      BY <2>1, <3>2, <3>7, InterruptedType
  <2>4. QED
    BY <1>3, <2>2, <2>3, Zenon DEF InterruptedPrefill
<1>4. CASE RefusedFollowUp
  BY <1>4, <1>b, <1>c, Zenon DEF RefusedFollowUp, TypeOK
<1>5. CASE PrefillSnapshot
  <2>1. ResetSnapshot(Park(eng)) \in Engines
    <3>1. BaseText[Len(BaseText)] \in Token /\ 0 \in Nat
      BY BaseFacts
    <3>2. QED
      BY <1>b, <3>1, ResetType
  <2>2. text' \in Seq(Token)
    BY <1>5, BaseFacts, HeldType DEF PrefillSnapshot
  <2>3. QED
    BY <1>5, <2>1, <2>2, PrefillDoneType, Zenon DEF PrefillSnapshot
<1>6. CASE BeginGenerate
  <2>1. Begin(eng) \in Engines
    BY <1>a, BeginType
  <2>2. left' \in Nat
    BY <1>6 DEF BeginGenerate
  <2>3. QED
    BY <1>6, <1>c, <2>1, <2>2, Zenon DEF BeginGenerate, TypeOK
<1>7. CASE SpecCycle
  <2>a. PICK d \in [1 .. DraftLen(eng) -> Token], hit \in BOOLEAN :
          \E a \in Probes(eng, d) : \E m \in 0 .. Len(d) :
            AfterCycle(SpecStep(eng, d, a, m, hit), SpecStep(eng, d, a, m, hit).pos,
                       SubSeq(a, 1, m + 1), eng.pos + Len(d) < CtxK)
    BY <1>7, Zenon DEF SpecCycle
  <2>1. PICK a \in Probes(eng, d), m \in 0 .. Len(d) :
          AfterCycle(SpecStep(eng, d, a, m, hit), SpecStep(eng, d, a, m, hit).pos,
                     SubSeq(a, 1, m + 1), eng.pos + Len(d) < CtxK)
    BY <2>a, Zenon
  <2>2. busy /\ left > 0 /\ ~eng.t1 /\ UNCHANGED <<knob, mode, rpcs, snap>>
    BY <1>7 DEF SpecCycle
  <2> DEFINE v == SpecStep(eng, d, a, m, hit)
  <2>3. v \in Engines /\ SubSeq(a, 1, m + 1) \in Seq(Token)
    BY <2>2, SpecCycleFacts
  <2> HIDE DEF v
  <2>4. v.pos \in Nat
    BY <2>3 DEF Engines
  <2>5. /\ eng' \in Engines /\ hpos' \in Nat /\ left' \in Nat /\ busy' \in BOOLEAN
        /\ dirty' \in BOOLEAN /\ text' \in Seq(Token) /\ strained' \in BOOLEAN
    BY <2>1, <2>2, <2>3, <2>4, AfterCycleType DEF v
  <2>6. QED
    BY <2>2, <2>5, Zenon DEF TypeOK
<1>8. CASE T1Cycle
  <2>1. PICK hit \in BOOLEAN, t \in Answers(TrunkSound(eng, eng.t1par), Append(eng.rec, eng.tok)) :
          AfterCycle(T1Step(eng, t, hit), eng.t1pos + 1, <<t>>, eng.pos < CtxK)
    BY <1>8, Zenon DEF T1Cycle
  <2>2. busy /\ left > 0 /\ eng.t1 /\ UNCHANGED <<knob, mode, rpcs, snap>>
    BY <1>8 DEF T1Cycle
  <2>3. t \in Token
    BY T1CycleFacts
  <2>4. T1Step(eng, t, hit) \in Engines
    BY <1>a, <2>2, <2>3, T1StepType
  <2>5. eng.t1pos + 1 \in Nat /\ <<t>> \in Seq(Token)
    BY <1>a, <2>3 DEF Engines
  <2>6. /\ eng' \in Engines /\ hpos' \in Nat /\ left' \in Nat /\ busy' \in BOOLEAN
        /\ dirty' \in BOOLEAN /\ text' \in Seq(Token) /\ strained' \in BOOLEAN
    BY <2>1, <2>2, <2>4, <2>5, AfterCycleType
  <2>7. QED
    BY <2>2, <2>6, Zenon DEF TypeOK
<1>9. CASE EndGenerate
  <2>1. left' \in Nat
    BY <1>9 DEF EndGenerate
  <2>2. QED
    BY <1>9, <1>b, <2>1, Zenon DEF EndGenerate, TypeOK
<1>10. CASE SnapshotSave
  <2> DEFINE w  == Park(eng)
             r1 == AtMost(w.pos + SnapSlack, CtxK)
             k  == [c \in Cells |-> IF c \in Window(Len(BaseIds), r1) THEN w.kv[c] ELSE Junk]
  <2>1. /\ eng' = w /\ Rpc /\ UNCHANGED <<knob, hpos, mode, dirty, busy, left, text, strained>>
        /\ snap' = [there |-> TRUE, rec |-> w.rec4, conv |-> w.conv4, pos |-> w.pos,
                    cur |-> w.cur, end |-> r1, text |-> text, rows |-> k]
    BY <1>10, Zenon DEF SnapshotSave
  <2>2. w \in Engines
    BY <1>b
  <2>3. /\ w.pos \in Nat /\ w.rec4 \in Tags /\ w.conv4 \in Tags /\ w.cur \in Token
        /\ w.kv \in [Cells -> Tags]
    BY <2>2 DEF Engines
  <2>4. r1 \in Nat
    BY <2>3, SizeAssumption DEF AtMost
  <2>5. k \in [Cells -> Tags]
    BY <2>3, TagTypes
  <2> HIDE DEF w, r1, k
  <2>6. snap' \in Snaps
    BY <2>1, <2>3, <2>4, <2>5 DEF Snaps, TypeOK
  <2>7. QED
    BY <1>c, <2>1, <2>2, <2>6, Zenon DEF TypeOK
<1>11. CASE SnapshotLoad
  <2> DEFINE k == [c \in Cells |-> IF c \in Window(Len(BaseIds), snap.end)
                                   THEN snap.rows[c] ELSE eng.kv[c]]
             v == [eng EXCEPT !.rec4 = snap.rec, !.conv4 = snap.conv, !.pos = snap.pos,
                              !.cur = snap.cur, !.tok = snap.cur, !.kv = k]
  <2>1. /\ Rpc /\ eng' = v /\ mode' = "snapshot_load" /\ text' = Held(eng', snap.text)
        /\ strained' = (text' = <<>>) /\ UNCHANGED <<knob, hpos, dirty, busy, left, snap>>
    BY <1>11, Zenon DEF SnapshotLoad
  <2>2. /\ snap.rec \in Tags /\ snap.conv \in Tags /\ snap.pos \in Nat /\ snap.cur \in Token
        /\ snap.rows \in [Cells -> Tags] /\ snap.text \in Seq(Token)
    BY DEF TypeOK, Snaps
  <2>3. eng.kv \in [Cells -> Tags]
    BY <1>a DEF Engines
  <2>4. k \in [Cells -> Tags]
    BY <2>2, <2>3
  <2> HIDE DEF k
  <2>5. v \in Engines
    BY <1>a, <2>2, <2>4 DEF Engines
  <2>6. text' \in Seq(Token)
    BY <2>1, <2>2, HeldType
  <2>7. eng' \in Engines /\ rpcs' \in Nat
    BY <1>c, <2>1, <2>5
  <2>8. QED
    BY <2>1, <2>6, <2>7, Zenon DEF TypeOK
<1>12. CASE Reboot
  <2>1. Len(BaseIds) \in Nat /\ 0 \in Nat
    BY BaseFacts
  <2>2. QED
    BY <1>12, <2>1, BaseFacts, BootType, Zenon DEF Reboot, Booted, TypeOK
<1>13. CASE UNCHANGED vars
  BY <1>13, Zenon DEF vars, TypeOK
<1>14. QED
  BY <1>1, <1>2, <1>3, <1>4, <1>5, <1>6, <1>7, <1>8, <1>9, <1>10, <1>11, <1>12, <1>13
     DEF Next, Prefill, Generate

(* Every variable keeps its type, whatever the sizes, the vocabulary and   *)
(* the model are: no handler of serve.py and no step of mtp.py leaves it.  *)
THEOREM TypeCorrect == Spec => []TypeOK
<1>1. QED
  BY TypeInit, TypeStep, PTL DEF Spec

----------------------------------------------------------------------------
(* What the transfers between the worlds leave as it is.                   *)

(* v reads and will feed what w reads and will feed.                       *)
SameLive(w, v) ==
  /\ LiveRec(v) = LiveRec(w) /\ LiveConv(v) = LiveConv(w) /\ NextTok(v) = NextTok(w)
  /\ v.pos = w.pos /\ v.kv = w.kv

(* Such a v holds the conversation w holds.                                *)
LEMMA SameHolds ==
  ASSUME NEW w, NEW v, SameLive(w, v), NEW t, Holds(w, t)
  PROVE  Holds(v, t)
BY DEF SameLive, Holds, Reads

(* Agreement of this kind is transitive.                                   *)
LEMMA SameLiveTrans ==
  ASSUME NEW w, NEW v, NEW x, SameLive(w, v), SameLive(v, x)
  PROVE  SameLive(w, x)
BY DEF SameLive

(* So read and feed the same: entering a T=1 episode,                      *)
LEMMA T1EnterSame ==
  ASSUME NEW w \in Engines, ~w.t1
  PROVE  SameLive(w, T1Enter(w))
<1> DEFINE v == T1Enter(w)
<1>1. w.conv \in [{0, 1} -> Tags]
  BY DEF Engines
<1>2. /\ v.t1 = TRUE /\ v.t1par = 0 /\ v.rec = w.rec4 /\ v.tok = w.cur /\ v.pos = w.pos
      /\ v.kv = w.kv /\ v.conv = [w.conv EXCEPT ![0] = w.conv4]
  BY DEF T1Enter, StLoad, Engines
<1>3. v.conv[v.t1par] = w.conv4
  BY <1>1, <1>2
<1> HIDE DEF v
<1>4. QED
  BY <1>2, <1>3 DEF SameLive, LiveRec, LiveConv, NextTok, v

(* ... ending one,                                                         *)
LEMMA T1ExitSame ==
  ASSUME NEW w \in Engines, w.t1, NEW hit \in BOOLEAN
  PROVE  SameLive(w, T1Exit(w, hit))
<1> DEFINE v == T1Exit(w, hit)
<1>1. /\ v.t1 = FALSE /\ v.rec4 = w.rec /\ v.conv4 = w.conv[w.t1par] /\ v.cur = w.tok
      /\ v.pos = w.pos /\ v.kv = w.kv
  BY DEF T1Exit, StSeed, Engines
<1> HIDE DEF v
<1>2. QED
  BY <1>1 DEF SameLive, LiveRec, LiveConv, NextTok, v

(* ... and so does parking, in either world.                               *)
LEMMA ParkSame ==
  ASSUME NEW w \in Engines
  PROVE  SameLive(w, Park(w))
<1>1. CASE w.t1
  BY <1>1, T1ExitSame DEF Park
<1>2. CASE ~w.t1
  BY <1>2 DEF Park, SameLive
<1>3. QED
  BY <1>1, <1>2

(* ... and beginning a generate.                                           *)
LEMMA BeginSame ==
  ASSUME NEW w \in Engines
  PROVE  SameLive(w, Begin(w))
<1> DEFINE x == [w EXCEPT !.deep = FALSE, !.hitrun = 0]
           p == Park(x)
           v == [p EXCEPT !.t1par = 0, !.zerorun = 0, !.missrun = 0, !.prose = FALSE]
<1>1. x \in Engines
  BY DEF Engines
<1>2. SameLive(w, x)
  BY DEF SameLive, LiveRec, LiveConv, NextTok, Engines
<1> HIDE DEF x
<1>3. p \in Engines /\ p.t1 = FALSE /\ SameLive(x, p)
  BY <1>1, ParkType, ParkSame
<1>4. SameLive(p, v)
  <2>1. /\ v.t1 = FALSE /\ v.rec4 = p.rec4 /\ v.conv4 = p.conv4 /\ v.cur = p.cur
        /\ v.pos = p.pos /\ v.kv = p.kv
    BY <1>3 DEF Engines
  <2> HIDE DEF v
  <2>2. QED
    BY <1>3, <2>1 DEF SameLive, LiveRec, LiveConv, NextTok
<1>5. v = Begin(w)
  BY DEF Begin, x
<1> HIDE DEF v, p
<1>6. QED
  BY <1>2, <1>3, <1>4, <1>5, SameLiveTrans

(* So does choosing the next graph set, in the spec world.                 *)
LEMMA SelectSame ==
  ASSUME NEW w \in Engines, NEW c \in Engines, NEW m \in Nat, NEW hit \in BOOLEAN, ~c.t1
  PROVE  SameLive(c, Select(w, c, m, hit))
BY SelectType DEF SameLive, LiveRec, LiveConv, NextTok

(* The loop body after a cycle that reached v leaves an engine like v.     *)
LEMMA AfterCycleSame ==
  ASSUME NEW v \in Engines, NEW x \in {v, Begin(Park(v)), Park(v)}
  PROVE  SameLive(v, x) /\ (x.t1 => x = v)
<1>1. SameLive(v, v)
  BY DEF SameLive
<1>2. Park(v) \in Engines /\ Park(v).t1 = FALSE /\ SameLive(v, Park(v))
  BY ParkType, ParkSame
<1>3. SameLive(v, Begin(Park(v))) /\ Begin(Park(v)).t1 = FALSE
  BY <1>2, BeginType, BeginSame, SameLiveTrans
<1>4. QED
  BY <1>1, <1>2, <1>3

----------------------------------------------------------------------------
(* T=1 episodes and the end of the context.                                *)

(* Every step keeps an episode clear of the end of the context.            *)
LEMMA T1FitsStep == TypeOK /\ T1Fits /\ [Next]_vars => T1Fits'
<1> SUFFICES ASSUME TypeOK, T1Fits, [Next]_vars, busy', eng'.t1
             PROVE  eng'.t1pos = eng'.pos /\ eng'.pos + T1Guard < CtxK
  BY DEF T1Fits
<1>a. eng \in Engines
  BY DEF TypeOK
<1>1. CASE Prefill \/ SnapshotSave \/ SnapshotLoad \/ Reboot \/ EndGenerate
  BY <1>1 DEF Prefill, Fresh, FollowUp, InterruptedPrefill, RefusedFollowUp, PrefillSnapshot,
              SnapshotSave, SnapshotLoad, Reboot, Booted, EndGenerate, Rpc
<1>2. CASE BeginGenerate
  BY <1>2, <1>a, BeginType DEF BeginGenerate
<1>3. CASE SpecCycle
  <2>a. PICK d \in [1 .. DraftLen(eng) -> Token], hit \in BOOLEAN :
          \E a \in Probes(eng, d) : \E m \in 0 .. Len(d) :
            AfterCycle(SpecStep(eng, d, a, m, hit), SpecStep(eng, d, a, m, hit).pos,
                       SubSeq(a, 1, m + 1), eng.pos + Len(d) < CtxK)
    BY <1>3, Zenon DEF SpecCycle
  <2>1. PICK a \in Probes(eng, d), m \in 0 .. Len(d) :
          AfterCycle(SpecStep(eng, d, a, m, hit), SpecStep(eng, d, a, m, hit).pos,
                     SubSeq(a, 1, m + 1), eng.pos + Len(d) < CtxK)
    BY <2>a, Zenon
  <2>2. busy /\ left > 0 /\ ~eng.t1
    BY <1>3 DEF SpecCycle
  <2> DEFINE v == SpecStep(eng, d, a, m, hit)
  <2>3. /\ v \in Engines /\ SubSeq(a, 1, m + 1) \in Seq(Token)
        /\ v.t1 => v.t1pos = v.pos /\ v.pos + T1Guard < CtxK
    BY <2>2, SpecCycleFacts
  <2> HIDE DEF v
  <2>4. v.pos \in Nat
    BY <2>3 DEF Engines
  <2>5. eng' \in {v, Begin(Park(v)), Park(v)}
    BY <2>1, <2>2, <2>3, <2>4, AfterCycleType DEF v
  <2>6. eng' = v
    BY <2>3, <2>5, AfterCycleSame
  <2>7. QED
    BY <2>3, <2>6
<1>4. CASE T1Cycle
  <2>1. PICK hit \in BOOLEAN, t \in Answers(TrunkSound(eng, eng.t1par), Append(eng.rec, eng.tok)) :
          AfterCycle(T1Step(eng, t, hit), eng.t1pos + 1, <<t>>, eng.pos < CtxK)
    BY <1>4, Zenon DEF T1Cycle
  <2>2. busy /\ left > 0 /\ eng.t1
    BY <1>4 DEF T1Cycle
  <2>3. t \in Token
    BY T1CycleFacts
  <2> DEFINE v == T1Step(eng, t, hit)
  <2>4. /\ v \in Engines /\ v.pos = eng.pos + 1
        /\ v.t1 => v.t1pos = eng.t1pos + 1 /\ v.t1pos + T1Guard < CtxK
    BY <1>a, <2>2, <2>3, T1StepType
  <2> HIDE DEF v
  <2>5. eng.t1pos + 1 \in Nat /\ <<t>> \in Seq(Token)
    BY <1>a, <2>3 DEF Engines
  <2>6. eng' \in {v, Begin(Park(v)), Park(v)}
    BY <2>1, <2>2, <2>4, <2>5, AfterCycleType DEF v
  <2>7. eng' = v
    BY <2>4, <2>6, AfterCycleSame
  <2>8. eng.t1pos = eng.pos
    BY <2>2 DEF T1Fits
  <2>9. QED
    BY <2>4, <2>7, <2>8
<1>5. CASE UNCHANGED vars
  BY <1>5 DEF vars, T1Fits
<1>6. QED
  BY <1>1, <1>2, <1>3, <1>4, <1>5 DEF Next, Generate

(* A T=1 episode never reaches the guard rows at the end of the context,   *)
(* and its own position counter is the device's (DecodeSession.step).      *)
THEOREM EpisodesFit == Spec => []T1Fits
<1>1. Init => T1Fits
  BY DEF Init, T1Fits
<1>2. QED
  BY <1>1, T1FitsStep, TypeCorrect, PTL DEF Spec

----------------------------------------------------------------------------
(* The steps that feed tokens.                                             *)

(* The KV rows after tokens u were written behind s, and n of them kept.   *)
LEMMA WrittenReads ==
  ASSUME NEW w \in Engines, NEW s, Reads(w, s), NEW u \in Seq(Token), w.pos + Len(u) <= CtxK,
         NEW n \in 0 .. Len(u), NEW v \in Engines,
         v.kv = Written(w, TRUE, s, u), v.pos = w.pos + n
  PROVE  Reads(v, s \o SubSeq(u, 1, n))
<1> DEFINE un == SubSeq(u, 1, n)
           S  == s \o un
<1>1. s \in Seq(Token) /\ Len(s) = w.pos /\ w.pos \in Nat /\ Len(u) \in Nat
  BY ReadsFacts, SMTT(30) DEF Engines
<1>2. un \in Seq(Token) /\ Len(un) = n
  BY PrefixFacts
<1> HIDE DEF un
<1>3. S \in Seq(Token) /\ Len(S) = w.pos + n
  <2>1. s \o un \in Seq(Token) /\ Len(s \o un) = Len(s) + Len(un)
    BY <1>1, <1>2, ConcatProperties
  <2>2. QED
    BY <1>1, <1>2, <2>1
<1>4. ASSUME NEW c \in Cells, c[2] < v.pos
      PROVE  v.kv[c] = SubSeq(S, 1, c[2] + 1)
  <2>1. c[2] \in Int /\ c[2] \in 0 .. CtxK - 1
    BY SizeAssumption DEF Cells
  <2>2. v.kv[c] = IF c[2] - w.pos \in 0 .. Len(u) - 1
                  THEN Tag(TRUE, s \o SubSeq(u, 1, c[2] - w.pos + 1))
                  ELSE IF c[1] > 0 /\ c[2] + CtxK - w.pos \in 0 .. Len(u) - 1 THEN Junk
                  ELSE w.kv[c]
    BY Zenon DEF Written
  <2>3. CASE c[2] < w.pos
    <3>1. v.kv[c] = w.kv[c]
      <4>1. c[2] - w.pos \notin 0 .. Len(u) - 1
        BY <1>1, <2>1, <2>3
      <4>2. c[2] + CtxK - w.pos \notin 0 .. Len(u) - 1
        BY <1>1, <2>1, <2>3, SizeAssumption, SMTT(30)
      <4>3. QED
        BY <2>2, <4>1, <4>2, Zenon
    <3>2. w.kv[c] = SubSeq(s, 1, c[2] + 1)
      BY <2>3 DEF Reads
    <3>3. c[2] + 1 \in 0 .. Len(s)
      BY <1>1, <2>1, <2>3
    <3>4. SubSeq(S, 1, c[2] + 1) = SubSeq(s, 1, c[2] + 1)
      BY <1>1, <1>2, <3>3, PrefixInFirst
    <3>5. QED
      BY <3>1, <3>2, <3>4
  <2>4. CASE c[2] >= w.pos
    <3> DEFINE i == c[2] - w.pos + 1
    <3>1. i \in 0 .. n /\ i \in 0 .. Len(u) /\ c[2] - w.pos \in 0 .. Len(u) - 1
          /\ c[2] + 1 = Len(s) + i
      BY <1>1, <2>1, <2>4, <1>4, SMTT(30)
    <3> HIDE DEF i
    <3>2. v.kv[c] = s \o SubSeq(u, 1, i)
      BY <2>2, <3>1, Zenon DEF Tag, i
    <3>3. SubSeq(S, 1, Len(s) + i) = s \o SubSeq(un, 1, i)
      BY <1>1, <1>2, <3>1, PrefixInSecond
    <3>4. SubSeq(un, 1, i) = SubSeq(u, 1, i)
      BY <3>1, PrefixOfPrefix DEF un
    <3>5. QED
      BY <3>1, <3>2, <3>3, <3>4
  <2>5. c[2] < w.pos \/ c[2] >= w.pos
    BY <1>1, <2>1
  <2>6. QED
    BY <2>3, <2>4, <2>5, Zenon
<1>5. v.pos <= CtxK
  BY <1>1, SizeAssumption
<1> HIDE DEF S
<1>6. QED
  BY <1>3, <1>4, <1>5 DEF Reads, S, un

(* Holding a conversation, in the two worlds.                              *)
LEMMA HoldsFacts ==
  ASSUME NEW w \in Engines, NEW t \in Seq(Token), Holds(w, t)
  PROVE  /\ Front(t) \in Seq(Token) /\ Len(Front(t)) = w.pos /\ Len(t) = w.pos + 1
         /\ t = Front(t) \o <<NextTok(w)>> /\ t = Append(Front(t), NextTok(w))
         /\ NextTok(w) \in Token
         /\ ~w.t1 => SpecSound(w) /\ w.rec4 = Front(t) /\ NextTok(w) = w.cur
         /\ w.t1 => TrunkSound(w, w.t1par) /\ w.rec = Front(t) /\ NextTok(w) = w.tok
<1>1. t # <<>> /\ Reads(w, Front(t)) /\ NextTok(w) = t[Len(t)]
  BY DEF Holds
<1>2. /\ Front(t) \in Seq(Token) /\ Len(Front(t)) = Len(t) - 1 /\ t[Len(t)] \in Token
      /\ t = Append(Front(t), t[Len(t)]) /\ t = Front(t) \o <<t[Len(t)]>>
  BY <1>1, AppendOfFront
<1>3. Len(Front(t)) = w.pos
  BY <1>1, ReadsFacts
<1>4. ~w.t1 => SpecSound(w) /\ w.rec4 = Front(t) /\ NextTok(w) = w.cur
  BY <1>1 DEF Holds, SpecSound, LiveRec, LiveConv, NextTok
<1>5. w.t1 => TrunkSound(w, w.t1par) /\ w.rec = Front(t) /\ NextTok(w) = w.tok
  BY <1>1 DEF Holds, TrunkSound, LiveRec, LiveConv, NextTok
<1>6. Len(t) = w.pos + 1
  BY <1>2, <1>3
<1>7. QED
  BY <1>1, <1>2, <1>3, <1>4, <1>5, <1>6

(* A T=1 feed of a sound episode: one greedy token more.                   *)
LEMMA T1FeedHolds ==
  ASSUME NEW w \in Engines, w.t1, NEW t \in Seq(Token), Holds(w, t), w.pos < CtxK,
         NEW g \in Token
  PROVE  Holds(T1Feed(w, g), Append(t, g))
<1> DEFINE v == T1Feed(w, g)
<1>1. /\ TrunkSound(w, w.t1par) /\ w.rec = Front(t) /\ t = Append(w.rec, w.tok)
      /\ t = w.rec \o <<w.tok>> /\ Len(t) = w.pos + 1 /\ w.tok \in Token
  BY HoldsFacts
<1>2. w.conv \in [{0, 1} -> Tags] /\ w.t1par \in {0, 1} /\ w.pos \in Nat
  BY DEF Engines
<1>3. TrunkSound(w, w.t1par) = TRUE
  BY <1>1 DEF TrunkSound, Reads
<1>4. v = [w EXCEPT !.rec = t, !.conv[1 - w.t1par] = t,
                    !.kv = Written(w, TRUE, w.rec, <<w.tok>>),
                    !.pos = @ + 1, !.tok = g, !.t1pos = @ + 1, !.t1par = 1 - @]
  BY <1>1, <1>3, Zenon DEF T1Feed, Tag
<1>5. /\ v.rec = t /\ v.kv = Written(w, TRUE, w.rec, <<w.tok>>) /\ v.pos = w.pos + 1
      /\ v.tok = g /\ v.t1par = 1 - w.t1par /\ v.t1 = w.t1
  BY <1>4 DEF Engines
<1>6. v.conv = [w.conv EXCEPT ![1 - w.t1par] = t]
  BY <1>4 DEF Engines
<1>7. v.conv[v.t1par] = t
  BY <1>2, <1>5, <1>6
<1>8. v \in Engines
  BY T1FeedType
<1> HIDE DEF v
<1>9. Reads(v, t)
  <2>1. <<w.tok>> \in Seq(Token) /\ Len(<<w.tok>>) = 1 /\ SubSeq(<<w.tok>>, 1, 1) = <<w.tok>>
    <3>1. <<w.tok>> \in Seq(Token) /\ Len(<<w.tok>>) = 1
      BY <1>1
    <3>2. SubSeq(<<w.tok>>, 1, Len(<<w.tok>>)) = <<w.tok>>
      BY <3>1, PrefixWhole
    <3>3. QED
      BY <3>1, <3>2
  <2>2. Reads(w, w.rec)
    BY <1>1 DEF TrunkSound
  <2>3. w.pos + Len(<<w.tok>>) <= CtxK
    BY <1>2, <2>1, SizeAssumption
  <2>4. Reads(v, w.rec \o SubSeq(<<w.tok>>, 1, 1))
    <3>1. 1 \in 0 .. Len(<<w.tok>>)
      BY <2>1
    <3>2. QED
      BY <1>5, <1>8, <2>1, <2>2, <2>3, <3>1, WrittenReads, Zenon
  <2>5. QED
    BY <1>1, <2>1, <2>4
<1>10. /\ Append(t, g) # <<>> /\ Front(Append(t, g)) = t
       /\ Append(t, g)[Len(Append(t, g))] = g
  BY FrontOfAppend
<1>11. LiveRec(v) = t /\ LiveConv(v) = t /\ NextTok(v) = g
  BY <1>5, <1>7 DEF LiveRec, LiveConv, NextTok
<1>12. QED
  BY <1>9, <1>10, <1>11, Zenon DEF Holds, v

(* A trunk feed of a sound engine, and the publication of its result.      *)
LEMMA FeedHolds ==
  ASSUME NEW w \in Engines, ~w.t1, TrunkSound(w, 0), NEW u \in Seq(Token), u # <<>>,
         w.pos + Len(u) <= CtxK, NEW next \in Token
  PROVE  Holds(Publish(Feed(w, u, next), Len(u)), Append(w.rec \o u, next))
<1> DEFINE s == w.rec \o u
           f == Feed(w, u, next)
           h == Len(u) % 2
           v == Publish(f, Len(u))
<1>1. TrunkSound(w, 0) = TRUE
  BY DEF TrunkSound, Reads
<1>2. w.rec \in Seq(Token) /\ Len(w.rec) = w.pos /\ w.pos \in Nat /\ Reads(w, w.rec)
  BY ReadsFacts DEF TrunkSound, Engines
<1>3. s \in Seq(Token)
  BY <1>2
<1>4. Len(u) \in Nat /\ h \in {0, 1}
  OBVIOUS
<1>5. f = [w EXCEPT !.rec = s,
                    !.conv = [g \in {0, 1} |->
                                w.rec \o IF g = h THEN u ELSE Front(u)],
                    !.kv = Written(w, TRUE, w.rec, u), !.pos = @ + Len(u), !.tok = next]
  BY <1>1, Zenon DEF Feed, Tag
<1> DEFINE cv == [g \in {0, 1} |-> w.rec \o IF g = h THEN u ELSE Front(u)]
<1>6. cv[h] = s
  BY <1>4
<1>7. f \in Engines /\ f.t1 = w.t1
  BY FeedType
<1> HIDE DEF s, h, cv
<1>8. /\ f.rec = s /\ f.conv = cv /\ f.kv = Written(w, TRUE, w.rec, u)
      /\ f.pos = w.pos + Len(u) /\ f.tok = next
  BY <1>5 DEF Engines, cv
<1> HIDE DEF f
<1>9. /\ v.rec4 = s /\ v.conv4 = s /\ v.cur = next /\ v.kv = f.kv /\ v.pos = f.pos
      /\ v.t1 = w.t1
  <2>1. /\ v.rec4 = f.rec /\ v.conv4 = f.conv[h] /\ v.cur = f.tok /\ v.kv = f.kv
        /\ v.pos = f.pos /\ v.t1 = f.t1
    BY <1>7 DEF Publish, StSeed, Engines, h
  <2>2. QED
    BY <1>6, <1>7, <1>8, <2>1
<1>10. v \in Engines
  BY <1>4, <1>7, ResetType
<1> HIDE DEF v
<1>11. Reads(v, s)
  <2>1. SubSeq(u, 1, Len(u)) = u /\ Len(u) \in 0 .. Len(u)
    BY <1>4, PrefixWhole
  <2>2. v.kv = Written(w, TRUE, w.rec, u) /\ v.pos = w.pos + Len(u)
    BY <1>8, <1>9
  <2>3. Reads(v, w.rec \o SubSeq(u, 1, Len(u)))
    BY <1>2, <1>10, <2>1, <2>2, WrittenReads, Zenon
  <2>4. QED
    BY <2>1, <2>3 DEF s
<1>12. /\ Append(s, next) # <<>> /\ Front(Append(s, next)) = s
       /\ Append(s, next)[Len(Append(s, next))] = next
  BY <1>3, FrontOfAppend
<1>13. LiveRec(v) = s /\ LiveConv(v) = s /\ NextTok(v) = next
  BY <1>9 DEF LiveRec, LiveConv, NextTok
<1>14. QED
  BY <1>11, <1>12, <1>13, Zenon DEF Holds, v, f, s

(* A cycle of a sound engine: it holds the conversation and the tokens     *)
(* emitted, which are greedy.  dm are the drafts accepted, e the token     *)
(* after them.                                                             *)
LEMMA CommitHolds ==
  ASSUME NEW w \in Engines, ~w.t1, NEW t \in Seq(Token), Holds(w, t), NEW n \in Nat,
         NEW d \in [1 .. n -> Token], NEW a \in Probes(w, d), NEW m \in 0 .. n,
         Accepts(d, a, m), w.pos + n < CtxK
  PROVE  /\ Holds(Commit(w, d, a, m), t \o SubSeq(a, 1, m + 1))
         /\ Promise!Continues(t, t \o SubSeq(a, 1, m + 1))
<1> DEFINE dm == SubSeq(d, 1, m)
           am == SubSeq(a, 1, m)
           o  == SubSeq(a, 1, m + 1)
           e  == a[m + 1]
           u  == <<w.cur>> \o d
           T  == t \o o
           v  == Commit(w, d, a, m)
<1>1. /\ SpecSound(w) /\ w.rec4 = Front(t) /\ t = w.rec4 \o <<w.cur>>
      /\ t = Append(w.rec4, w.cur) /\ Len(t) = w.pos + 1 /\ w.cur \in Token
      /\ w.rec4 \in Seq(Token)
  BY HoldsFacts
<1>2. d \in Seq(Token) /\ Len(d) = n
  OBVIOUS
<1>3. a \in [1 .. n + 1 -> Token]
  BY <1>2 DEF Probes
<1>4. a \in Seq(Token) /\ Len(a) = n + 1
  BY <1>3
<1>5. dm \in Seq(Token) /\ Len(dm) = m
  BY <1>2, PrefixFacts
<1>6. am = dm
  <2>1. \A i \in 1 .. m : d[i] = a[i]
    BY DEF Accepts
  <2>2. m \in 0 .. Len(d) /\ m <= Len(a)
    BY <1>2, <1>4
  <2>3. QED
    BY <1>2, <1>4, <2>1, <2>2, PrefixAgree
<1>7. o = Append(am, e) /\ e \in Token
  <2>1. m \in Nat /\ m < Len(a)
    BY <1>4
  <2>2. QED
    BY <1>4, <2>1, PrefixPlusOne
<1> HIDE DEF dm, am, o, e
<1>8. t \o dm \in Seq(Token) /\ Len(t \o dm) = w.pos + 1 + m
  <2>1. t \o dm \in Seq(Token) /\ Len(t \o dm) = Len(t) + Len(dm)
    BY <1>5
  <2>2. QED
    BY <1>1, <1>5, <2>1
<1>9. T = Append(t \o dm, e)
  BY <1>5, <1>6, <1>7, ConcatAppend
<1> HIDE DEF T
<1>10. T \in Seq(Token) /\ Len(T) = Len(t \o dm) + 1 /\ Front(T) = t \o dm
       /\ T[Len(T)] = e /\ T # <<>>
  BY <1>7, <1>8, <1>9, FrontOfAppend, ZenonT(60)
<1>11. u \in Seq(Token) /\ Len(u) = n + 1 /\ SubSeq(u, 1, m + 1) = <<w.cur>> \o dm
  <2>1. <<w.cur>> \in Seq(Token) /\ Len(<<w.cur>>) = 1
    BY <1>1
  <2>2. m \in 0 .. Len(d)
    BY <1>2
  <2>3. SubSeq(<<w.cur>> \o d, 1, Len(<<w.cur>>) + m) = <<w.cur>> \o SubSeq(d, 1, m)
    BY <1>2, <2>1, <2>2, PrefixInSecond
  <2>4. Len(<<w.cur>>) + m = m + 1
    BY <2>1
  <2>5. u \in Seq(Token) /\ Len(u) = 1 + Len(d)
    BY <1>2, <2>1, ConcatProperties
  <2>6. QED
    BY <1>2, <2>3, <2>4, <2>5 DEF dm
<1>12. w.rec4 \o SubSeq(u, 1, m + 1) = t \o dm
  <2>1. w.rec4 \in Seq(Token) /\ w.cur \in Token
    BY <1>1
  <2>2. (w.rec4 \o <<w.cur>>) \o dm = w.rec4 \o (<<w.cur>> \o dm)
    <3>1. \A s, r \in Seq(Token) : \A x \in Token : (s \o <<x>>) \o r = s \o (<<x>> \o r)
      BY ConcatOne
    <3>2. QED
      BY <1>5, <2>1, <3>1, Zenon
  <2> HIDE DEF u
  <2>3. QED
    BY <1>1, <1>11, <2>2, Zenon
<1>13. SpecSound(w) = TRUE
  BY <1>1 DEF SpecSound, Reads
<1>14. v = [w EXCEPT !.rec4 = t \o dm, !.conv4 = t \o dm, !.kv = Written(w, TRUE, w.rec4, u),
                     !.pos = @ + m + 1, !.cur = e]
  BY <1>12, <1>13, Zenon DEF Commit, Tag, e
<1> HIDE DEF u
<1>15. /\ v.rec4 = t \o dm /\ v.conv4 = t \o dm /\ v.cur = e /\ v.pos = w.pos + m + 1
       /\ v.kv = Written(w, TRUE, w.rec4, u) /\ v.t1 = w.t1
  BY <1>14 DEF Engines
<1>16. v \in Engines
  BY <1>3, CommitType
<1> HIDE DEF v
<1>17. Reads(v, t \o dm)
  <2>1. Reads(w, w.rec4) /\ w.pos \in Nat
    BY <1>1 DEF SpecSound, Engines
  <2>2. w.pos + Len(u) <= CtxK /\ m + 1 \in 0 .. Len(u) /\ v.pos = w.pos + (m + 1)
    <3>1. Len(u) = n + 1 /\ v.pos = w.pos + m + 1
      BY <1>11, <1>15, Zenon
    <3>2. QED
      BY <2>1, <3>1, SizeAssumption
  <2>3. Reads(v, w.rec4 \o SubSeq(u, 1, m + 1))
    BY <1>11, <1>15, <1>16, <2>1, <2>2, WrittenReads, Zenon
  <2>4. QED
    BY <1>12, <2>3
<1>18. Holds(v, T)
  <2>1. LiveRec(v) = t \o dm /\ LiveConv(v) = t \o dm /\ NextTok(v) = e
    BY <1>15 DEF LiveRec, LiveConv, NextTok
  <2>2. QED
    BY <1>10, <1>17, <2>1, Zenon DEF Holds
<1>19. Promise!Continues(t, T)
  <2>1. o \in Seq(Token) /\ Len(o) = m + 1 /\ \A j \in 1 .. m + 1 : o[j] = a[j]
    <3>1. m + 1 \in 0 .. Len(a)
      BY <1>4
    <3>2. QED
      BY <1>4, <3>1, PrefixFacts DEF o
  <2>2. Len(t) \in Nat /\ Len(T) = Len(t) + m + 1
        /\ \A i \in 1 .. Len(t) + m + 1 : T[i] = IF i <= Len(t) THEN t[i] ELSE o[i - Len(t)]
    <3>1. Len(t) \in Nat
      OBVIOUS
    <3>2. /\ Len(t \o o) = Len(t) + Len(o)
          /\ \A i \in 1 .. Len(t) + Len(o) :
                (t \o o)[i] = IF i <= Len(t) THEN t[i] ELSE o[i - Len(t)]
      BY <2>1, ConcatProperties
    <3>3. Len(t) + Len(o) = Len(t) + m + 1
      BY <2>1, <3>1
    <3>4. QED
      BY <3>1, <3>2, <3>3, Zenon DEF T
  <2>3. SubSeq(T, 1, Len(t)) = t
    <3>1. SubSeq(T, 1, Len(t)) = SubSeq(t, 1, Len(t))
      BY <2>1, <2>2, PrefixInFirst DEF T
    <3>2. QED
      BY <3>1, PrefixWhole
  <2>4. ASSUME NEW i \in Len(t) + 1 .. Len(T)
        PROVE  T[i] = Greedy(SubSeq(T, 1, i - 1))
    <3> DEFINE j == i - Len(t)
    <3>1. j \in 1 .. m + 1 /\ j - 1 \in 0 .. m /\ i - 1 = Len(t) + (j - 1)
      BY <2>2
    <3> HIDE DEF j
    <3>2. T[i] = a[j]
      <4>1. T[i] = o[j]
        <5>1. i \in 1 .. Len(t) + m + 1 /\ ~(i <= Len(t))
          BY <2>2
        <5>2. QED
          BY <2>2, <5>1, Zenon DEF j
      <4>2. QED
        BY <2>1, <3>1, <4>1
    <3>3. a[j] = Greedy(Append(w.rec4, w.cur) \o SubSeq(d, 1, j - 1))
      <4>1. j \in DOMAIN a
        BY <1>3, <3>1
      <4>2. QED
        BY <1>1, <4>1 DEF Probes
    <3>4. SubSeq(T, 1, i - 1) = t \o SubSeq(d, 1, j - 1)
      <4>1. j - 1 \in 0 .. Len(o) /\ j - 1 \in 0 .. Len(am) /\ m \in 0 .. Len(a) /\ m \in 0 .. Len(d)
        BY <1>2, <1>4, <1>5, <1>6, <2>1, <3>1
      <4>2. SubSeq(T, 1, Len(t) + (j - 1)) = t \o SubSeq(o, 1, j - 1)
        BY <2>1, <4>1, PrefixInSecond DEF T
      <4>3. SubSeq(o, 1, j - 1) = SubSeq(a, 1, j - 1)
        <5>1. m + 1 \in 0 .. Len(a) /\ j - 1 \in 0 .. m + 1
          BY <1>4, <3>1
        <5>2. QED
          BY <1>4, <5>1, PrefixOfPrefix DEF o
      <4>4. SubSeq(am, 1, j - 1) = SubSeq(a, 1, j - 1)
        BY <1>4, <3>1, <4>1, PrefixOfPrefix DEF am
      <4>5. SubSeq(dm, 1, j - 1) = SubSeq(d, 1, j - 1)
        BY <1>2, <3>1, <4>1, PrefixOfPrefix DEF dm
      <4>6. QED
        BY <1>6, <3>1, <4>2, <4>3, <4>4, <4>5
    <3>5. QED
      BY <1>1, <3>2, <3>3, <3>4
  <2>5. Len(T) > Len(t)
    BY <2>2
  <2>6. QED
    BY <2>3, <2>4, <2>5, Zenon DEF Promise!Continues
<1>20. QED
  BY <1>18, <1>19 DEF T, v, o

----------------------------------------------------------------------------
(* The conversation and the engine, after each kind of step that feeds.    *)

(* A cycle of the spec world.                                              *)
LEMMA SpecCycleOutcome ==
  ASSUME TypeOK, WorldCoherent, SpecCycle, text' # <<>>
  PROVE  /\ text # <<>> /\ Promise!Continues(text, text')
         /\ Holds(eng', text') /\ hpos' = eng'.pos
<1>a. PICK d \in [1 .. DraftLen(eng) -> Token], hit \in BOOLEAN :
        \E a \in Probes(eng, d) : \E m \in 0 .. Len(d) :
          /\ Accepts(d, a, m)
          /\ AfterCycle(SpecStep(eng, d, a, m, hit), SpecStep(eng, d, a, m, hit).pos,
                        SubSeq(a, 1, m + 1), eng.pos + Len(d) < CtxK)
  BY Zenon DEF SpecCycle
<1>1. PICK a \in Probes(eng, d), m \in 0 .. Len(d) :
        /\ Accepts(d, a, m)
        /\ AfterCycle(SpecStep(eng, d, a, m, hit), SpecStep(eng, d, a, m, hit).pos,
                      SubSeq(a, 1, m + 1), eng.pos + Len(d) < CtxK)
  BY <1>a, Zenon
<1>2. busy /\ left > 0 /\ ~eng.t1
  BY DEF SpecCycle
<1> DEFINE n   == DraftLen(eng)
           c   == Commit(eng, d, a, m)
           s   == Select(eng, c, m, hit)
           v   == SpecStep(eng, d, a, m, hit)
           out == SubSeq(a, 1, m + 1)
           fit == eng.pos + Len(d) < CtxK
<1>3. /\ n \in Nat /\ Len(d) = n /\ a \in [1 .. n + 1 -> Token] /\ out \in Seq(Token)
      /\ v \in Engines
  BY <1>2, SpecCycleFacts
<1>4. eng \in Engines /\ text \in Seq(Token)
  BY DEF TypeOK
<1>5. m \in 0 .. n /\ m \in Nat
  BY <1>3
<1>6. c \in Engines /\ c.t1 = eng.t1
  BY <1>3, <1>4, <1>5, CommitType
<1>7. s \in Engines /\ s.t1 = c.t1 /\ SameLive(c, s)
  <2> HIDE DEF c
  <2>1. QED
    BY <1>2, <1>4, <1>5, <1>6, SelectType, SelectSame
<1>8. SameLive(c, v)
  <2>1. v = IF EntersT1(eng, s) THEN T1Enter(s) ELSE s
    BY DEF SpecStep
  <2> HIDE DEF c, s, v
  <2>2. SameLive(s, T1Enter(s))
    BY <1>2, <1>6, <1>7, T1EnterSame
  <2>3. SameLive(c, T1Enter(s))
    BY <1>7, <2>2, SameLiveTrans
  <2>4. QED
    BY <1>7, <2>1, <2>3
<1>9. /\ eng' \in {v, Begin(Park(v)), Park(v)}
      /\ text' = Grown(fit, out) /\ hpos' = v.pos
  <2>1. v.pos \in Nat
    BY <1>3 DEF Engines
  <2> HIDE DEF v, out, fit
  <2>2. AfterCycle(v, v.pos, out, fit)
    BY <1>1 DEF v, out, fit
  <2>3. QED
    BY <1>2, <1>3, <2>1, <2>2, AfterCycleType
<1>10. fit /\ text # <<>> /\ text' = text \o out
  BY <1>9, Zenon DEF Grown
<1>11. Holds(eng, text)
  BY <1>10 DEF WorldCoherent
<1>12. Holds(c, text \o out) /\ Promise!Continues(text, text \o out)
  <2>1. eng.pos + n < CtxK
    BY <1>3, <1>10
  <2> HIDE DEF n, fit
  <2>2. d \in [1 .. n -> Token]
    BY DEF n
  <2>3. QED
    BY <1>1, <1>2, <1>3, <1>4, <1>5, <1>11, <2>1, <2>2, CommitHolds
<1> HIDE DEF c, v, s, out, fit
<1>13. SameLive(v, eng')
  BY <1>3, <1>9, AfterCycleSame
<1>14. Holds(eng', text \o out)
  BY <1>8, <1>12, <1>13, SameHolds
<1>15. hpos' = eng'.pos
  BY <1>9, <1>13 DEF SameLive
<1>16. QED
  BY <1>10, <1>12, <1>14, <1>15

(* A T=1 cycle.                                                            *)
LEMMA T1CycleOutcome ==
  ASSUME TypeOK, T1Fits, WorldCoherent, T1Cycle, text' # <<>>
  PROVE  /\ text # <<>> /\ Promise!Continues(text, text')
         /\ Holds(eng', text') /\ hpos' = eng'.pos
<1>1. PICK hit \in BOOLEAN, t \in Answers(TrunkSound(eng, eng.t1par), Append(eng.rec, eng.tok)) :
        AfterCycle(T1Step(eng, t, hit), eng.t1pos + 1, <<t>>, eng.pos < CtxK)
  BY Zenon DEF T1Cycle
<1>2. busy /\ left > 0 /\ eng.t1
  BY DEF T1Cycle
<1>3. t \in Token
  BY T1CycleFacts
<1>4. eng \in Engines /\ text \in Seq(Token)
  BY DEF TypeOK
<1> DEFINE f   == T1Feed(eng, t)
           v   == T1Step(eng, t, hit)
           fit == eng.pos < CtxK
<1>5. v \in Engines /\ v.pos = eng.pos + 1
  BY <1>2, <1>3, <1>4, T1StepType
<1>6. f \in Engines /\ f.t1 = eng.t1
  BY <1>3, <1>4, T1FeedType
<1>7. SameLive(f, v)
  <2>1. v = IF LeavesT1(f, hit) THEN T1Exit(f, hit) ELSE f
    BY DEF T1Step
  <2> HIDE DEF f, v
  <2>2. SameLive(f, T1Exit(f, hit))
    BY <1>2, <1>6, T1ExitSame
  <2>3. SameLive(f, f)
    BY DEF SameLive
  <2>4. QED
    BY <2>1, <2>2, <2>3
<1>8. /\ eng' \in {v, Begin(Park(v)), Park(v)}
      /\ text' = Grown(fit, <<t>>) /\ hpos' = eng.t1pos + 1
  <2>1. eng.t1pos + 1 \in Nat /\ <<t>> \in Seq(Token)
    BY <1>3, <1>4 DEF Engines
  <2> HIDE DEF v, fit
  <2>2. AfterCycle(v, eng.t1pos + 1, <<t>>, fit)
    BY <1>1 DEF v, fit
  <2>3. QED
    BY <1>2, <1>5, <2>1, <2>2, AfterCycleType
<1>9. fit /\ text # <<>> /\ text' = text \o <<t>>
  BY <1>8, Zenon DEF Grown
<1>10. Holds(eng, text)
  BY <1>9 DEF WorldCoherent
<1>11. text' = Append(text, t) /\ t = Greedy(text)
  <2>1. text = Append(Front(text), NextTok(eng)) /\ TrunkSound(eng, eng.t1par)
        /\ eng.rec = Front(text) /\ NextTok(eng) = eng.tok
    BY <1>2, <1>4, <1>10, HoldsFacts
  <2>2. t = Greedy(text)
    BY <2>1 DEF Answers
  <2>3. Append(text, t) = text \o <<t>>
    BY <1>3, <1>4, AppendIsConcat
  <2>4. QED
    BY <1>9, <2>2, <2>3
<1>12. Holds(f, text')
  <2>1. Holds(T1Feed(eng, t), Append(text, t))
    BY <1>2, <1>3, <1>4, <1>9, <1>10, T1FeedHolds
  <2>2. QED
    BY <1>11, <2>1
<1>13. Promise!Continues(text, text')
  <2>1. Len(text) \in Nat /\ Len(text') = Len(text) + 1 /\ text'[Len(text) + 1] = t
    BY <1>3, <1>4, <1>11, AppendProperties
  <2>2. Front(text') = text
    BY <1>3, <1>4, <1>11, FrontOfAppend
  <2>3. SubSeq(text', 1, Len(text)) = text
    BY <2>1, <2>2 DEF Front
  <2>4. \A i \in Len(text) + 1 .. Len(text') : i = Len(text) + 1 /\ i - 1 = Len(text)
    BY <2>1
  <2>5. \A i \in Len(text) + 1 .. Len(text') : text'[i] = Greedy(SubSeq(text', 1, i - 1))
    BY <1>11, <2>1, <2>3, <2>4, Zenon
  <2>6. Len(text') > Len(text)
    BY <2>1
  <2>7. QED
    BY <2>3, <2>5, <2>6, Zenon DEF Promise!Continues
<1> HIDE DEF f, v, fit
<1>14. SameLive(v, eng')
  BY <1>5, <1>8, AfterCycleSame
<1>15. Holds(eng', text')
  BY <1>7, <1>12, <1>14, SameHolds
<1>16. hpos' = eng'.pos
  <2>1. eng.t1pos = eng.pos
    BY <1>2 DEF T1Fits
  <2>2. QED
    BY <1>5, <1>8, <1>14, <2>1 DEF SameLive
<1>17. QED
  BY <1>9, <1>13, <1>15, <1>16

(* The boot.                                                               *)
LEMMA BootHolds == Holds(Boot, BaseText) /\ Boot.pos = Len(BaseIds)
<1>1. /\ Boot.rec4 = BaseIds /\ Boot.conv4 = BaseIds /\ Boot.pos = Len(BaseIds)
      /\ Boot.cur = BaseText[Len(BaseText)] /\ Boot.t1 = FALSE
  BY DEF Boot
<1>2. \A c \in Cells : c[2] < Len(BaseIds) => Boot.kv[c] = SubSeq(BaseIds, 1, c[2] + 1)
  BY DEF Boot
<1>3. Reads(Boot, BaseIds)
  <2>1. Len(BaseIds) <= CtxK
    BY BaseFacts, SizeAssumption
  <2>2. QED
    BY <1>1, <1>2, <2>1, BaseFacts, Zenon DEF Reads
<1>4. LiveRec(Boot) = BaseIds /\ LiveConv(Boot) = BaseIds
      /\ NextTok(Boot) = BaseText[Len(BaseText)]
  BY <1>1 DEF LiveRec, LiveConv, NextTok
<1>5. QED
  BY <1>1, <1>3, <1>4, BaseFacts, Zenon DEF Holds

(* A FRESH prefill.                                                        *)
LEMMA FreshOutcome ==
  ASSUME TypeOK, Fresh
  PROVE  /\ \E p \in Prompts : text' = Append(p, Greedy(p))
         /\ Holds(eng', text') /\ hpos' = eng'.pos
<1>1. PICK p \in Prompts :
        /\ PrefillDone(Publish(Feed(ResetFresh(Park(eng), p[1]), p, Greedy(p)), Len(p)), "FRESH")
        /\ text' = Append(p, Greedy(p))
  BY DEF Fresh
<1>2. eng \in Engines
  BY DEF TypeOK
<1>3. /\ p \in Seq(Token) /\ Len(p) \in 1 .. CtxK /\ p # <<>> /\ p[1] \in Token
      /\ Greedy(p) \in Token
  <2>1. 0 \in 0 .. Len(p)
    BY InputAssumption
  <2>2. QED
    BY <2>1, PromptFacts
<1> DEFINE w == ResetFresh(Park(eng), p[1])
<1>4. w \in Engines /\ w.t1 = FALSE /\ w.pos = 0
  BY <1>2, <1>3, ParkType, ResetType, 0 \in Nat
<1>5. w.rec = <<>> /\ w.conv[0] = <<>>
  BY <1>2, ParkType DEF ResetFresh, Engines
<1> HIDE DEF w
<1>6. TrunkSound(w, 0)
  <2>1. \A c \in Cells : ~(c[2] < 0)
    BY DEF Cells
  <2>2. <<>> \in Seq(Token) /\ Len(<<>>) = 0 /\ 0 <= CtxK
    BY SizeAssumption
  <2>3. QED
    BY <1>4, <1>5, <2>1, <2>2 DEF TrunkSound, Reads
<1>7. w.pos + Len(p) <= CtxK
  BY <1>3, <1>4, SizeAssumption
<1>8. Holds(Publish(Feed(w, p, Greedy(p)), Len(p)), Append(w.rec \o p, Greedy(p)))
  BY <1>3, <1>4, <1>6, <1>7, FeedHolds
<1>9. w.rec \o p = p
  BY <1>3, <1>5, ConcatEmptySeq
<1>10. QED
  BY <1>1, <1>8, <1>9, Zenon DEF PrefillDone, w

(* A FOLLOW_UP prefill.                                                    *)
LEMMA FollowUpOutcome ==
  ASSUME TypeOK, WorldCoherent, FollowUp, text' # <<>>
  PROVE  /\ text # <<>> /\ Promise!Answered(text') /\ Len(text') > Len(text)
         /\ SubSeq(text', 1, Len(text) - 1) = SubSeq(text, 1, Len(text) - 1)
         /\ Holds(eng', text')
<1> DEFINE w == Park(eng)
           B(u, t) ==
             /\ hpos + Len(u) <= CtxK
             /\ PrefillDone(Publish(Feed(StLoad(w), u, t), Len(u)), "FOLLOW_UP")
             /\ text' = IF text # <<>> /\ w.pos + Len(u) <= CtxK
                        THEN Append(Front(text) \o u, t) ELSE <<>>
<1>a. PICK new \in Deltas, c \in Token :
        \E t \in Answers(SpecSound(w), w.rec4 \o (<<c>> \o new)) : B(<<c>> \o new, t)
  BY Zenon DEF FollowUp
<1>1. PICK t \in Answers(SpecSound(w), w.rec4 \o (<<c>> \o new)) : B(<<c>> \o new, t)
  BY <1>a, Zenon
<1> HIDE DEF w
<1> DEFINE u == <<c>> \o new
<1>2. eng \in Engines /\ hpos \in Nat /\ text \in Seq(Token)
  BY DEF TypeOK
<1>3. w \in Engines /\ w.t1 = FALSE /\ SameLive(eng, w)
  BY <1>2, ParkType, ParkSame DEF w
<1>4. u \in Seq(Token) /\ Len(u) \in Nat /\ Len(u) > 1
  <2>1. new \in Seq(Token) /\ Len(new) > 0
    BY InputAssumption
  <2>2. QED
    BY <2>1
<1> HIDE DEF u
<1>5. text # <<>> /\ w.pos + Len(u) <= CtxK /\ text' = Append(Front(text) \o u, t)
  BY <1>1 DEF u
<1>6. Holds(w, text)
  <2>1. Holds(eng, text)
    BY <1>5 DEF WorldCoherent
  <2>2. QED
    BY <1>3, <2>1, SameHolds
<1>7. /\ SpecSound(w) /\ w.rec4 = Front(text) /\ Front(text) \in Seq(Token)
      /\ Len(Front(text)) = w.pos /\ Len(text) = w.pos + 1
  BY <1>2, <1>3, <1>6, HoldsFacts
<1>8. t = Greedy(w.rec4 \o u)
  BY <1>7 DEF Answers, u
<1>9. Front(text) \o u \in Seq(Token) /\ Len(Front(text) \o u) = w.pos + Len(u)
  <2>1. Front(text) \o u \in Seq(Token) /\ Len(Front(text) \o u) = Len(Front(text)) + Len(u)
    BY <1>4, <1>7, ConcatProperties
  <2>2. QED
    BY <1>7, <2>1
<1>10. t \in Token
  <2>1. w.pos \in Nat /\ Len(Front(text) \o u) <= MaxText
    BY <1>3, <1>5, <1>9, MaxTextBound DEF Engines
  <2>2. QED
    BY <1>7, <1>8, <1>9, <2>1, GreedyType
<1> DEFINE x == StLoad(w)
<1>11. x \in Engines
  BY <1>3, StLoadType
<1>12. /\ x.t1 = FALSE /\ x.rec = w.rec4 /\ x.conv[0] = w.conv4 /\ x.pos = w.pos /\ x.kv = w.kv
  <2>1. w.conv \in [{0, 1} -> Tags]
    BY <1>3 DEF Engines
  <2>2. /\ x.t1 = w.t1 /\ x.rec = w.rec4 /\ x.conv = [w.conv EXCEPT ![0] = w.conv4]
        /\ x.pos = w.pos /\ x.kv = w.kv
    BY <1>3 DEF StLoad, Engines
  <2>3. QED
    BY <1>3, <2>1, <2>2
<1> HIDE DEF x
<1>13. TrunkSound(x, 0)
  BY <1>7, <1>12 DEF TrunkSound, SpecSound, Reads
<1>14. Holds(Publish(Feed(x, u, t), Len(u)), Append(x.rec \o u, t))
  <2>1. x.pos + Len(u) <= CtxK /\ u # <<>>
    BY <1>4, <1>5, <1>12
  <2>2. QED
    BY <1>4, <1>10, <1>11, <1>12, <1>13, <2>1, FeedHolds
<1>15. Holds(eng', text')
  <2>1. eng' = Publish(Feed(x, u, t), Len(u))
    BY <1>1 DEF PrefillDone, x, u
  <2>2. QED
    BY <1>5, <1>7, <1>12, <1>14, <2>1
<1>16. /\ text' \in Seq(Token) /\ Len(text') = w.pos + Len(u) + 1
       /\ Front(text') = Front(text) \o u /\ text'[Len(text')] = t
  <2> DEFINE r == Front(text) \o u
  <2>1. r \in Seq(Token) /\ Len(r) = w.pos + Len(u) /\ text' = Append(r, t)
    BY <1>5, <1>9
  <2> HIDE DEF r
  <2>2. /\ text' \in Seq(Token) /\ Len(text') = Len(r) + 1 /\ Front(text') = r
        /\ text'[Len(text')] = t
    BY <1>10, <2>1, FrontOfAppend
  <2>3. QED
    BY <2>1, <2>2 DEF r
<1>17. Promise!Answered(text')
  <2>1. w.pos \in Nat
    BY <1>3 DEF Engines
  <2>2. Len(text') > 1
    BY <1>4, <1>16, <2>1
  <2>3. text'[Len(text')] = Greedy(Front(text'))
    BY <1>7, <1>8, <1>16
  <2>4. QED
    BY <1>16, <2>2, <2>3 DEF Promise!Answered, Front
<1>18. Len(text') > Len(text)
  <2>1. w.pos \in Nat
    BY <1>3 DEF Engines
  <2>2. QED
    BY <1>4, <1>7, <1>16, <2>1
<1>19. SubSeq(text', 1, Len(text) - 1) = SubSeq(text, 1, Len(text) - 1)
  <2>1. w.pos \in 0 .. Len(Front(text)) /\ w.pos \in 0 .. Len(Front(text) \o u)
        /\ Len(text) - 1 = w.pos
    <3>1. w.pos \in Nat
      BY <1>3 DEF Engines
    <3>2. Len(Front(text)) = w.pos /\ Len(Front(text) \o u) = w.pos + Len(u)
          /\ Len(text) = w.pos + 1
      BY <1>7, <1>9
    <3>3. QED
      BY <1>4, <3>1, <3>2
  <2>2. SubSeq(Front(text) \o u, 1, w.pos) = SubSeq(Front(text), 1, w.pos)
    BY <1>4, <1>7, <2>1, PrefixInFirst
  <2>3. SubSeq(Front(text), 1, w.pos) = Front(text)
    BY <1>7, PrefixWhole
  <2>4. SubSeq(text', 1, w.pos) = SubSeq(Front(text) \o u, 1, w.pos)
    <3>1. <<t>> \in Seq(Token)
      BY <1>10
    <3>2. text' = (Front(text) \o u) \o <<t>>
      BY <1>5, <1>9, <1>10, AppendIsConcat
    <3>3. QED
      BY <1>9, <2>1, <3>1, <3>2, PrefixInFirst
  <2>5. Front(text) = SubSeq(text, 1, w.pos)
    BY <2>1 DEF Front
  <2>6. QED
    BY <2>1, <2>2, <2>3, <2>4, <2>5
<1>20. QED
  BY <1>5, <1>15, <1>17, <1>18, <1>19

----------------------------------------------------------------------------
(* The invariants.                                                         *)

(* The worlds agree after the boot.                                        *)
LEMMA CoherentInit == Init => WorldCoherent
BY BootHolds DEF Init, WorldCoherent

(* Every step keeps the worlds in agreement with the conversation.         *)
LEMMA CoherentStep == TypeOK /\ T1Fits /\ WorldCoherent /\ [Next]_vars => WorldCoherent'
<1> SUFFICES ASSUME TypeOK, T1Fits, WorldCoherent, [Next]_vars, text' # <<>>
             PROVE  Holds(eng', text')
  BY DEF WorldCoherent
<1>a. eng \in Engines
  BY DEF TypeOK
<1>b. ASSUME text' = text, eng' \in {eng, Park(eng), Begin(eng)}
      PROVE  Holds(eng', text')
  <2>1. SameLive(eng, eng')
    BY <1>a, <1>b, ParkSame, BeginSame DEF SameLive
  <2>2. Holds(eng, text)
    BY <1>b DEF WorldCoherent
  <2>3. QED
    BY <1>b, <2>1, <2>2, SameHolds
<1>1. CASE Fresh
  BY <1>1, FreshOutcome
<1>2. CASE FollowUp
  BY <1>2, FollowUpOutcome
<1>3. CASE InterruptedPrefill
  BY <1>3 DEF InterruptedPrefill, Interrupted
<1>4. CASE RefusedFollowUp \/ EndGenerate \/ SnapshotSave
  BY <1>4, <1>b DEF RefusedFollowUp, EndGenerate, SnapshotSave
<1>5. CASE PrefillSnapshot
  BY <1>5, Zenon DEF PrefillSnapshot, Held
<1>6. CASE BeginGenerate
  BY <1>6, <1>b DEF BeginGenerate
<1>7. CASE SpecCycle
  BY <1>7, SpecCycleOutcome
<1>8. CASE T1Cycle
  BY <1>8, T1CycleOutcome
<1>9. CASE SnapshotLoad
  BY <1>9, Zenon DEF SnapshotLoad, Held
<1>10. CASE Reboot
  BY <1>10, BootHolds DEF Reboot, Booted
<1>11. CASE UNCHANGED vars
  BY <1>11, <1>b DEF vars
<1>12. QED
  BY <1>1, <1>2, <1>3, <1>4, <1>5, <1>6, <1>7, <1>8, <1>9, <1>10, <1>11
     DEF Next, Prefill, Generate

(* The two worlds, the KV rows and the token slots agree with the          *)
(* conversation at all times: across drafts, T=1 episodes, parkings,       *)
(* rebuilds, prefills and reloads (stload_trunk, stseed_spec, _t1_park).   *)
THEOREM WorldsAgree == Spec => []WorldCoherent
<1>1. QED
  BY CoherentInit, CoherentStep, TypeCorrect, EpisodesFit, PTL DEF Spec

(* Every step keeps the host's copy of the position.                       *)
LEMMA MirrorStep ==
  TypeOK /\ T1Fits /\ WorldCoherent /\ PosMirror /\ [Next]_vars => PosMirror'
<1> SUFFICES ASSUME TypeOK, T1Fits, WorldCoherent, PosMirror, [Next]_vars,
                    text' # <<>>, mode' # "snapshot_load"
             PROVE  hpos' = eng'.pos
  BY DEF PosMirror
<1>a. eng \in Engines
  BY DEF TypeOK
<1>b. ASSUME text' = text, mode' = mode, hpos' = hpos, eng' \in {eng, Park(eng), Begin(eng)}
      PROVE  hpos' = eng'.pos
  <2>1. SameLive(eng, eng')
    BY <1>a, <1>b, ParkSame, BeginSame DEF SameLive
  <2>2. hpos = eng.pos
    BY <1>b DEF PosMirror
  <2>3. QED
    BY <1>b, <2>1, <2>2 DEF SameLive
<1>1. CASE Fresh \/ FollowUp \/ PrefillSnapshot
  BY <1>1, Zenon DEF Fresh, FollowUp, PrefillSnapshot, PrefillDone
<1>2. CASE InterruptedPrefill
  BY <1>2 DEF InterruptedPrefill, Interrupted
<1>3. CASE RefusedFollowUp \/ EndGenerate \/ SnapshotSave
  BY <1>3, <1>b DEF RefusedFollowUp, EndGenerate, SnapshotSave
<1>4. CASE BeginGenerate
  BY <1>4, <1>b DEF BeginGenerate
<1>5. CASE SpecCycle
  BY <1>5, SpecCycleOutcome
<1>6. CASE T1Cycle
  BY <1>6, T1CycleOutcome
<1>7. CASE SnapshotLoad
  BY <1>7 DEF SnapshotLoad
<1>8. CASE Reboot
  BY <1>8, BootHolds DEF Reboot, Booted
<1>9. CASE UNCHANGED vars
  BY <1>9, <1>b DEF vars
<1>10. QED
  BY <1>1, <1>2, <1>3, <1>4, <1>5, <1>6, <1>7, <1>8, <1>9 DEF Next, Prefill, Generate

(* The host's copy of the position is the device's whenever the engine is  *)
(* sound and no snapshot_load came last: validate_rpc and the emit check   *)
(* of h_generate read the right number.                                    *)
THEOREM HostPosition == Spec => []PosMirror
<1>1. Init => PosMirror
  BY BootHolds DEF Init, PosMirror
<1>2. QED
  BY <1>1, MirrorStep, TypeCorrect, EpisodesFit, WorldsAgree, PTL DEF Spec

(* A conversation that was lost is marked, or was lost with no error.      *)
LossSeen == text = <<>> => dirty \/ strained

(* A cycle clears no mark, and a conversation it loses is marked.          *)
LEMMA AfterCycleSeen ==
  ASSUME LossSeen, NEW v, NEW pnew, NEW out, NEW fits \in BOOLEAN,
         text \in Seq(Token), out \in Seq(Token), AfterCycle(v, pnew, out, fits)
  PROVE  LossSeen'
<1>1. CASE EmitOk(pnew, out)
  <2>1. /\ text' = Grown(fits, out) /\ strained' = (strained \/ ~fits)
        /\ dirty => dirty'
    BY <1>1, Zenon DEF AfterCycle
  <2>2. CASE fits /\ text # <<>>
    BY <2>1, <2>2 DEF Grown, LossSeen
  <2>3. CASE ~fits
    BY <2>1, <2>3, Zenon DEF LossSeen
  <2>4. CASE text = <<>>
    BY <2>1, <2>4, Zenon DEF LossSeen
  <2>5. QED
    BY <2>2, <2>3, <2>4
<1>2. CASE ~EmitOk(pnew, out)
  BY <1>2, Zenon DEF AfterCycle, LossSeen
<1>3. QED
  BY <1>1, <1>2

(* Every step marks what it loses, or knows nothing of it.                 *)
LEMMA SeenStep == TypeOK /\ LossSeen /\ [Next]_vars => LossSeen'
<1> SUFFICES ASSUME TypeOK, LossSeen, [Next]_vars
             PROVE  LossSeen'
  OBVIOUS
<1>a. ASSUME UNCHANGED <<text, strained>>, dirty => dirty'
      PROVE  LossSeen'
  BY <1>a, Zenon DEF LossSeen
<1>b. text \in Seq(Token)
  BY DEF TypeOK
<1>1. CASE Fresh
  <2>1. PICK p \in Prompts : text' = Append(p, Greedy(p))
    BY <1>1, Zenon DEF Fresh
  <2>2. \A t \in Seq(Token) : \A x \in Token : Append(t, x) # <<>>
    BY FrontOfAppend
  <2>3. p \in Seq(Token) /\ Greedy(p) \in Token
    <3>1. 0 \in 0 .. Len(p)
      BY InputAssumption
    <3>2. QED
      BY <3>1, PromptFacts
  <2>4. QED
    BY <2>1, <2>2, <2>3, Zenon DEF LossSeen
<1>2. CASE FollowUp \/ PrefillSnapshot \/ SnapshotLoad
  BY <1>2, Zenon DEF FollowUp, PrefillSnapshot, SnapshotLoad, LossSeen
<1>3. CASE InterruptedPrefill \/ RefusedFollowUp
  BY <1>3, Zenon DEF InterruptedPrefill, Interrupted, RefusedFollowUp, LossSeen
<1>4. CASE BeginGenerate \/ EndGenerate \/ SnapshotSave
  <2>1. UNCHANGED <<text, strained, dirty>>
    BY <1>4, Zenon DEF BeginGenerate, EndGenerate, SnapshotSave
  <2>2. QED
    BY <1>a, <2>1
<1>5. CASE Reboot
  BY <1>5, BootHolds, Zenon DEF Reboot, Booted, LossSeen, Holds
<1>6. CASE SpecCycle
  <2>1. PICK d \in [1 .. DraftLen(eng) -> Token], hit \in BOOLEAN :
          \E a \in Probes(eng, d) : \E m \in 0 .. Len(d) :
            AfterCycle(SpecStep(eng, d, a, m, hit), SpecStep(eng, d, a, m, hit).pos,
                       SubSeq(a, 1, m + 1), eng.pos + Len(d) < CtxK)
    BY <1>6, Zenon DEF SpecCycle
  <2>2. PICK a \in Probes(eng, d), m \in 0 .. Len(d) :
          AfterCycle(SpecStep(eng, d, a, m, hit), SpecStep(eng, d, a, m, hit).pos,
                     SubSeq(a, 1, m + 1), eng.pos + Len(d) < CtxK)
    BY <2>1, Zenon
  <2>3. ~eng.t1
    BY <1>6 DEF SpecCycle
  <2>4. SubSeq(a, 1, m + 1) \in Seq(Token)
    BY <2>3, SpecCycleFacts
  <2>5. (eng.pos + Len(d) < CtxK) \in BOOLEAN
    OBVIOUS
  <2>6. QED
    BY <1>b, <2>2, <2>4, <2>5, AfterCycleSeen
<1>7. CASE T1Cycle
  <2>1. PICK hit \in BOOLEAN, t \in Answers(TrunkSound(eng, eng.t1par), Append(eng.rec, eng.tok)) :
          AfterCycle(T1Step(eng, t, hit), eng.t1pos + 1, <<t>>, eng.pos < CtxK)
    BY <1>7, Zenon DEF T1Cycle
  <2>2. <<t>> \in Seq(Token)
    BY T1CycleFacts
  <2>3. (eng.pos < CtxK) \in BOOLEAN
    OBVIOUS
  <2>4. QED
    BY <1>b, <2>1, <2>2, <2>3, AfterCycleSeen
<1>8. CASE UNCHANGED vars
  BY <1>8, <1>a, Zenon DEF vars
<1>9. QED
  BY <1>1, <1>2, <1>3, <1>4, <1>5, <1>6, <1>7, <1>8, Zenon DEF Next, Prefill, Generate

(* A FOLLOW_UP appends to a conversation the engine holds whole, unless    *)
(* the daemon has lost it with no error raised.                            *)
THEOREM FollowUpSoundly == Spec => FollowUpExtendsWhole
<1>1. Init => LossSeen
  BY BootHolds, Zenon DEF Init, LossSeen, Holds
<1>2. LossSeen /\ WorldCoherent => [FollowUp => Holds(eng, text) \/ strained]_vars
  BY Zenon DEF FollowUp, Resumable, LossSeen, WorldCoherent
<1>3. QED
  BY <1>1, <1>2, SeenStep, TypeCorrect, WorldsAgree, PTL DEF Spec, FollowUpExtendsWhole

----------------------------------------------------------------------------
(* The refinement.                                                         *)

(* The boot is a start of GreedyDecode.                                    *)
LEMMA RefineInit == Init => Promise!Init
<1> SUFFICES ASSUME Init
             PROVE  Promise!Init
  OBVIOUS
<1>1. text = BaseText /\ snap.text = <<>> /\ busy = FALSE
  BY DEF Init, NoSnap
<1>2. Promise!Answered(BaseText)
  <2>1. Len(BaseIds) \in Nat \ {0}
    BY BaseFacts, SizeAssumption
  <2>2. Len(BaseText) > 1
    BY <2>1, BaseFacts
  <2>3. BaseText[Len(BaseText)] = Greedy(SubSeq(BaseText, 1, Len(BaseText) - 1))
    BY BaseFacts DEF Front
  <2>4. QED
    BY <2>2, <2>3, BaseFacts DEF Promise!Answered
<1>3. QED
  BY <1>1, <1>2 DEF Promise!Init

(* Every step is a step of GreedyDecode, or leaves what it speaks of.      *)
LEMMA RefineStep ==
  TypeOK /\ T1Fits /\ WorldCoherent /\ [Next]_vars => [Promise!Next]_(Promise!vars)
<1> SUFFICES ASSUME TypeOK, T1Fits, WorldCoherent, [Next]_vars
             PROVE  [Promise!Next]_(Promise!vars)
  OBVIOUS
<1>a. busy \in BOOLEAN
  BY DEF TypeOK
<1>b. ASSUME text' = <<>>, busy' \in BOOLEAN, snap' = snap
      PROVE  Promise!Next
  BY <1>b, Zenon DEF Promise!Next, Promise!Lose
<1>1. CASE Fresh
  <2>1. ~busy /\ UNCHANGED <<snap, busy>> /\ \E p \in Prompts : text' = Append(p, Greedy(p))
    BY <1>1, FreshOutcome DEF Fresh, Rpc
  <2>2. Promise!Ask
    BY <2>1, Zenon DEF Promise!Ask
  <2>3. QED
    BY <2>2, Zenon DEF Promise!Next
<1>2. CASE FollowUp
  <2>1. ~busy /\ UNCHANGED <<snap, busy>>
    BY <1>2 DEF FollowUp, Rpc
  <2>2. CASE text' = <<>>
    BY <1>a, <1>b, <2>1, <2>2, Zenon
  <2>3. CASE text' # <<>>
    <3>1. Promise!Add
      BY <1>2, <2>1, <2>3, FollowUpOutcome, Zenon DEF Promise!Add
    <3>2. QED
      BY <3>1, Zenon DEF Promise!Next
  <2>4. QED
    BY <2>2, <2>3
<1>3. CASE InterruptedPrefill
  <2>1. text' = <<>> /\ UNCHANGED <<snap, busy>>
    BY <1>3, Zenon DEF InterruptedPrefill, Interrupted
  <2>2. QED
    BY <1>a, <1>b, <2>1, Zenon
<1>4. CASE RefusedFollowUp
  BY <1>4, Zenon DEF RefusedFollowUp, Promise!vars
<1>5. CASE PrefillSnapshot
  <2>1. ~busy /\ UNCHANGED <<snap, busy>> /\ text' \in {BaseText, <<>>}
    BY <1>5 DEF PrefillSnapshot, Rpc, Held
  <2>2. CASE text' = <<>>
    BY <1>a, <1>b, <2>1, <2>2, Zenon
  <2>3. CASE text' = BaseText
    <3>1. busy' = FALSE
      BY <1>a, <2>1
    <3>2. Promise!Restart
      BY <2>1, <2>3, <3>1, Zenon DEF Promise!Restart
    <3>3. QED
      BY <3>2, Zenon DEF Promise!Next
  <2>4. QED
    BY <2>1, <2>2, <2>3
<1>6. CASE BeginGenerate
  <2>1. Promise!Begin
    BY <1>6, Zenon DEF BeginGenerate, Rpc, Promise!Begin
  <2>2. QED
    BY <2>1, Zenon DEF Promise!Next
<1>7. CASE SpecCycle \/ T1Cycle
  <2>1. busy /\ snap' = snap
    BY <1>7, Zenon DEF SpecCycle, T1Cycle
  <2>2. busy' \in BOOLEAN
    <3>1. TypeOK'
      BY TypeStep
    <3>2. QED
      BY <3>1 DEF TypeOK
  <2>3. CASE text' = <<>>
    BY <1>b, <2>1, <2>2, <2>3, Zenon
  <2>4. CASE text' # <<>>
    <3>1. text # <<>> /\ Promise!Continues(text, text')
      BY <1>7, <2>4, SpecCycleOutcome, T1CycleOutcome, Zenon
    <3>2. Promise!Reply
      BY <2>1, <2>2, <3>1, Zenon DEF Promise!Reply
    <3>3. QED
      BY <3>2, Zenon DEF Promise!Next
  <2>5. QED
    BY <2>3, <2>4
<1>8. CASE EndGenerate
  <2>1. Promise!End
    BY <1>8, Zenon DEF EndGenerate, Promise!End
  <2>2. QED
    BY <2>1, Zenon DEF Promise!Next
<1>9. CASE SnapshotSave
  <2>1. snap'.text = text
    BY <1>9 DEF SnapshotSave
  <2>2. ~busy /\ UNCHANGED <<text, busy>>
    BY <1>9 DEF SnapshotSave, Rpc
  <2>3. Promise!Save
    BY <2>1, <2>2, Zenon DEF Promise!Save
  <2>4. QED
    BY <2>3, Zenon DEF Promise!Next
<1>10. CASE SnapshotLoad
  <2>1. ~busy /\ UNCHANGED <<snap, busy>> /\ text' \in {snap.text, <<>>}
    BY <1>10 DEF SnapshotLoad, Rpc, Held
  <2>2. CASE text' = <<>>
    BY <1>a, <1>b, <2>1, <2>2, Zenon
  <2>3. CASE text' = snap.text
    <3>1. Promise!Load
      BY <2>1, <2>3, Zenon DEF Promise!Load
    <3>2. QED
      BY <3>1, Zenon DEF Promise!Next
  <2>4. QED
    BY <2>1, <2>2, <2>3
<1>11. CASE Reboot
  <2>1. Promise!Restart
    BY <1>11, Zenon DEF Reboot, Booted, Promise!Restart
  <2>2. QED
    BY <2>1, Zenon DEF Promise!Next
<1>12. CASE UNCHANGED vars
  BY <1>12, Zenon DEF vars, Promise!vars
<1>13. QED
  BY <1>1, <1>2, <1>3, <1>4, <1>5, <1>6, <1>7, <1>8, <1>9, <1>10, <1>11, <1>12
     DEF Next, Prefill, Generate

(* Speculative decoding is lossless for every model, draft length and      *)
(* context size: SpecDecode implements GreedyDecode.                       *)
THEOREM SpeculationIsLossless == Spec => Lossless
<1>1. Spec => Promise!Spec
  BY RefineInit, RefineStep, TypeCorrect, EpisodesFit, WorldsAgree, PTL
     DEF Spec, Promise!Spec
<1>2. QED
  BY <1>1 DEF Lossless
=============================================================================
