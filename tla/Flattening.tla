----------------------------- MODULE Flattening -----------------------------
(***************************************************************************)
(* Lemmas about FlattenSeq of the community modules, the concatenation of  *)
(* a sequence of sequences, with which Turn says what a stream's queue     *)
(* holds (Queued) and Batch what a purge leaves of pending (Keeps).        *)
(*                                                                         *)
(* What a recursive function computes needs induction.  The library's      *)
(* induction theorems take an operator; here induction is stated of a set  *)
(* instead, and follows from the well-foundedness of the strict subsets of *)
(* a finite set.                                                           *)
(***************************************************************************)
EXTENDS SequencesExt, SequenceTheorems, FiniteSetTheorems, WellFoundedInduction, TLAPS

(* Induction over the naturals, as a fact about a set of them.             *)
LEMMA NatSetInduction ==
  ASSUME NEW S, 0 \in S, \A n \in S \cap Nat : n + 1 \in S
  PROVE  Nat \subseteq S
<1> SUFFICES ASSUME NEW m \in Nat, m \notin S PROVE FALSE
  OBVIOUS
<1> DEFINE T == {1 .. n : n \in {k \in 0 .. m : k \notin S}}
<1>1. IsFiniteSet(1 .. m)
  BY FS_Interval
<1>2. FiniteSubsetsOf(1 .. m) = SUBSET (1 .. m)
  BY <1>1, FS_FiniteSubsetsOfFinite
<1>3. T \subseteq FiniteSubsetsOf(1 .. m) /\ T # {}
  <2>1. 1 .. m \in T OBVIOUS
  <2>2. \A n \in 0 .. m : 1 .. n \subseteq 1 .. m OBVIOUS
  <2> QED BY <1>2, <2>1, <2>2
<1>4. PICK x \in T : \A y \in T : <<y, x>> \notin StrictSubsetOrdering(1 .. m)
  BY <1>1, <1>3, FS_StrictSubsetOrderingWellFounded, WFMin, Zenon
<1>5. PICK n \in 0 .. m : n \notin S /\ x = 1 .. n
  OBVIOUS
<1>6. n # 0 /\ n - 1 \in 0 .. m /\ n - 1 + 1 = n
  BY <1>5
<1>7. n - 1 \notin S
  <2>1. n - 1 \in Nat BY <1>6
  <2> QED BY <1>5, <1>6, <2>1
<1>8. 1 .. (n - 1) \in T
  BY <1>6, <1>7
<1>9. 1 .. (n - 1) \subseteq 1 .. n /\ 1 .. (n - 1) # 1 .. n /\ 1 .. n \subseteq 1 .. m
  <2>1. n \in 1 .. n /\ n \notin 1 .. (n - 1) BY <1>5, <1>6
  <2> QED BY <2>1
<1>10. <<1 .. (n - 1), x>> \in StrictSubsetOrdering(1 .. m)
  BY <1>5, <1>9 DEF StrictSubsetOrdering
<1> QED
  BY <1>4, <1>8, <1>10

(* The recursive function behind FlattenSeq, up to the m-th sequence.      *)
Step(s, f, m) == f = [i \in 1 .. m |-> IF i = 1 THEN s[i] ELSE f[i - 1] \o s[i]]

(* Its values.                                                             *)
LEMMA StepAt ==
  ASSUME NEW s, NEW f, NEW m, Step(s, f, m)
  PROVE  \A i \in 1 .. m : f[i] = IF i = 1 THEN s[i] ELSE f[i - 1] \o s[i]
<1> SUFFICES ASSUME NEW i \in 1 .. m
             PROVE  f[i] = IF i = 1 THEN s[i] ELSE f[i - 1] \o s[i]
  OBVIOUS
<1>1. f[i] = [j \in 1 .. m |-> IF j = 1 THEN s[j] ELSE f[j - 1] \o s[j]][i]
  BY Zenon DEF Step
<1> QED BY <1>1, Zenon

(* There is one, for every m.                                              *)
LEMMA StepExists ==
  ASSUME NEW T, NEW s \in Seq(Seq(T))
  PROVE  \A m \in 0 .. Len(s) : \E f \in [1 .. m -> Seq(T)] : Step(s, f, m)
<1> DEFINE S == {m \in Nat : m <= Len(s) => \E f \in [1 .. m -> Seq(T)] : Step(s, f, m)}
<1>1. 0 \in S
  <2> DEFINE f == [i \in 1 .. 0 |-> << >>]
  <2>1. f \in [1 .. 0 -> Seq(T)] OBVIOUS
  <2>2. Step(s, f, 0) BY DEF Step
  <2> QED BY <2>1, <2>2
<1>2. ASSUME NEW n \in S \cap Nat PROVE n + 1 \in S
  <2> SUFFICES ASSUME n + 1 <= Len(s)
               PROVE  \E g \in [1 .. n + 1 -> Seq(T)] : Step(s, g, n + 1)
    OBVIOUS
  <2>0. Len(s) \in Nat OBVIOUS
  <2>1. PICK f \in [1 .. n -> Seq(T)] : Step(s, f, n)
    BY <2>0
  <2> DEFINE g == [i \in 1 .. n + 1 |-> IF i = 1 THEN s[i] ELSE f[i - 1] \o s[i]]
  <2>2. \A i \in 1 .. n + 1 : s[i] \in Seq(T)
    BY <2>0, ElementOfSeq
  <2>3. \A i \in 1 .. n + 1 : i # 1 => i - 1 \in 1 .. n
    OBVIOUS
  <2>4. g \in [1 .. n + 1 -> Seq(T)]
    <3>1. ASSUME NEW i \in 1 .. n + 1 PROVE g[i] \in Seq(T)
      <4>1. CASE i = 1 BY <2>2, <4>1
      <4>2. CASE i # 1
        <5>1. f[i - 1] \in Seq(T) BY <2>1, <2>3, <4>2
        <5> QED BY <2>2, <4>2, <5>1, ConcatProperties
      <4> QED BY <4>1, <4>2
    <3> QED BY <3>1
  <2>5. \A i \in 1 .. n : g[i] = f[i]
    <3> SUFFICES ASSUME NEW i \in 1 .. n PROVE g[i] = f[i]
      OBVIOUS
    <3>1. f[i] = IF i = 1 THEN s[i] ELSE f[i - 1] \o s[i]
      BY <2>1, StepAt, ZenonT(30)
    <3>2. i \in 1 .. n + 1 OBVIOUS
    <3> QED BY <3>1, <3>2
  <2>6. \A i \in 1 .. n + 1 : g[i] = IF i = 1 THEN s[i] ELSE g[i - 1] \o s[i]
    BY <2>3, <2>5
  <2>7. Step(s, g, n + 1)
    <3>1. g = [i \in 1 .. n + 1 |-> g[i]] OBVIOUS
    <3> HIDE DEF g
    <3> QED BY <2>6, <3>1, Zenon DEF Step
  <2> QED BY <2>4, <2>7
<1> HIDE DEF S
<1>3. Nat \subseteq S
  BY <1>1, <1>2, NatSetInduction
<1> QED BY <1>3 DEF S

(* And only one: a longer one goes on from it.                             *)
LEMMA StepUnique ==
  ASSUME NEW s, NEW m \in Nat, NEW n \in Nat, m <= n, NEW f, NEW g, Step(s, f, m), Step(s, g, n)
  PROVE  \A i \in 1 .. m : f[i] = g[i]
<1> DEFINE S == {i \in Nat : i \in 1 .. m => f[i] = g[i]}
<1>1. 0 \in S OBVIOUS
<1>2. ASSUME NEW i \in S \cap Nat PROVE i + 1 \in S
  <2> SUFFICES ASSUME i + 1 \in 1 .. m PROVE f[i + 1] = g[i + 1]
    OBVIOUS
  <2>1. /\ \A j \in 1 .. m : f[j] = IF j = 1 THEN s[j] ELSE f[j - 1] \o s[j]
        /\ \A j \in 1 .. n : g[j] = IF j = 1 THEN s[j] ELSE g[j - 1] \o s[j]
    BY StepAt
  <2>2. CASE i = 0 BY <2>1, <2>2
  <2>3. CASE i # 0
    <3>1. i + 1 - 1 = i /\ i \in 1 .. m /\ i + 1 # 1 BY <2>3
    <3>2. f[i] = g[i] BY <3>1
    <3>3. i + 1 \in 1 .. m /\ i + 1 \in 1 .. n OBVIOUS
    <3> QED BY <2>1, <3>1, <3>2, <3>3
  <2> QED BY <2>2, <2>3
<1> HIDE DEF S
<1>3. Nat \subseteq S
  BY <1>1, <1>2, NatSetInduction
<1> QED BY <1>3 DEF S

(* FlattenSeq is its last value.                                           *)
LEMMA FlattenIs ==
  ASSUME NEW T, NEW s \in Seq(Seq(T)), s # << >>
  PROVE  \E f \in [1 .. Len(s) -> Seq(T)] : Step(s, f, Len(s)) /\ FlattenSeq(s) = f[Len(s)]
<1> DEFINE G == CHOOSE f : Step(s, f, Len(s))
<1>1. Len(s) # 0 /\ Len(s) \in Nat OBVIOUS
<1>2. FlattenSeq(s) = G[Len(s)]
  BY <1>1, Zenon DEF FlattenSeq, Step
<1>3. PICK f \in [1 .. Len(s) -> Seq(T)] : Step(s, f, Len(s))
  <2>1. Len(s) \in 0 .. Len(s) BY <1>1
  <2> QED BY <2>1, StepExists
<1>4. Step(s, G, Len(s)) BY <1>3
<1> HIDE DEF G
<1>5. G = [i \in 1 .. Len(s) |-> G[i]]
  BY <1>4, Zenon DEF Step
<1>6. f = [i \in 1 .. Len(s) |-> f[i]] OBVIOUS
<1>7. \A i \in 1 .. Len(s) : G[i] = f[i]
  BY <1>1, <1>3, <1>4, StepUnique
<1>8. G[Len(s)] = f[Len(s)] BY <1>1, <1>7
<1> QED BY <1>2, <1>3, <1>8

(* One sequence is itself.                                                 *)
LEMMA FlattenOne ==
  ASSUME NEW T, NEW e \in Seq(T) PROVE FlattenSeq(<<e>>) = e
<1>1. <<e>> \in Seq(Seq(T)) /\ Len(<<e>>) = 1 /\ <<e>> # << >> OBVIOUS
<1>2. PICK f : Step(<<e>>, f, Len(<<e>>)) /\ FlattenSeq(<<e>>) = f[Len(<<e>>)]
  BY <1>1, FlattenIs, Zenon
<1>3. f = [i \in 1 .. 1 |-> IF i = 1 THEN <<e>>[i] ELSE f[i - 1] \o <<e>>[i]]
  BY <1>1, <1>2 DEF Step
<1>4. f[1] = [i \in 1 .. 1 |-> IF i = 1 THEN <<e>>[i] ELSE f[i - 1] \o <<e>>[i]][1]
  BY <1>3, Zenon
<1>5. f[1] = e BY <1>4
<1> QED BY <1>1, <1>2, <1>5

(* No sequences are the empty one.                                         *)
LEMMA FlattenNone == FlattenSeq(<< >>) = << >>
BY DEF FlattenSeq

(* The result is a sequence over the same elements.                        *)
LEMMA FlattenType ==
  ASSUME NEW T, NEW s \in Seq(Seq(T)) PROVE FlattenSeq(s) \in Seq(T)
<1>1. CASE s = << >>
  <2>1. FlattenSeq(s) = << >> BY <1>1, FlattenNone
  <2> QED BY <2>1
<1>2. CASE s # << >>
  <2>1. PICK f \in [1 .. Len(s) -> Seq(T)] : FlattenSeq(s) = f[Len(s)]
    BY <1>2, FlattenIs
  <2>2. Len(s) \in 1 .. Len(s) BY <1>2
  <2> QED BY <2>1, <2>2
<1> QED BY <1>1, <1>2

(* Appending a sequence appends its elements.                              *)
LEMMA FlattenAppend ==
  ASSUME NEW T, NEW s \in Seq(Seq(T)), NEW e \in Seq(T)
  PROVE  FlattenSeq(Append(s, e)) = FlattenSeq(s) \o e
<1> DEFINE u == Append(s, e)
           n == Len(s)
<1>1. CASE s = << >>
  <2>1. Append(s, e) = <<e>> BY <1>1
  <2>2. FlattenSeq(s) \o e = e BY <1>1, FlattenNone, ConcatEmptySeq
  <2> QED BY <2>1, <2>2, FlattenOne
<1>2. CASE s # << >>
  <2>1. /\ u \in Seq(Seq(T)) /\ u # << >> /\ Len(u) = n + 1 /\ n \in Nat /\ n # 0
        /\ u[n + 1] = e /\ \A i \in 1 .. n : u[i] = s[i]
    BY <1>2, AppendProperties
  <2>2. PICK f : Step(s, f, n) /\ FlattenSeq(s) = f[n]
    BY <1>2, FlattenIs, Zenon
  <2>3. PICK g : Step(u, g, n + 1) /\ FlattenSeq(u) = g[n + 1]
    BY <2>1, FlattenIs, Zenon
  <2> HIDE DEF u, n
  <2>4. Step(u, f, n)
    <3>1. [i \in 1 .. n |-> IF i = 1 THEN s[i] ELSE f[i - 1] \o s[i]]
          = [i \in 1 .. n |-> IF i = 1 THEN u[i] ELSE f[i - 1] \o u[i]]
      BY <2>1, Zenon
    <3> QED BY <2>2, <3>1, Zenon DEF Step
  <2>5. f[n] = g[n]
    <3>1. n \in 1 .. n /\ n + 1 \in Nat /\ n <= n + 1 BY <2>1
    <3>2. n \in Nat /\ Step(u, g, n + 1) BY <2>1, <2>3
    <3>3. \A i \in 1 .. n : f[i] = g[i] BY <2>4, <3>1, <3>2, StepUnique, SMT
    <3> QED BY <3>1, <3>3
  <2>6. g[n + 1] = g[n] \o u[n + 1]
    <3> DEFINE m == n + 1
    <3>1. m \in 1 .. n + 1 /\ m # 1 /\ m - 1 = n BY <2>1
    <3>2. \A k \in 1 .. n + 1 : g[k] = IF k = 1 THEN u[k] ELSE g[k - 1] \o u[k]
      BY <2>3, StepAt
    <3> HIDE DEF m
    <3>3. g[m] = g[n] \o u[m] BY <3>1, <3>2, Zenon
    <3> QED BY <3>3 DEF m
  <2> QED BY <2>1, <2>2, <2>3, <2>5, <2>6 DEF u
<1> QED BY <1>1, <1>2

(* Induction over sequences, as a fact about a set of them.                *)
LEMMA SeqSetInduction ==
  ASSUME NEW T, NEW S, << >> \in S, \A s \in S \cap Seq(T), e \in T : Append(s, e) \in S
  PROVE  Seq(T) \subseteq S
<1> DEFINE N == {n \in Nat : \A s \in Seq(T) : Len(s) = n => s \in S}
<1>1. 0 \in N
  <2>1. \A s \in Seq(T) : Len(s) = 0 => s = << >> OBVIOUS
  <2> QED BY <2>1
<1>2. ASSUME NEW n \in N \cap Nat PROVE n + 1 \in N
  <2> SUFFICES ASSUME NEW s \in Seq(T), Len(s) = n + 1 PROVE s \in S
    OBVIOUS
  <2>1. s # << >> OBVIOUS
  <2>2. PICK r \in Seq(T), e \in T : s = Append(r, e)
    BY <2>1, SequenceEmptyOrAppend
  <2>3. Len(r) = n BY <2>2, LenProperties, AppendProperties
  <2>4. r \in S BY <2>3
  <2> QED BY <2>2, <2>4
<1> HIDE DEF N
<1>3. Nat \subseteq N
  BY <1>1, <1>2, NatSetInduction
<1> QED BY <1>3, LenProperties DEF N

(* The first sequence comes first.                                         *)
LEMMA FlattenTail ==
  ASSUME NEW T, NEW s \in Seq(Seq(T)), s # << >>
  PROVE  FlattenSeq(s) = Head(s) \o FlattenSeq(Tail(s))
<1> DEFINE S == {u \in Seq(Seq(T)) : u # << >> => FlattenSeq(u) = Head(u) \o FlattenSeq(Tail(u))}
<1>1. << >> \in S OBVIOUS
<1>2. ASSUME NEW u \in S \cap Seq(Seq(T)), NEW e \in Seq(T) PROVE Append(u, e) \in S
  <2>1. Append(u, e) \in Seq(Seq(T)) /\ FlattenSeq(Append(u, e)) = FlattenSeq(u) \o e
    <3>1. u \in Seq(Seq(T)) OBVIOUS
    <3> HIDE DEF S
    <3>2. Append(u, e) \in Seq(Seq(T)) BY <3>1, AppendProperties, Zenon
    <3> QED BY <3>1, <3>2, FlattenAppend, Zenon
  <2>2. CASE u = << >>
    <3>1. Append(u, e) = <<e>> /\ Head(<<e>>) = e /\ Tail(<<e>>) = << >> BY <2>2
    <3>2. e \o << >> = e BY ConcatEmptySeq
    <3>3. FlattenSeq(Append(u, e)) = e BY <3>1, FlattenOne
    <3> QED BY <2>1, <3>1, <3>2, <3>3, FlattenNone
  <2>3. CASE u # << >>
    <3>1. /\ Head(Append(u, e)) = Head(u) /\ Tail(Append(u, e)) = Append(Tail(u), e)
          /\ Head(u) \in Seq(T) /\ Tail(u) \in Seq(Seq(T))
      BY <2>3
    <3>2. FlattenSeq(u) = Head(u) \o FlattenSeq(Tail(u)) BY <2>3
    <3>3. FlattenSeq(Append(Tail(u), e)) = FlattenSeq(Tail(u)) \o e BY <3>1, FlattenAppend
    <3>4. FlattenSeq(Tail(u)) \in Seq(T) BY <3>1, FlattenType
    <3>5. (Head(u) \o FlattenSeq(Tail(u))) \o e = Head(u) \o (FlattenSeq(Tail(u)) \o e)
      <4> DEFINE a == Head(u)
                 b == FlattenSeq(Tail(u))
      <4>1. a \in Seq(T) /\ b \in Seq(T) BY <3>1, <3>4
      <4> HIDE DEF a, b, S
      <4>2. (a \o b) \o e = a \o (b \o e) BY <4>1, ConcatAssociative, SMTT(60)
      <4> QED BY <4>2 DEF a, b
    <3> QED BY <2>1, <3>1, <3>2, <3>3, <3>5, Zenon
  <2> QED BY <2>2, <2>3
<1> HIDE DEF S
<1>3. Seq(Seq(T)) \subseteq S
  BY <1>1, <1>2, SeqSetInduction
<1> QED BY <1>3 DEF S

(* Every element comes from one of the sequences.                          *)
LEMMA FlattenRange ==
  ASSUME NEW T, NEW s \in Seq(Seq(T)), NEW j \in 1 .. Len(FlattenSeq(s))
  PROVE  \E i \in 1 .. Len(s) : \E h \in 1 .. Len(s[i]) : FlattenSeq(s)[j] = s[i][h]
<1> DEFINE From(u, x) == \E i \in 1 .. Len(u) : \E h \in 1 .. Len(u[i]) : x = u[i][h]
           S == {u \in Seq(Seq(T)) : \A k \in 1 .. Len(FlattenSeq(u)) : From(u, FlattenSeq(u)[k])}
<1>1. << >> \in S
  <2>1. Len(FlattenSeq(<< >>)) = 0 BY FlattenNone
  <2> QED BY <2>1
<1>2. ASSUME NEW u \in S \cap Seq(Seq(T)), NEW e \in Seq(T) PROVE Append(u, e) \in S
  <2> DEFINE v == Append(u, e)
  <2>1. /\ v \in Seq(Seq(T)) /\ Len(v) = Len(u) + 1 /\ Len(u) \in Nat
        /\ v[Len(u) + 1] = e /\ \A i \in 1 .. Len(u) : v[i] = u[i]
    BY AppendProperties
  <2>2. FlattenSeq(v) = FlattenSeq(u) \o e BY FlattenAppend
  <2>3. FlattenSeq(u) \in Seq(T) BY FlattenType
  <2> SUFFICES ASSUME NEW k \in 1 .. Len(FlattenSeq(v)) PROVE From(v, FlattenSeq(v)[k])
    BY <2>1
  <2> HIDE DEF v
  <2> DEFINE n == Len(FlattenSeq(u))
  <2>4. n \in Nat /\ Len(e) \in Nat BY <2>3, LenProperties
  <2>5. CASE k <= n
    <3>1. k \in 1 .. n /\ FlattenSeq(v)[k] = FlattenSeq(u)[k]
      BY <2>2, <2>3, <2>4, <2>5, ConcatProperties
    <3>2. From(u, FlattenSeq(u)[k]) BY <3>1
    <3>3. \A i \in 1 .. Len(u) : i \in 1 .. Len(v) BY <2>1
    <3> QED BY <2>1, <3>1, <3>2, <3>3, Zenon
  <2>6. CASE k > n
    <3>1. k - n \in 1 .. Len(e) /\ FlattenSeq(v)[k] = e[k - n]
      BY <2>2, <2>3, <2>4, <2>6, ConcatProperties
    <3>2. Len(u) + 1 \in 1 .. Len(v) BY <2>1
    <3> QED BY <2>1, <3>1, <3>2, Zenon
  <2> QED BY <2>4, <2>5, <2>6
<1> HIDE DEF S
<1>3. Seq(Seq(T)) \subseteq S
  BY <1>1, <1>2, SeqSetInduction
<1> QED BY <1>3 DEF S

(* No element occurs twice, in one sequence or in two.                     *)
Distinct(s) ==
  \A i, j \in 1 .. Len(s) : \A h \in 1 .. Len(s[i]), k \in 1 .. Len(s[j]) :
    s[i][h] = s[j][k] => i = j /\ h = k

(* Then none occurs twice in the result.                                   *)
LEMMA FlattenInjective ==
  ASSUME NEW T, NEW s \in Seq(Seq(T)), Distinct(s)
  PROVE  \A p, q \in 1 .. Len(FlattenSeq(s)) : FlattenSeq(s)[p] = FlattenSeq(s)[q] => p = q
<1> DEFINE Once(r) == \A p, q \in 1 .. Len(r) : r[p] = r[q] => p = q
           S == {u \in Seq(Seq(T)) : Distinct(u) => Once(FlattenSeq(u))}
<1>1. << >> \in S
  <2>1. Len(FlattenSeq(<< >>)) = 0 BY FlattenNone
  <2> QED BY <2>1
<1>2. ASSUME NEW u \in S \cap Seq(Seq(T)), NEW e \in Seq(T) PROVE Append(u, e) \in S
  <2> DEFINE v == Append(u, e)
  <2>1. /\ v \in Seq(Seq(T)) /\ Len(v) = Len(u) + 1 /\ Len(u) \in Nat
        /\ v[Len(u) + 1] = e /\ \A i \in 1 .. Len(u) : v[i] = u[i]
    BY AppendProperties
  <2>2. FlattenSeq(v) = FlattenSeq(u) \o e BY FlattenAppend
  <2>3. FlattenSeq(u) \in Seq(T) BY FlattenType
  <2> SUFFICES ASSUME Distinct(v) PROVE Once(FlattenSeq(v))
    BY <2>1
  <2> HIDE DEF v
  <2> DEFINE l == Len(u)
             z == l + 1
             n == Len(FlattenSeq(u))
  <2>4. /\ n \in Nat /\ Len(e) \in Nat /\ z \in 1 .. Len(v)
        /\ \A i \in 1 .. l : i \in 1 .. Len(v) /\ i # z
    BY <2>1, <2>3, LenProperties
  <2>5. \A i \in 1 .. l : v[i] = u[i] BY <2>1
  <2>6. v[z] = e BY <2>1
  <2> HIDE DEF l, z
  <2>d. \A a, b \in 1 .. Len(v) : \A h \in 1 .. Len(v[a]), k \in 1 .. Len(v[b]) :
          v[a][h] = v[b][k] => a = b /\ h = k
    BY Zenon DEF Distinct
  <2>7. \A h, k \in 1 .. Len(e) : e[h] = e[k] => h = k
    BY <2>4, <2>6, <2>d, Zenon
  <2>8. ASSUME NEW i \in 1 .. l, NEW h \in 1 .. Len(u[i]), NEW k \in 1 .. Len(e), u[i][h] = e[k]
        PROVE  FALSE
    <3>1. /\ i \in 1 .. Len(v) /\ i # z /\ h \in 1 .. Len(v[i]) /\ k \in 1 .. Len(v[z])
          /\ v[i][h] = v[z][k]
      BY <2>4, <2>5, <2>6, <2>8
    <3> QED BY <2>4, <2>d, <3>1, Zenon
  <2>9. Distinct(u)
    <3> SUFFICES ASSUME NEW i \in 1 .. l, NEW j \in 1 .. l, NEW h \in 1 .. Len(u[i]),
                        NEW k \in 1 .. Len(u[j]), u[i][h] = u[j][k]
                 PROVE  i = j /\ h = k
      BY Zenon DEF Distinct, l
    <3>1. /\ i \in 1 .. Len(v) /\ j \in 1 .. Len(v)
          /\ h \in 1 .. Len(v[i]) /\ k \in 1 .. Len(v[j]) /\ v[i][h] = v[j][k]
      BY <2>4, <2>5
    <3> QED BY <2>d, <3>1, ZenonT(30)
  <2>10. Once(FlattenSeq(u)) BY <2>9
  <2>11. ASSUME NEW j \in 1 .. n, NEW k \in 1 .. Len(e), FlattenSeq(u)[j] = e[k]
         PROVE  FALSE
    <3>1. \E i \in 1 .. Len(u) : \E h \in 1 .. Len(u[i]) : FlattenSeq(u)[j] = u[i][h]
      BY FlattenRange
    <3> QED BY <2>8, <2>11, <3>1 DEF l
  <2> SUFFICES ASSUME NEW p \in 1 .. Len(FlattenSeq(v)), NEW q \in 1 .. Len(FlattenSeq(v)),
                      FlattenSeq(v)[p] = FlattenSeq(v)[q]
               PROVE  p = q
    OBVIOUS
  <2>12. \A j \in 1 .. Len(FlattenSeq(v)) :
           \/ j \in 1 .. n /\ FlattenSeq(v)[j] = FlattenSeq(u)[j]
           \/ j - n \in 1 .. Len(e) /\ FlattenSeq(v)[j] = e[j - n]
    BY <2>2, <2>3, <2>4, ConcatProperties
  <2>13. CASE p \in 1 .. n /\ q \in 1 .. n /\ FlattenSeq(v)[p] = FlattenSeq(u)[p]
                           /\ FlattenSeq(v)[q] = FlattenSeq(u)[q]
    BY <2>10, <2>13
  <2>14. CASE p - n \in 1 .. Len(e) /\ q - n \in 1 .. Len(e) /\ FlattenSeq(v)[p] = e[p - n]
                           /\ FlattenSeq(v)[q] = e[q - n]
    <3>1. p - n = q - n BY <2>7, <2>14
    <3> QED BY <2>4, <3>1
  <2> QED BY <2>11, <2>12, <2>13, <2>14
<1> HIDE DEF S
<1>3. Seq(Seq(T)) \subseteq S
  BY <1>1, <1>2, SeqSetInduction
<1> QED BY <1>3 DEF S
=============================================================================
