--------------------------- MODULE AdmissionProofs ---------------------------
(***************************************************************************)
(* Proofs about Admission, for every set of requests and conversations and *)
(* every value of the bounds.  The argument: a permit is counted in        *)
(* QSTATE["active"] exactly while a request holds it, up to the releases   *)
(* made without a permit (Balanced); and what a request holds follows from *)
(* where its task stands (Coupled).                                        *)
(***************************************************************************)
EXTENDS Admission, FiniteSetTheorems, WellFoundedInduction, TLAPS

QType == [active : Nat, place : [Reqs -> Nat], grant : [Reqs -> Grants]]

(* The counter a against the grants g, with k releases without a permit.   *)
Balanced(a, g, k) ==
  /\ a <= Cardinality(Held(g))
  /\ Cardinality(Held(g)) <= a + k
  /\ a <= MaxPermits

(* A request waits for a grant only while its task is parked, and holds    *)
(* one from admission to release: grant g fits a task at place x.          *)
Fits(x, g) ==
  /\ x \in {"idle", "refused"} => g = "none"
  /\ x = "queued" => g \in {"pending", "held"}
  /\ x = "cancelling" => g \in {"cancelled", "held"}
  /\ x \in {"admitted", "haslock", "lockwait", "lockwoken"} \cup ConvHeld => g = "held"
  /\ x \in {"done", "released"} => g \in {"cancelled", "returned"}

Coupled == \A r \in Reqs : Fits(pc[r], grant[r])

IInv ==
  /\ TypeOK
  /\ permits \in 1 .. MaxPermits
  /\ Coupled
  /\ Balanced(active, grant, spurious)
  /\ NoStrandedWaiter

----------------------------------------------------------------------------
(* Lemmas about deques.                                                    *)

(* A set of members of a deque has a front.                                *)
LEMMA FrontExists ==
  ASSUME NEW p \in [Reqs -> Nat], NEW S \in SUBSET Reqs, S # {}
  PROVE  Front(p, S) \in S /\ \A s \in S : p[Front(p, S)] <= p[s]
<1> DEFINE T == {p[s] : s \in S}
<1>1. T \in SUBSET Nat /\ T # {}
  OBVIOUS
<1>2. IsWellFoundedOn(OpToRel(<, Nat), Nat)
  BY NatLessThanWellFounded
<1>3. PICK n \in T : \A m \in T : ~(<<m, n>> \in OpToRel(<, Nat))
  <2> HIDE DEF T
  <2> QED BY <1>1, <1>2, WFMin
<1>4. \A m \in T : n <= m
  <2> HIDE DEF T
  <2> SUFFICES ASSUME NEW m \in T, m < n PROVE FALSE
    BY <1>1
  <2>1. <<m, n>> \in Nat \X Nat /\ <<m, n>>[1] < <<m, n>>[2]
    BY <1>1
  <2>2. <<m, n>> \in OpToRel(<, Nat)
    BY <2>1, Zenon DEF OpToRel
  <2> QED BY <1>3, <2>2
<1>5. \E r \in S : \A s \in S : p[r] <= p[s]
  BY <1>3, <1>4
<1> QED
  BY <1>5 DEF Front

(* What is left of a deque is in it, and nothing else is.                  *)
LEMMA CompactType ==
  ASSUME NEW p \in [Reqs -> Nat], NEW K \in SUBSET Reqs
  PROVE  /\ Compact(p, K) \in [Reqs -> Nat]
         /\ InDeque(Compact(p, K)) = K
<1> USE ReqsFinite
<1>1. ASSUME NEW r \in K
      PROVE  Cardinality({s \in K : p[s] <= p[r]}) \in Nat \ {0}
  <2> DEFINE B == {s \in K : p[s] <= p[r]}
  <2>1. IsFiniteSet(B) /\ r \in B
    BY FS_Subset
  <2> HIDE DEF B
  <2>2. Cardinality(B) \in Nat /\ Cardinality(B) # 0
    BY <2>1, FS_CardinalityType, FS_EmptySet
  <2> QED
    BY <2>2 DEF B
<1> QED
  BY <1>1 DEF Compact, InDeque

(* Compaction keeps the order of what it keeps, within their number.       *)
LEMMA CompactOrder ==
  ASSUME NEW p \in [Reqs -> Nat], NEW W \in SUBSET Reqs
  PROVE  /\ \A s \in W : Compact(p, W)[s] \in 1 .. Cardinality(W)
         /\ \A s, t \in W : p[s] < p[t] => Compact(p, W)[s] < Compact(p, W)[t]
<1> DEFINE B(s) == {u \in W : p[u] <= p[s]}
<1>1. IsFiniteSet(W) BY ReqsFinite, FS_Subset
<1>2. \A s \in W : Compact(p, W)[s] = Cardinality(B(s)) BY DEF Compact
<1>3. ASSUME NEW s \in W
      PROVE  Cardinality(B(s)) \in 1 .. Cardinality(W)
  <2>1. B(s) \in SUBSET W /\ s \in B(s) OBVIOUS
  <2> HIDE DEF B
  <2>2. IsFiniteSet(B(s)) /\ Cardinality(B(s)) <= Cardinality(W)
    BY <1>1, <2>1, FS_Subset
  <2>3. Cardinality(B(s)) \in Nat /\ Cardinality(W) \in Nat /\ Cardinality(B(s)) # 0
    BY <1>1, <2>1, <2>2, FS_CardinalityType, FS_EmptySet
  <2>q. QED BY <2>2, <2>3
<1>4. ASSUME NEW s \in W, NEW t \in W, p[s] < p[t]
      PROVE  Cardinality(B(s)) < Cardinality(B(t))
  <2>1. B(s) \in SUBSET B(t) /\ t \in B(t) /\ t \notin B(s) /\ B(t) \in SUBSET W
    BY <1>4
  <2> HIDE DEF B
  <2>2. IsFiniteSet(B(t)) BY <1>1, <2>1, FS_Subset
  <2>3. Cardinality(B(s)) <= Cardinality(B(t)) /\ Cardinality(B(s)) # Cardinality(B(t))
    BY <2>1, <2>2, FS_Subset
  <2>q. QED BY <1>3, <2>3
<1>5. \A s \in W : Compact(p, W)[s] \in 1 .. Cardinality(W)
  <2> HIDE DEF B
  <2>q. QED BY <1>2, <1>3
<1>6. \A s, t \in W : p[s] < p[t] => Compact(p, W)[s] < Compact(p, W)[t]
  <2> HIDE DEF B
  <2>q. QED BY <1>2, <1>4
<1>q. QED BY <1>5, <1>6

----------------------------------------------------------------------------
(* Lemmas about the permit queue.                                          *)

LEMMA QTyped == TypeOK => Q \in QType
BY DEF TypeOK, Q, QType

(* Giving a request that holds nothing a permit, and taking one back.      *)
LEMMA HeldAdd ==
  ASSUME NEW g \in [Reqs -> Grants], NEW r \in Reqs, g[r] # "held"
  PROVE  Cardinality(Held([g EXCEPT ![r] = "held"])) = Cardinality(Held(g)) + 1
<1>1. Held([g EXCEPT ![r] = "held"]) = Held(g) \cup {r} /\ r \notin Held(g)
  BY DEF Held
<1>2. IsFiniteSet(Held(g))
  BY ReqsFinite, FS_Subset DEF Held
<1> QED
  BY <1>1, <1>2, FS_AddElement

LEMMA HeldRemove ==
  ASSUME NEW g \in [Reqs -> Grants], NEW r \in Reqs, g[r] = "held",
         NEW v \in Grants, v # "held"
  PROVE  Cardinality(Held([g EXCEPT ![r] = v])) = Cardinality(Held(g)) - 1
<1>1. Held([g EXCEPT ![r] = v]) = Held(g) \ {r} /\ r \in Held(g)
  BY DEF Held
<1>2. IsFiniteSet(Held(g))
  BY ReqsFinite, FS_Subset DEF Held
<1> QED
  BY <1>1, <1>2, FS_RemoveElement

LEMMA HeldCount ==
  ASSUME NEW g \in [Reqs -> Grants]
  PROVE  /\ Cardinality(Held(g)) \in Nat
         /\ \A r \in Reqs : g[r] = "held" => Cardinality(Held(g)) > 0
<1>1. IsFiniteSet(Held(g))
  BY ReqsFinite, FS_Subset DEF Held
<1>2. Cardinality(Held(g)) \in Nat
  BY <1>1, FS_CardinalityType
<1>3. ASSUME NEW r \in Reqs, g[r] = "held" PROVE Held(g) # {}
  BY <1>3 DEF Held
<1> QED
  BY <1>1, <1>2, <1>3, FS_EmptySet

(* The only change of grants that q_promote makes: a pending one is held.  *)
Grows(g, h) == \A s \in Reqs : h[s] # g[s] => g[s] = "pending" /\ h[s] = "held"

(* Promotion changes nothing but the deque, or grants one pending request. *)
LEMMA PromoteEffect ==
  ASSUME NEW q \in QType, permits \in Nat
  PROVE  /\ Promote(q) \in QType
         /\ \/ Promote(q).active = q.active /\ Promote(q).grant = q.grant
            \/ /\ q.active < permits
               /\ Promote(q).active = q.active + 1
               /\ \E s \in Reqs : /\ q.grant[s] = "pending"
                                  /\ Promote(q).grant = [q.grant EXCEPT ![s] = "held"]
         /\ permits > 0 /\ Pending(Promote(q)) # {} => Promote(q).active > 0
<1>1. CASE q.active >= permits
  BY <1>1 DEF Promote, QType
<1>2. CASE q.active < permits /\ Pending(q) = {}
  <2>1. Promote(q) = [q EXCEPT !.place = [r \in Reqs |-> 0]]
    BY <1>2 DEF Promote, QType
  <2>2. Pending(Promote(q)) = {}
    BY <2>1 DEF Pending, InDeque, QType
  <2> QED
    BY <2>1, <2>2 DEF QType
<1>3. CASE q.active < permits /\ Pending(q) # {}
  <2> DEFINE r == Front(q.place, Pending(q))
             K == {s \in InDeque(q.place) : q.place[s] > q.place[r]}
  <2>1. r \in Pending(q)
    BY <1>3, FrontExists DEF Pending, InDeque, QType
  <2>2. r \in Reqs /\ q.grant[r] = "pending"
    BY <2>1 DEF Pending, InDeque
  <2>3. Promote(q) = [active |-> q.active + 1, place |-> Compact(q.place, K),
                      grant |-> [q.grant EXCEPT ![r] = "held"]]
    BY <1>3 DEF Promote, QType
  <2>4. Compact(q.place, K) \in [Reqs -> Nat]
    BY CompactType DEF InDeque, QType
  <2> HIDE DEF r, K
  <2> QED
    BY <1>3, <2>2, <2>3, <2>4 DEF QType, Grants
<1> QED
  BY <1>1, <1>2, <1>3 DEF QType

LEMMA PromoteGrows ==
  ASSUME NEW q \in QType, permits \in Nat
  PROVE  Grows(q.grant, Promote(q).grant)
<1>1. q.grant \in [Reqs -> Grants]
  BY DEF QType
<1>2. ASSUME NEW s \in Reqs, q.grant[s] = "pending",
             Promote(q).grant = [q.grant EXCEPT ![s] = "held"]
      PROVE  Grows(q.grant, Promote(q).grant)
  BY <1>1, <1>2 DEF Grows
<1>3. CASE Promote(q).grant = q.grant
  BY <1>3 DEF Grows
<1> QED
  BY <1>2, <1>3, PromoteEffect

(* Promotion keeps the balance.                                            *)
LEMMA PromoteBalanced ==
  ASSUME NEW q \in QType, NEW k \in Nat, permits \in 1 .. MaxPermits,
         Balanced(q.active, q.grant, k)
  PROVE  Balanced(Promote(q).active, Promote(q).grant, k)
<1>1. CASE Promote(q).active = q.active /\ Promote(q).grant = q.grant
  BY <1>1
<1>2. ASSUME q.active < permits, Promote(q).active = q.active + 1,
             NEW s \in Reqs, q.grant[s] = "pending",
             Promote(q).grant = [q.grant EXCEPT ![s] = "held"]
      PROVE  Balanced(Promote(q).active, Promote(q).grant, k)
  <2>1. Cardinality(Held(Promote(q).grant)) = Cardinality(Held(q.grant)) + 1
    BY <1>2, HeldAdd DEF QType
  <2>2. Cardinality(Held(q.grant)) \in Nat /\ q.active \in Nat
    BY HeldCount DEF QType
  <2> QED
    BY <1>2, <2>1, <2>2, PermitsAssumption DEF Balanced
<1>3. permits \in Nat
  BY PermitsAssumption
<1> QED
  BY <1>1, <1>2, <1>3, PromoteEffect

(* The first step of q_release: the counter goes down, not below zero.     *)
Floor(a) == IF a > 0 THEN a - 1 ELSE 0

LEMMA DecrementedType ==
  ASSUME NEW q \in QType
  PROVE  /\ [q EXCEPT !.active = Floor(@)] \in QType
         /\ [q EXCEPT !.active = Floor(@)].active = Floor(q.active)
         /\ [q EXCEPT !.active = Floor(@)].grant = q.grant
         /\ Release(q) = Promote([q EXCEPT !.active = Floor(@)])
<1>1. q.active \in Nat
  BY DEF QType
<1>2. Floor(q.active) \in Nat
  BY <1>1 DEF Floor
<1>3. Release(q) = Promote([q EXCEPT !.active = Floor(@)])
  BY DEF Release, Floor
<1> HIDE DEF Floor
<1> QED
  BY <1>2, <1>3 DEF QType

(* q_release without a permit costs one more unaccounted holder.           *)
LEMMA ReleaseSpurious ==
  ASSUME NEW q \in QType, NEW k \in Nat, permits \in 1 .. MaxPermits,
         Balanced(q.active, q.grant, k)
  PROVE  /\ Release(q) \in QType
         /\ Balanced(Release(q).active, Release(q).grant, k + 1)
         /\ Pending(Release(q)) # {} => Release(q).active > 0
         /\ Grows(q.grant, Release(q).grant)
<1>0. permits \in Nat /\ permits > 0
  BY PermitsAssumption
<1>1. PICK d \in QType : /\ Release(q) = Promote(d)
                         /\ d.active = Floor(q.active) /\ d.grant = q.grant
  BY DecrementedType
<1>2. Cardinality(Held(q.grant)) \in Nat /\ q.active \in Nat
  BY HeldCount DEF QType
<1>3. Balanced(d.active, d.grant, k + 1)
  BY <1>1, <1>2, PermitsAssumption DEF Balanced, Floor
<1>4. Balanced(Promote(d).active, Promote(d).grant, k + 1)
  BY <1>3, PromoteBalanced
<1> QED
  BY <1>0, <1>1, <1>4, PromoteEffect, PromoteGrows

(* q_release by a holder keeps the balance.                                *)
LEMMA ReleaseOfBalanced ==
  ASSUME NEW q \in QType, NEW k \in Nat, permits \in 1 .. MaxPermits,
         Balanced(q.active, q.grant, k), NEW r \in Reqs, q.grant[r] = "held"
  PROVE  /\ ReleaseOf(q, r) \in QType
         /\ Balanced(ReleaseOf(q, r).active, ReleaseOf(q, r).grant, k)
         /\ Pending(ReleaseOf(q, r)) # {} => ReleaseOf(q, r).active > 0
         /\ ReleaseOf(q, r).grant[r] = "returned"
         /\ Grows([q.grant EXCEPT ![r] = "returned"], ReleaseOf(q, r).grant)
<1> DEFINE g == [q.grant EXCEPT ![r] = "returned"]
<1>0. permits \in Nat /\ permits > 0
  BY PermitsAssumption
<1>1. q.grant \in [Reqs -> Grants] /\ g \in [Reqs -> Grants] /\ g[r] = "returned"
  BY DEF QType, Grants
<1>2. [q EXCEPT !.grant[r] = "returned"] \in QType
  BY DEF QType, Grants
<1>3. /\ [q EXCEPT !.grant[r] = "returned"].grant = g
      /\ [q EXCEPT !.grant[r] = "returned"].active = q.active
  BY DEF QType
<1>4. PICK d \in QType : /\ ReleaseOf(q, r) = Promote(d)
                         /\ d.active = Floor(q.active) /\ d.grant = g
  BY <1>2, <1>3, DecrementedType DEF ReleaseOf
<1>5. Cardinality(Held(g)) = Cardinality(Held(q.grant)) - 1
  BY <1>1, HeldRemove DEF Grants
<1>6. Cardinality(Held(q.grant)) \in Nat \ {0} /\ q.active \in Nat
  BY HeldCount DEF QType
<1> HIDE DEF g
<1>7. Balanced(d.active, d.grant, k)
  BY <1>4, <1>5, <1>6, PermitsAssumption DEF Balanced, Floor
<1>8. Balanced(Promote(d).active, Promote(d).grant, k)
  BY <1>7, PromoteBalanced
<1>9. Promote(d) \in QType /\ (Pending(Promote(d)) # {} => Promote(d).active > 0)
  BY <1>0, PromoteEffect
<1>10. Grows(g, Promote(d).grant)
  BY <1>0, <1>4, PromoteGrows
<1>11. Promote(d).grant[r] = "returned"
  BY <1>1, <1>10 DEF Grows
<1> QED
  BY <1>4, <1>8, <1>9, <1>10, <1>11 DEF g

(* Pruning keeps exactly the live waiters.                                 *)
LEMMA PruneEffect ==
  ASSUME NEW q \in QType
  PROVE  /\ Prune(q) \in QType
         /\ Prune(q).active = q.active /\ Prune(q).grant = q.grant
         /\ InDeque(Prune(q).place) = Pending(q)
         /\ Pending(Prune(q)) = Pending(q)
<1>1. Pending(q) \in SUBSET Reqs
  BY DEF Pending, InDeque
<1>2. /\ Compact(q.place, Pending(q)) \in [Reqs -> Nat]
      /\ InDeque(Compact(q.place, Pending(q))) = Pending(q)
  BY <1>1, CompactType DEF QType
<1> QED
  BY <1>1, <1>2 DEF Prune, QType, Pending

----------------------------------------------------------------------------
(* Lemmas about the locks: they only move tasks between lock states.       *)

LEMMA WakeEffect ==
  ASSUME NEW f \in [Reqs -> Places], NEW W \in SUBSET Reqs, TypeOK
  PROVE  /\ Wake(f, W) \in [Reqs -> Places]
         /\ \A s \in Reqs : \/ Wake(f, W)[s] = f[s]
                            \/ f[s] = "lockwait" /\ Wake(f, W)[s] = "lockwoken"
<1>1. CASE W = {}
  BY <1>1 DEF Wake
<1>2. CASE W # {}
  <2> DEFINE r == Front(lplace, W)
  <2>1. r \in Reqs
    BY <1>2, FrontExists DEF TypeOK
  <2> HIDE DEF r
  <2>2. Wake(f, W) = IF f[r] = "lockwait" THEN [f EXCEPT ![r] = "lockwoken"] ELSE f
    BY <1>2 DEF Wake, r
  <2> QED
    BY <2>1, <2>2 DEF Places
<1> QED
  BY <1>1, <1>2

LEMMA LeaveType ==
  ASSUME NEW r \in Reqs, TypeOK
  PROVE  LeaveLockDeque(r) \in [Reqs -> Nat]
<1>1. Compact(lplace, WaitersOf(lk[r]) \ {r}) \in [Reqs -> Nat]
  BY CompactType DEF WaitersOf, TypeOK
<1> QED
  BY <1>1 DEF LeaveLockDeque, TypeOK

(* The tasks other than r stay where they are, up to a wake-up.            *)
OnlyMoves(r) ==
  \A s \in Reqs \ {r} : \/ pc'[s] = pc[s]
                        \/ pc[s] = "lockwait" /\ pc'[s] = "lockwoken"

LEMMA UnlockEffect ==
  ASSUME NEW r \in Reqs, NEW next \in Places, next # "lockwait", TypeOK,
         UnlockAndGo(r, next)
  PROVE  /\ locked' \in [Reqs -> BOOLEAN]
         /\ pc' \in [Reqs -> Places]
         /\ pc'[r] = next
         /\ OnlyMoves(r)
<1> DEFINE f == [pc EXCEPT ![r] = next]
<1>1. f \in [Reqs -> Places] /\ f[r] = next /\ \A s \in Reqs \ {r} : f[s] = pc[s]
  BY DEF TypeOK
<1>2. pc' = Wake(f, WaitersOf(lk[r])) /\ WaitersOf(lk[r]) \in SUBSET Reqs
  BY DEF UnlockAndGo, WaitersOf
<1>3. locked' \in [Reqs -> BOOLEAN]
  BY DEF UnlockAndGo, TypeOK
<1> HIDE DEF f
<1> QED
  BY <1>1, <1>2, <1>3, WakeEffect DEF OnlyMoves

----------------------------------------------------------------------------
(* What a task holds, after a step of the queue.                           *)

LEMMA CoupledGrows ==
  ASSUME TypeOK, Coupled, UNCHANGED pc, Grows(grant, grant')
  PROVE  Coupled'
BY DEF TypeOK, Coupled, Fits, Grows, Places, Grants, ConvHeld

LEMMA CoupledRelease ==
  ASSUME TypeOK, Coupled, NEW r \in Reqs, OnlyMoves(r),
         pc'[r] \in {"done", "released"}, grant'[r] = "returned",
         Grows([grant EXCEPT ![r] = "returned"], grant')
  PROVE  Coupled'
<1> SUFFICES ASSUME NEW s \in Reqs PROVE Fits(pc'[s], grant'[s])
  BY DEF Coupled
<1>1. CASE s = r
  BY <1>1 DEF Fits, ConvHeld
<1>2. CASE s # r
  <2>1. grant'[s] = grant[s] \/ (grant[s] = "pending" /\ grant'[s] = "held")
    BY <1>2 DEF Grows, TypeOK
  <2>2. grant[s] = "pending" => pc[s] = "queued"
    BY DEF Coupled, Fits, TypeOK, Places, ConvHeld
  <2> QED
    BY <1>2, <2>1, <2>2 DEF OnlyMoves, Coupled, Fits, ConvHeld
<1> QED
  BY <1>1, <1>2

(* The parts of the invariant after a step that sets the queue to q.       *)
LEMMA SetQInv ==
  ASSUME NEW q \in QType, SetQ(q), TypeOK', permits' \in 1 .. MaxPermits, Coupled',
         Balanced(q.active, q.grant, spurious'),
         Pending(q) # {} => q.active > 0
  PROVE  IInv'
<1>1. Q' = q
  BY DEF Q, SetQ, QType
<1>2. Pending(Q)' = Pending(Q')
  BY DEF Pending, InDeque
<1>3. NoStrandedWaiter'
  BY <1>1, <1>2 DEF NoStrandedWaiter, SetQ
<1>4. Balanced(active, grant, spurious)'
  BY DEF SetQ, Balanced, Held
<1> QED
  BY <1>3, <1>4 DEF IInv

(* ... and after a step that leaves the queue alone.                       *)
LEMMA SameQInv ==
  ASSUME IInv, UNCHANGED <<qvars, permits, spurious>>, TypeOK', Coupled'
  PROVE  IInv'
<1>1. Q \in QType
  BY QTyped DEF IInv
<1>2. SetQ(Q)
  BY DEF SetQ, Q, qvars
<1>3. Q.active = active /\ Q.grant = grant
  BY DEF Q
<1> QED
  BY <1>1, <1>2, <1>3, SetQInv DEF IInv, NoStrandedWaiter

(* A holder of a permit that releases it and nothing more.                 *)
LEMMA ReleaseInv ==
  ASSUME IInv, NEW r \in Reqs, grant[r] = "held", SetQ(ReleaseOf(Q, r)),
         UNCHANGED <<permits, spurious>>, OnlyMoves(r),
         pc'[r] \in {"done", "released"},
         \* the variables the queue does not own have their types
         pc' \in [Reqs -> Places], registry' \in [Convs -> Reqs \cup {NoLock}],
         lk' \in [Reqs -> Reqs \cup {NoLock}], locked' \in [Reqs -> BOOLEAN],
         lplace' \in [Reqs -> Nat], sess' \in [Reqs -> {"none", "run", "end"}],
         UNCHANGED wdvars
  PROVE  IInv'
<1> DEFINE q == ReleaseOf(Q, r)
<1>1. Q \in QType /\ Q.active = active /\ Q.grant = grant
  BY QTyped DEF IInv, Q
<1>2. /\ q \in QType
      /\ Balanced(q.active, q.grant, spurious)
      /\ Pending(q) # {} => q.active > 0
      /\ q.grant[r] = "returned"
      /\ Grows([grant EXCEPT ![r] = "returned"], q.grant)
  BY <1>1, ReleaseOfBalanced DEF IInv, TypeOK
<1> HIDE DEF q
<1>3. SetQ(q)
  BY DEF q
<1>4. Coupled'
  BY <1>2, <1>3, CoupledRelease DEF SetQ, IInv
<1>5. TypeOK'
  BY <1>2, <1>3 DEF TypeOK, IInv, SetQ, QType, wdvars
<1> QED
  BY <1>2, <1>3, <1>4, <1>5, SetQInv DEF IInv

----------------------------------------------------------------------------
(* Each operation keeps the invariant.                                     *)

LEMMA CoupledMove ==
  ASSUME TypeOK, Coupled, NEW r \in Reqs, NEW x, NEW g, Fits(x, g),
         pc' = [pc EXCEPT ![r] = x], grant' = [grant EXCEPT ![r] = g]
  PROVE  Coupled'
<1> SUFFICES ASSUME NEW s \in Reqs PROVE Fits(pc'[s], grant'[s])
  BY DEF Coupled
<1>1. pc'[s] = IF s = r THEN x ELSE pc[s]
  BY DEF TypeOK
<1>2. grant'[s] = IF s = r THEN g ELSE grant[s]
  BY DEF TypeOK
<1> QED
  BY <1>1, <1>2 DEF Coupled

(* q_acquire, whichever of its three ways it takes.                        *)
LEMMA ArriveInv ==
  ASSUME IInv, NEW r \in Reqs, Arrive(r)
  PROVE  IInv'
<1> DEFINE q == Prune(Q)
<1>1. /\ q \in QType /\ q.active = active /\ q.grant = grant
      /\ InDeque(q.place) = Pending(Q) /\ Pending(q) = Pending(Q)
  BY QTyped, PruneEffect DEF IInv, Q
<1>2. PICK p \in PermitChoices :
        /\ permits' = p
        /\ \/ /\ FastPath(p, q)
              /\ SetQ([q EXCEPT !.active = @ + 1, !.grant[r] = "held"])
              /\ pc' = [pc EXCEPT ![r] = "admitted"]
           \/ /\ ~FastPath(p, q)
              /\ SetQ(q)
              /\ pc' = [pc EXCEPT ![r] = "refused"]
           \/ /\ ~FastPath(p, q)
              /\ SetQ([q EXCEPT !.place[r] = Cardinality(InDeque(q.place)) + 1,
                                !.grant[r] = "pending"])
              /\ pc' = [pc EXCEPT ![r] = "queued"]
  BY DEF Arrive
<1>3. /\ pc[r] = "idle" /\ grant[r] = "none"
      /\ UNCHANGED <<lockvars, sess, wdvars, spurious>>
  BY DEF Arrive, IInv, Coupled, Fits
<1>4. /\ permits' \in 1 .. MaxPermits /\ permits' > 0 /\ permits' = p
      /\ active \in Nat /\ grant \in [Reqs -> Grants] /\ pc \in [Reqs -> Places]
      /\ Balanced(active, grant, spurious) /\ spurious \in Nat
  BY <1>2, PermitsAssumption DEF IInv, TypeOK
<1>5. Cardinality(Held(grant)) \in Nat
  BY <1>4, HeldCount
<1> HIDE DEF q
<1>6. CASE FastPath(p, q) /\ SetQ([q EXCEPT !.active = @ + 1, !.grant[r] = "held"])
           /\ pc' = [pc EXCEPT ![r] = "admitted"]
  <2> DEFINE n == [q EXCEPT !.active = @ + 1, !.grant[r] = "held"]
  <2>0. /\ [grant EXCEPT ![r] = "held"] \in [Reqs -> Grants]
        /\ active + 1 \in Nat
    BY <1>4 DEF Grants
  <2>1. /\ n \in QType /\ n.active = active + 1
        /\ n.grant = [grant EXCEPT ![r] = "held"]
    BY <1>1, <2>0 DEF QType
  <2>2. SetQ(n)
    BY <1>6
  <2> HIDE DEF n
  <2>3. Cardinality(Held(n.grant)) = Cardinality(Held(grant)) + 1
    BY <1>3, <1>4, <2>1, HeldAdd
  <2>4. active < p
    BY <1>6 DEF FastPath
  <2>5. Balanced(n.active, n.grant, spurious')
    BY <1>3, <1>4, <1>5, <2>1, <2>3, <2>4, PermitsAssumption DEF Balanced
  <2>6. Coupled'
    <3>1. Fits("admitted", "held")
      BY DEF Fits, ConvHeld
    <3>2. grant' = [grant EXCEPT ![r] = "held"] /\ pc' = [pc EXCEPT ![r] = "admitted"]
      BY <1>6, <2>1, <2>2 DEF SetQ
    <3> QED
      BY <3>1, <3>2, CoupledMove DEF IInv
  <2>7. TypeOK'
    <3>1. active' \in Nat /\ place' \in [Reqs -> Nat] /\ grant' \in [Reqs -> Grants]
      BY <1>6, <2>1, <2>2 DEF SetQ, QType
    <3>2. pc' \in [Reqs -> Places]
      BY <1>4, <1>6 DEF Places
    <3>3. permits' \in Nat
      BY <1>4, PermitsAssumption
    <3> QED
      BY <1>3, <3>1, <3>2, <3>3 DEF TypeOK, IInv, lockvars, wdvars
  <2> QED
    BY <1>4, <2>1, <2>2, <2>5, <2>6, <2>7, SetQInv
<1>7. CASE ~FastPath(p, q) /\ SetQ(q) /\ pc' = [pc EXCEPT ![r] = "refused"]
  <2>0. grant' = grant /\ grant = [grant EXCEPT ![r] = "none"]
    BY <1>1, <1>3, <1>4, <1>7 DEF SetQ
  <2>1. Coupled'
    <3>1. Fits("refused", "none")
      BY DEF Fits, ConvHeld
    <3>2. grant' = [grant EXCEPT ![r] = "none"] /\ pc' = [pc EXCEPT ![r] = "refused"]
      BY <1>7, <2>0 DEF SetQ
    <3> QED
      BY <3>1, <3>2, CoupledMove DEF IInv
  <2>2. TypeOK'
    <3>1. active' \in Nat /\ place' \in [Reqs -> Nat] /\ grant' \in [Reqs -> Grants]
      BY <1>7, <1>1 DEF SetQ, QType
    <3>2. pc' \in [Reqs -> Places]
      BY <1>4, <1>7 DEF Places
    <3>3. permits' \in Nat
      BY <1>4, PermitsAssumption
    <3> QED
      BY <1>3, <3>1, <3>2, <3>3 DEF TypeOK, IInv, lockvars, wdvars
  <2>3. Pending(q) # {} => q.active > 0
    BY <1>1 DEF IInv, NoStrandedWaiter
  <2> QED
    BY <1>1, <1>3, <1>4, <1>7, <2>1, <2>2, <2>3, SetQInv
<1>8. CASE ~FastPath(p, q) /\ pc' = [pc EXCEPT ![r] = "queued"]
           /\ SetQ([q EXCEPT !.place[r] = Cardinality(InDeque(q.place)) + 1,
                             !.grant[r] = "pending"])
  <2> DEFINE n == [q EXCEPT !.place[r] = Cardinality(InDeque(q.place)) + 1,
                            !.grant[r] = "pending"]
  <2>0. IsFiniteSet(InDeque(q.place))
    BY ReqsFinite, FS_Subset DEF InDeque
  <2>1. Cardinality(InDeque(q.place)) + 1 \in Nat
    BY <2>0, FS_CardinalityType
  <2>2. /\ n \in QType /\ n.active = active
        /\ n.grant = [grant EXCEPT ![r] = "pending"]
    <3>1. [q.place EXCEPT ![r] = Cardinality(InDeque(q.place)) + 1] \in [Reqs -> Nat]
      BY <1>1, <2>1 DEF QType
    <3>2. [grant EXCEPT ![r] = "pending"] \in [Reqs -> Grants]
      BY <1>4 DEF Grants
    <3> QED
      BY <1>1, <1>4, <3>1, <3>2 DEF QType
  <2>3. SetQ(n)
    BY <1>8
  <2> HIDE DEF n
  <2>4. Held(n.grant) = Held(grant)
    BY <1>3, <1>4, <2>2 DEF Held
  <2>5. Balanced(n.active, n.grant, spurious')
    BY <1>3, <1>4, <2>2, <2>4 DEF Balanced
  <2>6. active > 0
    BY <1>1, <1>4, <1>8 DEF FastPath, IInv, NoStrandedWaiter
  <2>7. Coupled'
    <3>1. Fits("queued", "pending")
      BY DEF Fits, ConvHeld
    <3>2. grant' = [grant EXCEPT ![r] = "pending"] /\ pc' = [pc EXCEPT ![r] = "queued"]
      BY <1>8, <2>2, <2>3 DEF SetQ
    <3> QED
      BY <3>1, <3>2, CoupledMove DEF IInv
  <2>8. TypeOK'
    <3>1. active' \in Nat /\ place' \in [Reqs -> Nat] /\ grant' \in [Reqs -> Grants]
      BY <1>8, <2>2, <2>3 DEF SetQ, QType
    <3>2. pc' \in [Reqs -> Places]
      BY <1>4, <1>8 DEF Places
    <3>3. permits' \in Nat
      BY <1>4, PermitsAssumption
    <3> QED
      BY <1>3, <3>1, <3>2, <3>3 DEF TypeOK, IInv, lockvars, wdvars
  <2> QED
    BY <1>4, <2>2, <2>3, <2>5, <2>6, <2>7, <2>8, SetQInv
<1> QED
  BY <1>2, <1>6, <1>7, <1>8

(* The deadline of a parked task.                                          *)
LEMMA QueueDeadlineInv ==
  ASSUME IInv, NEW r \in Reqs, QueueDeadline(r)
  PROVE  IInv'
<1> USE DEF IInv
<1>1. /\ grant \in [Reqs -> Grants] /\ pc \in [Reqs -> Places]
      /\ pc[r] = "queued" /\ grant[r] \in {"pending", "held"}
  BY DEF QueueDeadline, TypeOK, Coupled, Fits
<1>2. /\ pc' = [pc EXCEPT ![r] = "cancelling"]
      /\ grant' = [grant EXCEPT ![r] = IF @ = "pending" THEN "cancelled" ELSE @]
      /\ UNCHANGED <<place, active, permits, lockvars, sess, wdvars, spurious>>
  BY DEF QueueDeadline
<1>3. TypeOK'
  BY <1>1, <1>2 DEF TypeOK, Places, Grants, lockvars, wdvars
<1>4. Coupled'
  BY <1>1, <1>2 DEF Coupled, Fits, ConvHeld
<1>5. Held(grant') = Held(grant)
  BY <1>1, <1>2 DEF Held
<1>6. Balanced(active, grant, spurious)'
  BY <1>2, <1>5 DEF Balanced, Held
<1>7. Pending(Q)' \in SUBSET Pending(Q)
  BY <1>1, <1>2 DEF Pending, InDeque, Q
<1> QED
  BY <1>2, <1>3, <1>4, <1>6, <1>7 DEF NoStrandedWaiter

(* The cleanup of a cancelled waiter.                                      *)
LEMMA CancelCleanupInv ==
  ASSUME IInv, NEW r \in Reqs, CancelCleanup(r)
  PROVE  IInv'
<1>1. /\ pc[r] = "cancelling" /\ grant[r] \in {"cancelled", "held"}
      /\ pc' = [pc EXCEPT ![r] = "done"] /\ pc' \in [Reqs -> Places]
      /\ OnlyMoves(r) /\ pc'[r] = "done"
      /\ UNCHANGED <<permits, lockvars, sess, wdvars, spurious>>
  BY DEF CancelCleanup, IInv, Coupled, Fits, TypeOK, Places, OnlyMoves
<1>2. CASE grant[r] = "held"
  BY <1>1, <1>2, ReleaseInv DEF CancelCleanup, IInv, TypeOK, lockvars
<1>3. CASE grant[r] # "held"
  <2> DEFINE q == Prune(Q)
  <2>1. /\ q \in QType /\ q.active = active /\ q.grant = grant
        /\ Pending(q) = Pending(Q)
    BY QTyped, PruneEffect DEF IInv, Q
  <2>2. SetQ(q)
    BY <1>3 DEF CancelCleanup
  <2> HIDE DEF q
  <2>3. Coupled'
    BY <1>1, <1>3, <2>1, <2>2 DEF SetQ, Coupled, Fits, IInv, TypeOK, ConvHeld
  <2>4. TypeOK'
    BY <1>1, <2>1, <2>2 DEF SetQ, TypeOK, IInv, QType, lockvars, wdvars
  <2> QED
    BY <1>1, <2>1, <2>2, <2>3, <2>4, SetQInv DEF IInv, NoStrandedWaiter
<1> QED
  BY <1>2, <1>3

(* The steps that leave the queue alone and move one task that keeps its   *)
(* permit.                                                                 *)
LEMMA CoupledHolder ==
  ASSUME IInv, NEW r \in Reqs, grant[r] = "held", UNCHANGED qvars, OnlyMoves(r),
         pc'[r] \in {"admitted", "haslock", "lockwait", "lockwoken"} \cup ConvHeld
  PROVE  Coupled'
<1> SUFFICES ASSUME NEW s \in Reqs PROVE Fits(pc'[s], grant'[s])
  BY DEF Coupled
<1>1. grant' = grant
  BY DEF qvars
<1>2. CASE s = r
  BY <1>1, <1>2 DEF Fits, ConvHeld
<1>3. CASE s # r
  BY <1>1, <1>3 DEF OnlyMoves, IInv, Coupled, Fits
<1> QED
  BY <1>2, <1>3

LEMMA ResumeInv ==
  ASSUME IInv, NEW r \in Reqs, Resume(r)
  PROVE  IInv'
<1>1. TypeOK' /\ OnlyMoves(r) /\ pc'[r] = "admitted" /\ grant[r] = "held"
  BY DEF Resume, IInv, TypeOK, Places, OnlyMoves, qvars, lockvars, wdvars
<1>2. UNCHANGED <<qvars, permits, spurious>>
  BY DEF Resume
<1> QED
  BY <1>1, <1>2, CoupledHolder, SameQInv

LEMMA GetLockInv ==
  ASSUME IInv, NEW r \in Reqs, GetLock(r)
  PROVE  IInv'
<1>1. /\ pc[r] = "admitted" /\ pc' = [pc EXCEPT ![r] = "haslock"]
      /\ UNCHANGED <<qvars, permits, locked, lplace, sess, wdvars, spurious>>
  BY DEF GetLock
<1>2. grant[r] = "held" /\ ConvOf[r] \in Convs
  BY <1>1, ConvOfType DEF IInv, Coupled, Fits
<1>3. registry' \in [Convs -> Reqs \cup {NoLock}]
  BY DEF GetLock, IInv, TypeOK
<1>4. lk' \in [Reqs -> Reqs \cup {NoLock}]
  BY <1>2 DEF GetLock, IInv, TypeOK
<1>5. TypeOK' /\ OnlyMoves(r) /\ pc'[r] = "haslock"
  BY <1>1, <1>3, <1>4 DEF IInv, TypeOK, Places, OnlyMoves, qvars, wdvars
<1> QED
  BY <1>1, <1>2, <1>5, CoupledHolder, SameQInv

LEMMA AcquireLockInv ==
  ASSUME IInv, NEW r \in Reqs, AcquireLock(r)
  PROVE  IInv'
<1>1. pc[r] = "haslock" /\ UNCHANGED <<qvars, permits, registry, lk, sess, wdvars, spurious>>
  BY DEF AcquireLock
<1>2. grant[r] = "held"
  BY <1>1 DEF IInv, Coupled, Fits
<1>3. IsFiniteSet(WaitersOf(lk[r]))
  BY ReqsFinite, FS_Subset DEF WaitersOf
<1>4. Cardinality(WaitersOf(lk[r])) + 1 \in Nat
  BY <1>3, FS_CardinalityType
<1>5. /\ locked' \in [Reqs -> BOOLEAN] /\ lplace' \in [Reqs -> Nat]
      /\ pc' = [pc EXCEPT ![r] = "locked"] \/ pc' = [pc EXCEPT ![r] = "lockwait"]
  BY <1>4 DEF AcquireLock, IInv, TypeOK
<1>6. TypeOK' /\ OnlyMoves(r) /\ pc'[r] \in {"locked", "lockwait"}
  BY <1>1, <1>5 DEF IInv, TypeOK, Places, OnlyMoves, qvars, wdvars
<1> QED
  BY <1>1, <1>2, <1>6, CoupledHolder, SameQInv DEF ConvHeld

LEMMA TakeLockInv ==
  ASSUME IInv, NEW r \in Reqs, TakeLock(r)
  PROVE  IInv'
<1>1. /\ pc[r] = "lockwoken" /\ pc' = [pc EXCEPT ![r] = "locked"]
      /\ lplace' = LeaveLockDeque(r) /\ locked' = [locked EXCEPT ![lk[r]] = TRUE]
      /\ UNCHANGED <<qvars, permits, registry, lk, sess, wdvars, spurious>>
  BY DEF TakeLock
<1>2. grant[r] = "held"
  BY <1>1 DEF IInv, Coupled, Fits
<1>3. lplace' \in [Reqs -> Nat]
  BY <1>1, LeaveType DEF IInv
<1>4. TypeOK' /\ OnlyMoves(r) /\ pc'[r] = "locked"
  BY <1>1, <1>3 DEF IInv, TypeOK, Places, OnlyMoves, qvars, wdvars
<1> QED
  BY <1>1, <1>2, <1>4, CoupledHolder, SameQInv DEF ConvHeld

(* The lock deadline: the permit is released twice, and accounted for.     *)
LEMMA LockTimeoutInv ==
  ASSUME IInv, NEW r \in Reqs, LockTimeout(r)
  PROVE  IInv'
<1>1. /\ Waiting(r) /\ lplace' = LeaveLockDeque(r)
      /\ SetQ(Release(ReleaseOf(Q, r))) /\ spurious' = spurious + 1
      /\ UNCHANGED <<permits, registry, lk, locked, sess, wdvars>>
  BY DEF LockTimeout
<1>2. pc[r] \in {"lockwait", "lockwoken"} /\ grant[r] = "held"
  BY <1>1 DEF Waiting, IInv, Coupled, Fits
<1>3. pc' \in [Reqs -> Places] /\ pc'[r] = "done" /\ OnlyMoves(r)
  <2> DEFINE gone == [pc EXCEPT ![r] = "done"]
             W == WaitersOf(lk[r]) \ {r}
  <2>1. gone \in [Reqs -> Places] /\ gone[r] = "done" /\ \A s \in Reqs \ {r} : gone[s] = pc[s]
    BY DEF IInv, TypeOK, Places
  <2>2. W \in SUBSET Reqs
    BY DEF WaitersOf
  <2>3. pc' = gone \/ pc' = Wake(gone, W)
    BY DEF LockTimeout
  <2> HIDE DEF gone, W
  <2>4. CASE pc' = gone
    BY <2>1, <2>4 DEF OnlyMoves
  <2>5. CASE pc' = Wake(gone, W)
    <3>1. \A s \in Reqs : pc'[s] = gone[s] \/ (gone[s] = "lockwait" /\ pc'[s] = "lockwoken")
      BY <2>1, <2>2, <2>5, WakeEffect DEF IInv
    <3>2. pc' \in [Reqs -> Places]
      BY <2>1, <2>2, <2>5, WakeEffect DEF IInv
    <3> QED
      BY <2>1, <3>1, <3>2 DEF OnlyMoves
  <2> QED
    BY <2>3, <2>4, <2>5
<1> DEFINE m == ReleaseOf(Q, r)
           q == Release(m)
<1>4. Q \in QType /\ Q.active = active /\ Q.grant = grant
  BY QTyped DEF IInv, Q
<1>5. /\ m \in QType /\ Balanced(m.active, m.grant, spurious) /\ m.grant[r] = "returned"
      /\ Grows([grant EXCEPT ![r] = "returned"], m.grant)
  BY <1>2, <1>4, ReleaseOfBalanced DEF IInv, TypeOK
<1>6. SetQ(q)
  BY <1>1
<1> HIDE DEF m
<1>7. /\ q \in QType /\ Balanced(q.active, q.grant, spurious + 1)
      /\ Pending(q) # {} => q.active > 0
      /\ Grows(m.grant, q.grant)
  BY <1>5, ReleaseSpurious DEF IInv, TypeOK
<1> HIDE DEF q
<1>8. /\ Grows([grant EXCEPT ![r] = "returned"], q.grant)
      /\ q.grant[r] = "returned"
  BY <1>5, <1>7 DEF Grows
<1>9. Coupled'
  BY <1>3, <1>6, <1>8, CoupledRelease DEF SetQ, IInv
<1>10. lplace' \in [Reqs -> Nat]
  BY <1>1, LeaveType DEF IInv
<1>11. TypeOK'
  BY <1>1, <1>3, <1>6, <1>7, <1>10 DEF SetQ, TypeOK, IInv, QType, wdvars
<1> QED
  BY <1>1, <1>6, <1>7, <1>9, <1>11, SetQInv DEF IInv

(* Every way out of the lock that gives the permit back.                   *)
LEMMA ReleaseAndUnlockInv ==
  ASSUME IInv, NEW r \in Reqs, pc[r] \in ConvHeld,
         NEW next \in {"done", "released"}, UnlockAndGo(r, next),
         SetQ(ReleaseOf(Q, r)), UNCHANGED <<permits, wdvars, spurious>>,
         sess' \in [Reqs -> {"none", "run", "end"}]
  PROVE  IInv'
<1>1. grant[r] = "held"
  BY DEF IInv, Coupled, Fits
<1>2. next \in Places /\ next # "lockwait"
  BY DEF Places
<1>3. /\ locked' \in [Reqs -> BOOLEAN] /\ pc' \in [Reqs -> Places]
      /\ pc'[r] = next /\ OnlyMoves(r)
  BY <1>2, UnlockEffect DEF IInv
<1>4. UNCHANGED <<registry, lk, lplace>>
  BY DEF UnlockAndGo
<1> QED
  BY <1>1, <1>3, <1>4, ReleaseInv DEF IInv, TypeOK

LEMMA FailInLockInv ==
  ASSUME IInv, NEW r \in Reqs, FailInLock(r)
  PROVE  IInv'
BY ReleaseAndUnlockInv DEF FailInLock, ConvHeld, IInv, TypeOK

LEMMA EndSyncInv ==
  ASSUME IInv, NEW r \in Reqs, EndSync(r)
  PROVE  IInv'
<1>1. sess' \in [Reqs -> {"none", "run", "end"}]
  BY DEF EndSync, IInv, TypeOK
<1> QED
  BY <1>1, ReleaseAndUnlockInv DEF EndSync, ConvHeld

LEMMA ReleaseSlotInv ==
  ASSUME IInv, NEW r \in Reqs, GenComplete(r) \/ GuardRelease(r)
  PROVE  IInv'
<1>1. pc[r] \in ConvHeld /\ ReleaseSlot(r)
  BY DEF GenComplete, GuardRelease, ConvHeld
<1> QED
  BY <1>1, ReleaseAndUnlockInv DEF ReleaseSlot, IInv, TypeOK

(* The steps of a session, its generator and its watcher inside the lock.  *)
LEMMA SessionInv ==
  ASSUME IInv, NEW r \in Reqs,
         StartSync(r) \/ StartStream(r) \/ SessionEnd(r) \/ Backpressure(r) \/ GenClose(r)
  PROVE  IInv'
<1>1. UNCHANGED <<qvars, permits, lockvars, wdvars, spurious>>
  BY DEF StartSync, StartStream, SessionEnd, Backpressure, GenClose
<1>2. sess' \in [Reqs -> {"none", "run", "end"}]
  BY DEF StartSync, StartStream, SessionEnd, Backpressure, GenClose, IInv, TypeOK
<1>3. \/ UNCHANGED pc
      \/ /\ pc[r] \in ConvHeld
         /\ \E x \in ConvHeld : pc' = [pc EXCEPT ![r] = x]
  BY DEF StartSync, StartStream, SessionEnd, Backpressure, GenClose, ConvHeld
<1>4. pc' \in [Reqs -> Places]
  BY <1>3 DEF IInv, TypeOK, Places, ConvHeld
<1>5. TypeOK'
  BY <1>1, <1>2, <1>4 DEF IInv, TypeOK, qvars, lockvars, wdvars
<1>6. CASE UNCHANGED pc
  <2>1. Coupled'
    BY <1>1, <1>6 DEF IInv, Coupled, qvars
  <2> QED
    BY <1>1, <1>5, <2>1, SameQInv
<1>7. CASE pc[r] \in ConvHeld /\ \E x \in ConvHeld : pc' = [pc EXCEPT ![r] = x]
  <2>1. grant[r] = "held"
    BY <1>7 DEF IInv, Coupled, Fits
  <2>2. OnlyMoves(r) /\ pc'[r] \in ConvHeld
    BY <1>7 DEF OnlyMoves, IInv, TypeOK
  <2>3. Coupled'
    BY <1>1, <2>1, <2>2, CoupledHolder
  <2> QED
    BY <1>1, <1>5, <2>3, SameQInv
<1> QED
  BY <1>3, <1>6, <1>7

(* The watchdog.                                                           *)
LEMMA WatchdogInv ==
  ASSUME IInv, Watchdog
  PROVE  IInv'
<1>1. CASE UNCHANGED <<pc, qvars, permits, lockvars, sess, heals, spurious>>
           /\ probing' \in BOOLEAN /\ stale' \in BOOLEAN
  <2>1. TypeOK' /\ Coupled'
    BY <1>1 DEF IInv, TypeOK, Coupled, qvars, lockvars
  <2> QED
    BY <1>1, <2>1, SameQInv
<1>2. CASE /\ SetQ(Release(Q)) /\ spurious' = spurious + 1 /\ heals' = heals + 1
           /\ probing' = FALSE /\ stale' = FALSE
           /\ UNCHANGED <<pc, permits, lockvars, sess>>
  <2> DEFINE q == Release(Q)
  <2>1. Q \in QType /\ Q.active = active /\ Q.grant = grant
    BY QTyped DEF IInv, Q
  <2>2. /\ q \in QType /\ Balanced(q.active, q.grant, spurious + 1)
        /\ Pending(q) # {} => q.active > 0
        /\ Grows(grant, q.grant)
    BY <2>1, ReleaseSpurious DEF IInv, TypeOK
  <2>3. SetQ(q)
    BY <1>2
  <2> HIDE DEF q
  <2>4. Coupled'
    BY <1>2, <2>2, <2>3, CoupledGrows DEF SetQ, IInv
  <2>5. active' \in Nat /\ place' \in [Reqs -> Nat] /\ grant' \in [Reqs -> Grants]
    BY <2>2, <2>3 DEF SetQ, QType
  <2>6. TypeOK'
    <3>0. heals \in Nat /\ spurious \in Nat
      BY DEF TypeOK, IInv
    <3>1. heals' \in Nat /\ spurious' \in Nat
      BY <1>2, <3>0
    <3>2. probing' \in BOOLEAN /\ stale' \in BOOLEAN
      BY <1>2, Zenon
    <3>3. /\ UNCHANGED <<pc, permits, sess>>
          /\ UNCHANGED <<registry, lk, locked, lplace>>
      BY <1>2 DEF lockvars
    <3> QED
      BY <2>5, <3>1, <3>2, <3>3 DEF TypeOK, IInv
  <2> QED
    BY <1>2, <2>2, <2>3, <2>4, <2>6, SetQInv DEF IInv
<1>3. CASE WatchdogWake
  BY <1>1, <1>3 DEF WatchdogWake, IInv, TypeOK
<1>4. CASE WatchdogBusy
  BY <1>1, <1>4 DEF WatchdogBusy, IInv, TypeOK
<1>5. CASE WatchdogIdle
  BY <1>1, <1>2, <1>5 DEF WatchdogIdle
<1> QED
  BY <1>3, <1>4, <1>5 DEF Watchdog

----------------------------------------------------------------------------
(* The invariant holds at first: nobody has asked for anything.            *)
LEMMA InitInv == Init => IInv
<1> SUFFICES ASSUME Init PROVE IInv
  OBVIOUS
<1>0. permits = 1 /\ permits \in 1 .. MaxPermits
  BY PermitsAssumption DEF Init
<1>1. TypeOK
  BY DEF Init, TypeOK, Places, Grants
<1>2. Coupled
  BY DEF Init, Coupled, Fits, ConvHeld
<1>3. Held(grant) = {} /\ Pending(Q) = {}
  BY DEF Init, Held, Pending, InDeque, Q
<1>4. Cardinality(Held(grant)) = 0
  BY <1>3, FS_EmptySet
<1>5. Balanced(active, grant, spurious)
  BY <1>4, PermitsAssumption DEF Init, Balanced
<1> QED
  BY <1>0, <1>1, <1>2, <1>3, <1>5 DEF IInv, NoStrandedWaiter

LEMMA StutterInv ==
  ASSUME IInv, UNCHANGED vars
  PROVE  IInv'
<1>1. TypeOK' /\ Coupled'
  BY DEF vars, IInv, TypeOK, Coupled
<1> QED
  BY <1>1, SameQInv DEF vars, qvars

LEMMA StepInv == IInv /\ [Next]_vars => IInv'
<1> SUFFICES ASSUME IInv, [Next]_vars PROVE IInv'
  OBVIOUS
<1>1. ASSUME NEW r \in Reqs, RequestStep(r) PROVE IInv'
  <2>1. CASE Arrive(r)
    BY <2>1, ArriveInv
  <2>2. CASE Resume(r)
    BY <2>2, ResumeInv
  <2>3. CASE QueueDeadline(r)
    BY <2>3, QueueDeadlineInv
  <2>4. CASE CancelCleanup(r)
    BY <2>4, CancelCleanupInv
  <2>5. CASE GetLock(r)
    BY <2>5, GetLockInv
  <2>6. CASE AcquireLock(r)
    BY <2>6, AcquireLockInv
  <2>7. CASE TakeLock(r)
    BY <2>7, TakeLockInv
  <2>8. CASE LockTimeout(r)
    BY <2>8, LockTimeoutInv
  <2>9. CASE FailInLock(r)
    BY <2>9, FailInLockInv
  <2>10. CASE EndSync(r)
    BY <2>10, EndSyncInv
  <2>11. CASE StartSync(r) \/ StartStream(r) \/ SessionEnd(r) \/ Backpressure(r) \/ GenClose(r)
    BY <2>11, SessionInv
  <2>12. CASE GenComplete(r) \/ GuardRelease(r)
    BY <2>12, ReleaseSlotInv
  <2> QED
    BY <1>1, <2>1, <2>2, <2>3, <2>4, <2>5, <2>6, <2>7, <2>8, <2>9, <2>10, <2>11, <2>12
    DEF RequestStep
<1>2. CASE Watchdog
  BY <1>2, WatchdogInv
<1>3. CASE UNCHANGED vars
  BY <1>3, StutterInv
<1> QED
  BY <1>1, <1>2, <1>3 DEF Next

(* The inductive invariant holds of every behaviour.                       *)
THEOREM Inductive == Spec => []IInv
BY InitInv, StepInv, PTL DEF Spec

(* Type correctness: the state q_acquire, q_release, the conversation      *)
(* locks and the stream lifecycle build is always well formed.             *)
THEOREM TypeCorrect == Spec => []TypeOK
<1>1. IInv => TypeOK
  BY DEF IInv
<1> QED
  BY <1>1, Inductive, PTL

(* No permit leaks, for any number of requests, permits and waiters:       *)
(* QSTATE["active"] never counts a permit that nobody holds.               *)
THEOREM PermitsNeverLeak == Spec => []NoLeakedPermit
<1>1. IInv => NoLeakedPermit
  BY DEF IInv, Balanced, NoLeakedPermit, Owners
<1> QED
  BY <1>1, Inductive, PTL

(* Over-admission is at most the number of q_release calls made without a  *)
(* permit (conversation-lock timeouts and watchdog heals).                 *)
THEOREM OverAdmissionBounded == Spec => []OverAdmissionAccounted
<1>1. ASSUME IInv PROVE OverAdmissionAccounted
  <2>1. Cardinality(Held(grant)) \in Nat /\ active \in Nat /\ spurious \in Nat
    BY <1>1, HeldCount DEF IInv, TypeOK
  <2> QED
    BY <1>1, <2>1, PermitsAssumption DEF IInv, Balanced, OverAdmissionAccounted, Owners
<1> QED
  BY <1>1, Inductive, PTL

(* No lost promotion: while a live request is parked a permit is out, so a *)
(* q_release that will promote it is still to come.                        *)
THEOREM WaitersNeverStranded == Spec => []NoStrandedWaiter
<1>1. IInv => NoStrandedWaiter
  BY DEF IInv
<1> QED
  BY <1>1, Inductive, PTL

(* The permits never exceed the width: the counter q_acquire and q_promote *)
(* guard stays within the largest batch width ever reported.               *)
THEOREM CounterBounded == Spec => [](active <= MaxPermits)
<1>1. IInv => active <= MaxPermits
  BY DEF IInv, Balanced
<1> QED
  BY <1>1, Inductive, PTL
=============================================================================
