------------------------ MODULE AdmissionQueueProofs ------------------------
(***************************************************************************)
(* Proofs about the order of admission: requests are granted first come    *)
(* first served, and refused only when the queue is full.  The argument:   *)
(* the places in the deque are distinct (Ordered), and every change of the *)
(* queue keeps the order of the live waiters and grants the first of them, *)
(* or several from the front (After).                                      *)
(***************************************************************************)
EXTENDS AdmissionProofs

(* No two futures have one place.                                          *)
Ordered(q) ==
  \A r, s \in InDeque(q.place) : r # s => q.place[r] # q.place[s]

(* What the queue u may become of the queue q: who waits in u waited in q, *)
(* in the same order; who got a grant was ahead of everyone left waiting.  *)
After(q, u) ==
  /\ Pending(u) \subseteq Pending(q)
  /\ \A s, t \in Pending(u) : q.place[s] < q.place[t] => u.place[s] < u.place[t]
  /\ \A s \in Reqs : u.grant[s] = "pending" => q.grant[s] = "pending"
  /\ \A s \in Pending(q) : u.grant[s] = "pending" => s \in Pending(u)
  /\ \A r \in Reqs : u.grant[r] = "held" /\ q.grant[r] # "held" =>
       /\ r \in Pending(q)
       /\ \A s \in Pending(q) \ {r} : u.grant[s] # "pending" \/ q.place[r] < q.place[s]

QueueInv == Ordered(Q) /\ Cardinality(Pending(Q)) <= MaxWaiting

----------------------------------------------------------------------------
(* The operations of the queue.                                            *)

(* What is in a deque, and who waits in it.                                *)
LEMMA QFacts ==
  ASSUME NEW q \in QType
  PROVE  /\ q.active \in Nat /\ q.place \in [Reqs -> Nat] /\ q.grant \in [Reqs -> Grants]
         /\ Pending(q) \in SUBSET InDeque(q.place) /\ InDeque(q.place) \in SUBSET Reqs
         /\ \A s \in Pending(q) : q.grant[s] = "pending"
BY DEF QType, Pending, InDeque

(* A deque that loses members stays ordered.                               *)
LEMMA CompactOrdered ==
  ASSUME NEW q \in QType, Ordered(q), NEW K \in SUBSET InDeque(q.place),
         NEW u, u.place = Compact(q.place, K)
  PROVE  /\ Ordered(u) /\ InDeque(u.place) = K
         /\ \A s, t \in K : q.place[s] < q.place[t] => u.place[s] < u.place[t]
<1>1. q.place \in [Reqs -> Nat] /\ K \in SUBSET Reqs BY QFacts
<1>2. InDeque(u.place) = K /\ u.place \in [Reqs -> Nat] BY <1>1, CompactType
<1>3. \A s, t \in K : q.place[s] < q.place[t] => u.place[s] < u.place[t]
  BY <1>1, CompactOrder, Zenon
<1>4. ASSUME NEW s \in K, NEW t \in K, s # t PROVE u.place[s] # u.place[t]
  <2>1. q.place[s] < q.place[t] \/ q.place[t] < q.place[s]
    BY <1>1, <1>4 DEF Ordered
  <2>2. u.place[s] < u.place[t] \/ u.place[t] < u.place[s] BY <1>3, <2>1
  <2>3. u.place[s] \in Nat /\ u.place[t] \in Nat BY <1>1, <1>2
  <2>q. QED BY <2>2, <2>3
<1>q. QED BY <1>2, <1>3, <1>4 DEF Ordered

(* Pruning keeps the order and grants nobody.                              *)
LEMMA PruneAfter ==
  ASSUME NEW q \in QType, Ordered(q)
  PROVE  After(q, Prune(q)) /\ Ordered(Prune(q))
<1>1. Prune(q).place = Compact(q.place, Pending(q)) /\ Prune(q).grant = q.grant
      /\ Pending(Prune(q)) = Pending(q)
  BY PruneEffect DEF Prune, QType
<1>2. Pending(q) \in SUBSET InDeque(q.place) BY QFacts
<1>3. /\ Ordered(Prune(q))
      /\ \A s, t \in Pending(q) : q.place[s] < q.place[t] => Prune(q).place[s] < Prune(q).place[t]
  BY <1>1, <1>2, CompactOrdered
<1>q. QED BY <1>1, <1>3, Zenon DEF After

(* A promotion grants the first live waiter.                               *)
LEMMA PromoteAfter ==
  ASSUME NEW q \in QType, Ordered(q)
  PROVE  After(q, Promote(q)) /\ Ordered(Promote(q))
<1>1. CASE q.active >= permits
  <2>1. Promote(q) = q BY <1>1 DEF Promote
  <2>q. QED BY <2>1, Zenon DEF After
<1>2. CASE ~(q.active >= permits) /\ Pending(q) = {}
  <2>1. Promote(q) = [q EXCEPT !.place = [r \in Reqs |-> 0]] BY <1>2 DEF Promote
  <2>2. Promote(q).place = [r \in Reqs |-> 0] /\ Promote(q).grant = q.grant
    BY <2>1 DEF QType
  <2>3. InDeque(Promote(q).place) = {} /\ Pending(Promote(q)) = {}
    BY <2>2 DEF InDeque, Pending
  <2>q. QED BY <1>2, <2>2, <2>3, Zenon DEF After, Ordered
<1>3. CASE ~(q.active >= permits) /\ Pending(q) # {}
  <2> DEFINE r == Front(q.place, Pending(q))
             K == {s \in InDeque(q.place) : q.place[s] > q.place[r]}
  <2>1. r \in Pending(q) /\ \A s \in Pending(q) : q.place[r] <= q.place[s]
    BY <1>3, FrontExists DEF Pending, InDeque, QType
  <2>2. r \in Reqs /\ q.grant[r] = "pending" /\ q.grant \in [Reqs -> Grants]
        /\ r \in InDeque(q.place) /\ K \in SUBSET InDeque(q.place)
    BY <2>1, QFacts
  <2>3. Promote(q) = [active |-> q.active + 1, place |-> Compact(q.place, K),
                      grant |-> [q.grant EXCEPT ![r] = "held"]]
    BY <1>3 DEF Promote, QType
  <2>4. Promote(q).place = Compact(q.place, K) /\ Promote(q).grant = [q.grant EXCEPT ![r] = "held"]
    BY <2>3
  <2>5. ASSUME NEW s \in Pending(q), s # r PROVE s \in K /\ q.place[r] < q.place[s]
    <3>1. q.place[r] <= q.place[s] /\ q.place[r] # q.place[s]
      BY <2>1, <2>2, <2>5, QFacts DEF Ordered
    <3>2. q.place[r] \in Nat /\ q.place[s] \in Nat BY <2>2, QFacts
    <3>q. QED BY <2>5, <3>1, <3>2, QFacts
  <2>6. r \notin K
    <3>1. q.place[r] \in Nat BY <2>2, QFacts
    <3>q. QED BY <3>1
  <2> HIDE DEF r, K
  <2>7. /\ Ordered(Promote(q)) /\ InDeque(Promote(q).place) = K
        /\ \A s, t \in K : q.place[s] < q.place[t] => Promote(q).place[s] < Promote(q).place[t]
    BY <2>2, <2>4, CompactOrdered
  <2>8. Pending(Promote(q)) = Pending(q) \ {r}
    <3>1. \A s \in Reqs : Promote(q).grant[s] = "pending" <=> s # r /\ q.grant[s] = "pending"
      BY <2>2, <2>4
    <3>q. QED BY <2>2, <2>5, <2>6, <2>7, <3>1, QFacts DEF Pending
  <2>9. \A s \in Reqs : s # r => Promote(q).grant[s] = q.grant[s]
    BY <2>2, <2>4
  <2>10. Promote(q).grant[r] = "held" BY <2>2, <2>4
  <2>11. Pending(Promote(q)) \in SUBSET K BY <2>5, <2>8
  <2>12. \A s \in Reqs : Promote(q).grant[s] = "pending" => q.grant[s] = "pending"
    BY <2>2, <2>9
  <2>13. \A s \in Pending(q) : Promote(q).grant[s] = "pending" => s \in Pending(Promote(q))
    BY <2>8, <2>10
  <2>14. \A s \in Reqs : Promote(q).grant[s] = "held" /\ q.grant[s] # "held" => s = r
    BY <2>9
  <2>q. QED BY <2>1, <2>5, <2>7, <2>8, <2>11, <2>12, <2>13, <2>14, Zenon DEF After
<1>q. QED BY <1>1, <1>2, <1>3

(* Two changes one after the other are one.                                *)
LEMMA AfterTrans ==
  ASSUME NEW q \in QType, NEW m \in QType, NEW u \in QType,
         After(q, m), After(m, u), Ordered(q)
  PROVE  After(q, u)
<1>1. Pending(u) \subseteq Pending(q) /\ Pending(u) \subseteq Pending(m) BY DEF After
<1>2. \A s, t \in Pending(u) : q.place[s] < q.place[t] => u.place[s] < u.place[t]
  BY <1>1, Zenon DEF After
<1>3. \A s \in Reqs : u.grant[s] = "pending" => q.grant[s] = "pending"
  BY Zenon DEF After
<1>4. \A s \in Pending(q) : u.grant[s] = "pending" => s \in Pending(u)
  <2>1. ASSUME NEW s \in Pending(q), u.grant[s] = "pending" PROVE s \in Pending(u)
    <3>1. s \in Reqs BY <2>1, QFacts
    <3>2. m.grant[s] = "pending" BY <2>1, <3>1 DEF After
    <3>q. QED BY <2>1, <3>2 DEF After
  <2>q. QED BY <2>1
<1>5. ASSUME NEW r \in Reqs, u.grant[r] = "held", q.grant[r] # "held"
      PROVE  /\ r \in Pending(q)
             /\ \A s \in Pending(q) \ {r} : u.grant[s] # "pending" \/ q.place[r] < q.place[s]
  <2>1. CASE m.grant[r] = "held"
    <3>1. /\ r \in Pending(q)
          /\ \A s \in Pending(q) \ {r} : m.grant[s] # "pending" \/ q.place[r] < q.place[s]
      BY <1>5, <2>1 DEF After
    <3>2. \A s \in Pending(q) : s \in Reqs BY QFacts
    <3>3. \A s \in Reqs : u.grant[s] = "pending" => m.grant[s] = "pending" BY DEF After
    <3>q. QED BY <3>1, <3>2, <3>3, Zenon
  <2>2. CASE m.grant[r] # "held"
    <3>1. /\ r \in Pending(m)
          /\ \A s \in Pending(m) \ {r} : u.grant[s] # "pending" \/ m.place[r] < m.place[s]
      BY <1>5, <2>2 DEF After
    <3>2. r \in Pending(q) BY <3>1 DEF After
    <3>3. ASSUME NEW s \in Pending(q) \ {r}, u.grant[s] = "pending"
          PROVE  q.place[r] < q.place[s]
      <4>1. s \in Pending(m)
        BY <1>1, <1>4, <3>3
      <4>2. m.place[r] < m.place[s] BY <3>1, <3>3, <4>1
      <4>3. q.place[r] < q.place[s] \/ q.place[s] < q.place[r]
        BY <3>2, <3>3, QFacts DEF Ordered
      <4>4. q.place[s] < q.place[r] => m.place[s] < m.place[r]
        BY <3>1, <4>1 DEF After
      <4>5. m.place[r] \in Nat /\ m.place[s] \in Nat BY <3>1, <4>1, QFacts
      <4>q. QED BY <4>2, <4>3, <4>4, <4>5
    <3>q. QED BY <3>2, <3>3
  <2>q. QED BY <2>1, <2>2
<1>q. QED BY <1>1, <1>2, <1>3, <1>4, <1>5, Zenon DEF After

(* A grant given back or cancelled makes nobody wait or run.               *)
LEMMA ReturnAfter ==
  ASSUME NEW q \in QType, Ordered(q), NEW u \in QType, u.place = q.place,
         \A s \in Reqs : u.grant[s] = q.grant[s] \/ u.grant[s] \notin {"pending", "held"}
  PROVE  After(q, u) /\ Ordered(u)
<1>1. \A s \in Reqs : u.grant[s] = "pending" => q.grant[s] = "pending" OBVIOUS
<1>2. \A s \in Reqs : u.grant[s] = "held" => q.grant[s] = "held" OBVIOUS
<1>3. Pending(u) \subseteq Pending(q) BY <1>1 DEF Pending, InDeque
<1>4. \A s \in Pending(q) : u.grant[s] = "pending" => s \in Pending(u) BY DEF Pending
<1>5. After(q, u) BY <1>1, <1>2, <1>3, <1>4, Zenon DEF After
<1>q. QED BY <1>5, Zenon DEF Ordered

(* A release keeps the order and grants from the front.                    *)
LEMMA ReleaseAfter ==
  ASSUME NEW q \in QType, Ordered(q), permits \in Nat
  PROVE  Release(q) \in QType /\ After(q, Release(q)) /\ Ordered(Release(q))
<1> DEFINE d == [q EXCEPT !.active = Floor(@)]
<1>1. d \in QType /\ d.grant = q.grant /\ Release(q) = Promote(d)
  BY DecrementedType
<1>2. d.place = q.place BY DEF QType
<1> HIDE DEF d
<1>3. After(q, d) /\ Ordered(d) BY <1>1, <1>2, ReturnAfter
<1>4. Promote(d) \in QType BY <1>1, PromoteEffect
<1>q. QED BY <1>1, <1>3, <1>4, PromoteAfter, AfterTrans

(* So does the release of a holder.                                        *)
LEMMA ReleaseOfAfter ==
  ASSUME NEW q \in QType, Ordered(q), permits \in Nat, NEW r \in Reqs
  PROVE  ReleaseOf(q, r) \in QType /\ After(q, ReleaseOf(q, r)) /\ Ordered(ReleaseOf(q, r))
<1> DEFINE g == [q EXCEPT !.grant[r] = "returned"]
<1>1. /\ g \in QType /\ g.place = q.place
      /\ \A s \in Reqs : g.grant[s] = q.grant[s] \/ g.grant[s] = "returned"
  BY DEF QType, Grants
<1>2. ReleaseOf(q, r) = Release(g) BY DEF ReleaseOf
<1> HIDE DEF g
<1>3. After(q, g) /\ Ordered(g) BY <1>1, ReturnAfter
<1>q. QED BY <1>1, <1>2, <1>3, ReleaseAfter, AfterTrans

----------------------------------------------------------------------------
(* The steps.                                                              *)

(* What a step does to the queue, when it is not a request that arrives.   *)
QueueStep == Ordered(Q)' /\ After(Q, Q') /\ \A r \in Reqs : pc[r] # "refused" => pc'[r] # "refused"

(* A step that sets the queue to what follows it.                          *)
LEMMA SetAfter ==
  ASSUME NEW u \in QType, SetQ(u), After(Q, u), Ordered(u)
  PROVE  Ordered(Q)' /\ After(Q, Q')
<1>1. Q' = u BY DEF SetQ, Q, QType
<1>2. Ordered(Q') BY <1>1, Zenon
<1>q. QED BY <1>1, <1>2, Zenon

(* The queue's steps apart from arrivals.                                  *)
LEMMA ReleaseStep ==
  ASSUME TypeOK, Ordered(Q), NEW r \in Reqs,
         \/ CancelCleanup(r) \/ LockTimeout(r) \/ FailInLock(r) \/ EndSync(r)
         \/ GenComplete(r) \/ GuardRelease(r) \/ WatchdogIdle
  PROVE  Ordered(Q)' /\ After(Q, Q')
<1>1. Q \in QType /\ permits \in Nat BY QTyped DEF TypeOK
<1>2. After(Q, Q)
  BY <1>1, ReturnAfter
<1>3. \/ SetQ(Prune(Q)) \/ SetQ(ReleaseOf(Q, r)) \/ SetQ(Release(ReleaseOf(Q, r)))
      \/ SetQ(Release(Q)) \/ UNCHANGED qvars
  BY Zenon DEF CancelCleanup, LockTimeout, FailInLock, EndSync, GenComplete, GuardRelease,
     ReleaseSlot, WatchdogIdle
<1>4. CASE SetQ(Prune(Q)) BY <1>1, <1>4, PruneAfter, PruneEffect, SetAfter
<1>5. CASE SetQ(ReleaseOf(Q, r)) BY <1>1, <1>5, ReleaseOfAfter, SetAfter
<1>6. CASE SetQ(Release(ReleaseOf(Q, r)))
  <2>1. /\ ReleaseOf(Q, r) \in QType /\ After(Q, ReleaseOf(Q, r)) /\ Ordered(ReleaseOf(Q, r))
    BY <1>1, ReleaseOfAfter
  <2>2. /\ Release(ReleaseOf(Q, r)) \in QType /\ Ordered(Release(ReleaseOf(Q, r)))
        /\ After(ReleaseOf(Q, r), Release(ReleaseOf(Q, r)))
    BY <1>1, <2>1, ReleaseAfter
  <2>q. QED BY <1>1, <1>6, <2>1, <2>2, AfterTrans, SetAfter
<1>7. CASE SetQ(Release(Q)) BY <1>1, <1>7, ReleaseAfter, SetAfter
<1>8. CASE UNCHANGED qvars
  <2>1. SetQ(Q) BY <1>8 DEF qvars, SetQ, Q
  <2>q. QED BY <1>1, <1>2, <2>1, SetAfter
<1>q. QED BY <1>3, <1>4, <1>5, <1>6, <1>7, <1>8

(* A deadline cancels the future, which stays in the deque.                *)
LEMMA DeadlineStep ==
  ASSUME TypeOK, Ordered(Q), NEW r \in Reqs, QueueDeadline(r)
  PROVE  Ordered(Q)' /\ After(Q, Q')
<1> DEFINE u == [active |-> active, place |-> place,
                 grant |-> [grant EXCEPT ![r] = IF @ = "pending" THEN "cancelled" ELSE @]]
<1>1. Q \in QType BY QTyped
<1>2. u \in QType /\ u.place = Q.place
  BY DEF TypeOK, QType, Grants, Q
<1>3. \A s \in Reqs : u.grant[s] = Q.grant[s] \/ u.grant[s] \notin {"pending", "held"}
  BY DEF TypeOK, Q
<1>4. SetQ(u) BY DEF QueueDeadline, SetQ
<1> HIDE DEF u
<1>q. QED BY <1>1, <1>2, <1>3, <1>4, ReturnAfter, SetAfter

(* No step but an arrival refuses a request.                               *)
LEMMA NoRefusal ==
  ASSUME TypeOK, NEW r \in Reqs, RequestStep(r) \/ Watchdog, ~Arrive(r),
         NEW s \in Reqs, pc[s] # "refused"
  PROVE  pc'[s] # "refused"
<1>1. CASE \E x \in {"admitted", "cancelling", "done", "haslock", "locked", "lockwait", "sync",
                     "stream", "stalled", "orphan"} : pc' = [pc EXCEPT ![r] = x]
  BY <1>1 DEF TypeOK
<1>2. CASE UNCHANGED pc BY <1>2
<1>3. ASSUME NEW next \in {"done", "released"}, UnlockAndGo(r, next) PROVE pc'[s] # "refused"
  BY <1>3, UnlockEffect DEF OnlyMoves, Places
<1>4. CASE LockTimeout(r)
  <2> DEFINE gone == [pc EXCEPT ![r] = "done"]
             W == WaitersOf(lk[r]) \ {r}
  <2>1. gone \in [Reqs -> Places] /\ gone[s] # "refused" /\ W \in SUBSET Reqs
    BY DEF TypeOK, Places, WaitersOf
  <2>2. pc' = gone \/ pc' = Wake(gone, W) BY <1>4 DEF LockTimeout
  <2> HIDE DEF gone, W
  <2>q. QED BY <2>1, <2>2, WakeEffect
<1>5. CASE Watchdog
  BY <1>2, <1>5, Zenon DEF Watchdog, WatchdogWake, WatchdogBusy, WatchdogIdle
<1>6. CASE GetLock(r) \/ AcquireLock(r) \/ TakeLock(r)
  BY <1>1, <1>6, SMT DEF GetLock, AcquireLock, TakeLock
<1>7. CASE Resume(r) \/ QueueDeadline(r) \/ CancelCleanup(r) \/ StartSync(r) \/ StartStream(r)
           \/ Backpressure(r) \/ GenClose(r)
  BY <1>1, <1>7, SMT DEF Resume, QueueDeadline, CancelCleanup, StartSync, StartStream,
      Backpressure, GenClose
<1>8. CASE SessionEnd(r) BY <1>2, <1>8 DEF SessionEnd
<1>9. CASE FailInLock(r) \/ EndSync(r) \/ GenComplete(r) \/ GuardRelease(r)
  BY <1>3, <1>9, Zenon DEF FailInLock, EndSync, GenComplete, GuardRelease, ReleaseSlot
<1>q. QED BY <1>4, <1>5, <1>6, <1>7, <1>8, <1>9, Zenon DEF RequestStep

(* Every step but an arrival.                                              *)
LEMMA OtherSteps ==
  ASSUME TypeOK, Ordered(Q), [Next]_vars, ~ \E r \in Reqs : Arrive(r)
  PROVE  QueueStep
<1>1. Q \in QType BY QTyped
<1>2. CASE UNCHANGED <<qvars, pc>>
  <2>1. SetQ(Q) BY <1>2 DEF qvars, SetQ, Q
  <2>2. After(Q, Q) BY <1>1, ReturnAfter
  <2>q. QED BY <1>1, <1>2, <2>1, <2>2, SetAfter DEF QueueStep
<1>3. ASSUME NEW r \in Reqs, RequestStep(r) PROVE QueueStep
  <2>1. CASE UNCHANGED qvars
    <3>1. SetQ(Q) BY <2>1 DEF qvars, SetQ, Q
    <3>2. After(Q, Q) BY <1>1, ReturnAfter
    <3>q. QED BY <1>1, <1>3, <3>1, <3>2, SetAfter, NoRefusal, Zenon DEF QueueStep
  <2>2. CASE ~UNCHANGED qvars
    <3>1. \/ CancelCleanup(r) \/ LockTimeout(r) \/ FailInLock(r) \/ EndSync(r)
          \/ GenComplete(r) \/ GuardRelease(r) \/ QueueDeadline(r)
      BY <1>3, <2>2, Zenon DEF RequestStep, Resume, GetLock, AcquireLock, TakeLock, StartSync,
         StartStream, SessionEnd, Backpressure, GenClose
    <3>q. QED BY <1>3, <3>1, ReleaseStep, DeadlineStep, NoRefusal, Zenon DEF QueueStep
  <2>q. QED BY <2>1, <2>2
<1>4. CASE Watchdog
  <2>1. Reqs = {} \/ \E r \in Reqs : TRUE OBVIOUS
  <2>2. UNCHANGED pc
    BY <1>4, Zenon DEF Watchdog, WatchdogWake, WatchdogBusy, WatchdogIdle
  <2>3. CASE UNCHANGED qvars BY <1>2, <2>2, <2>3
  <2>4. CASE SetQ(Release(Q))
    <3>1. permits \in Nat BY DEF TypeOK
    <3>q. QED BY <1>1, <2>2, <2>4, <3>1, ReleaseAfter, SetAfter DEF QueueStep
  <2>q. QED
    BY <1>4, <2>3, <2>4, Zenon DEF Watchdog, WatchdogWake, WatchdogBusy, WatchdogIdle
<1>q. QED BY <1>2, <1>3, <1>4, Zenon DEF Next, vars, qvars

(* An arrival: of three kinds, the deque pruned first.                     *)
LEMMA ArriveStep ==
  ASSUME IInv, QueueInv, NEW r \in Reqs, Arrive(r)
  PROVE  /\ QueueInv'
         /\ \A s \in Reqs : grant[s] # "held" /\ grant'[s] = "held" => Pending(Q) = {}
         /\ \A s \in Reqs : pc[s] # "refused" /\ pc'[s] = "refused"
                              => Cardinality(Pending(Q)) = MaxWaiting
<1> DEFINE q == Prune(Q)
<1>1. /\ q \in QType /\ q.active = active /\ q.grant = grant
      /\ InDeque(q.place) = Pending(Q) /\ Pending(q) = Pending(Q)
      /\ Ordered(q) /\ Q \in QType
  BY QTyped, PruneEffect, PruneAfter DEF IInv, QueueInv, Q
<1>2. PICK p \in PermitChoices :
        \/ /\ FastPath(p, q)
           /\ SetQ([q EXCEPT !.active = @ + 1, !.grant[r] = "held"])
           /\ pc' = [pc EXCEPT ![r] = "admitted"]
        \/ /\ Cardinality(InDeque(q.place)) >= MaxWaiting
           /\ SetQ(q)
           /\ pc' = [pc EXCEPT ![r] = "refused"]
        \/ /\ Cardinality(InDeque(q.place)) < MaxWaiting
           /\ SetQ([q EXCEPT !.place[r] = Cardinality(InDeque(q.place)) + 1,
                             !.grant[r] = "pending"])
           /\ pc' = [pc EXCEPT ![r] = "queued"]
  BY Zenon DEF Arrive
<1>3. pc[r] = "idle" /\ grant[r] = "none" /\ pc \in [Reqs -> Places] /\ grant \in [Reqs -> Grants]
  BY DEF Arrive, IInv, Coupled, Fits, TypeOK
<1>4. /\ Pending(Q) \in SUBSET Reqs /\ IsFiniteSet(Pending(Q))
      /\ Cardinality(Pending(Q)) \in Nat /\ Cardinality(Pending(Q)) <= MaxWaiting
      /\ MaxWaiting \in Nat
  BY <1>1, QFacts, ReqsFinite, FS_Subset, FS_CardinalityType, BoundsAssumption DEF QueueInv
<1> HIDE DEF q
<1>5. CASE /\ FastPath(p, q)
           /\ SetQ([q EXCEPT !.active = @ + 1, !.grant[r] = "held"])
           /\ pc' = [pc EXCEPT ![r] = "admitted"]
  <2>1. Pending(Q) = {} BY <1>1, <1>5 DEF FastPath
  <2>2. place' = q.place BY <1>1, <1>5 DEF SetQ, QType
  <2>3. InDeque(place') = {} BY <1>1, <2>1, <2>2
  <2>4. Ordered(Q)' /\ Pending(Q)' = {} BY <2>3 DEF Ordered, Pending, Q
  <2>5. QueueInv' BY <1>4, <2>1, <2>4 DEF QueueInv
  <2>6. \A s \in Reqs : pc[s] # "refused" => pc'[s] # "refused" BY <1>3, <1>5
  <2>q. QED BY <2>1, <2>5, <2>6
<1>6. CASE /\ Cardinality(InDeque(q.place)) >= MaxWaiting
           /\ SetQ(q)
           /\ pc' = [pc EXCEPT ![r] = "refused"]
  <2>1. Q' = q BY <1>1, <1>6 DEF SetQ, Q, QType
  <2>2. QueueInv'
    <3>1. Ordered(Q') /\ Pending(Q') = Pending(Q) BY <1>1, <2>1, Zenon
    <3>q. QED BY <1>4, <3>1 DEF QueueInv
  <2>3. grant' = grant BY <1>1, <1>6 DEF SetQ
  <2>4. Cardinality(Pending(Q)) = MaxWaiting BY <1>1, <1>4, <1>6
  <2>q. QED BY <2>2, <2>3, <2>4
<1>7. CASE /\ Cardinality(InDeque(q.place)) < MaxWaiting
           /\ SetQ([q EXCEPT !.place[r] = Cardinality(InDeque(q.place)) + 1,
                             !.grant[r] = "pending"])
           /\ pc' = [pc EXCEPT ![r] = "queued"]
  <2> DEFINE n == Cardinality(Pending(Q))
  <2>1. place' = [q.place EXCEPT ![r] = n + 1] /\ grant' = [grant EXCEPT ![r] = "pending"]
    BY <1>1, <1>7 DEF SetQ, QType
  <2>2. q.place \in [Reqs -> Nat] BY <1>1, QFacts
  <2>3. r \notin Pending(Q) BY <1>1, <1>3, QFacts
  <2>4. \A s \in Pending(Q) : q.place[s] \in 1 .. n
    <3>1. q.place = Compact(place, Pending(Q)) /\ place \in [Reqs -> Nat]
      BY DEF q, Prune, Q, IInv, TypeOK
    <3>q. QED BY <1>4, <3>1, CompactOrder
  <2> HIDE DEF n
  <2>5. n \in Nat BY <1>4 DEF n
  <2>6. InDeque(place') = Pending(Q) \cup {r}
    BY <1>1, <2>1, <2>2, <2>5 DEF InDeque
  <2>7. Ordered(Q)'
    <3>1. ASSUME NEW s \in Pending(Q) \cup {r}, NEW t \in Pending(Q) \cup {r}, s # t
          PROVE  place'[s] # place'[t]
      <4>1. CASE s # r /\ t # r
        <5>1. q.place[s] # q.place[t] BY <1>1, <3>1, <4>1 DEF Ordered
        <5>2. place'[s] = q.place[s] /\ place'[t] = q.place[t]
          BY <1>4, <2>1, <2>2, <3>1, <4>1
        <5>q. QED BY <5>1, <5>2
      <4>2. CASE s = r
        BY <1>4, <2>1, <2>2, <2>4, <2>5, <3>1, <4>2
      <4>3. CASE t = r
        BY <1>4, <2>1, <2>2, <2>4, <2>5, <3>1, <4>3
      <4>q. QED BY <4>1, <4>2, <4>3
    <3>q. QED BY <2>6, <3>1 DEF Ordered, Q
  <2>8. Pending(Q)' \in SUBSET (Pending(Q) \cup {r})
    BY <2>6 DEF Pending, Q
  <2>9. Cardinality(Pending(Q) \cup {r}) = n + 1 /\ IsFiniteSet(Pending(Q) \cup {r})
    BY <1>4, <2>3, FS_AddElement DEF n
  <2>10. Cardinality(Pending(Q)') <= n + 1 /\ Cardinality(Pending(Q)') \in Nat
    BY <2>8, <2>9, FS_Subset, FS_CardinalityType
  <2>11. n < MaxWaiting BY <1>1, <1>7 DEF n
  <2>12. QueueInv'
    <3>1. Cardinality(Pending(Q)') <= MaxWaiting BY <1>4, <2>5, <2>10, <2>11
    <3>q. QED BY <2>7, <3>1 DEF QueueInv
  <2>13. \A s \in Reqs : grant'[s] = "held" => grant[s] = "held" BY <1>3, <2>1
  <2>14. \A s \in Reqs : pc[s] # "refused" => pc'[s] # "refused" BY <1>3, <1>7
  <2>q. QED BY <2>12, <2>13, <2>14
<1>q. QED BY <1>2, <1>5, <1>6, <1>7

(* Every step keeps the queue in order and within its bound.               *)
LEMMA StepQueue ==
  ASSUME IInv, QueueInv, [Next]_vars PROVE QueueInv'
<1>1. CASE \E r \in Reqs : Arrive(r) BY <1>1, ArriveStep
<1>2. CASE ~ \E r \in Reqs : Arrive(r)
  <2>1. QueueStep BY <1>2, OtherSteps DEF IInv, QueueInv
  <2>2. Q \in QType /\ MaxWaiting \in Nat BY QTyped, BoundsAssumption DEF IInv
  <2>3. IsFiniteSet(Pending(Q)) BY <2>2, QFacts, ReqsFinite, FS_Subset
  <2>4. Pending(Q') \in SUBSET Pending(Q) BY <2>1 DEF QueueStep, After
  <2>5. Cardinality(Pending(Q')) <= Cardinality(Pending(Q))
        /\ Cardinality(Pending(Q)) \in Nat /\ Cardinality(Pending(Q')) \in Nat
    BY <2>3, <2>4, FS_Subset, FS_CardinalityType
  <2>6. Cardinality(Pending(Q')) <= MaxWaiting BY <2>2, <2>5 DEF QueueInv
  <2>q. QED BY <2>1, <2>6 DEF QueueStep, QueueInv
<1>q. QED BY <1>1, <1>2

(* The queue is empty at the start.                                        *)
LEMMA InitQueue == Init => QueueInv
<1>1. ASSUME Init PROVE InDeque(Q.place) = {} /\ Pending(Q) = {}
  BY <1>1 DEF Init, InDeque, Pending, Q
<1>2. Cardinality({}) = 0 BY FS_EmptySet
<1>q. QED BY <1>1, <1>2, BoundsAssumption DEF QueueInv, Ordered

----------------------------------------------------------------------------
(* Admission is first come first served (FifoAdmission), for any number of *)
(* requests, through deadlines, cancellations, double releases and heals:  *)
(* q_acquire's fast path and q_promote never overtake a live waiter.       *)
THEOREM FirstComeFirstServed == Spec => FifoAdmission
<1>1. ASSUME IInv, QueueInv, [Next]_vars, NEW r \in Reqs, NEW s \in Reqs,
             grant[r] # "held", grant'[r] = "held", s # r, s \in Pending(Q)
      PROVE  grant'[s] # "pending" \/ (grant[r] = "pending" /\ place[r] < place[s])
  <2>1. CASE \E t \in Reqs : Arrive(t) BY <1>1, <2>1, ArriveStep
  <2>2. CASE ~ \E t \in Reqs : Arrive(t)
    <3>1. After(Q, Q') BY <1>1, <2>2, OtherSteps DEF IInv, QueueInv, QueueStep
    <3>2. Q.grant = grant /\ Q.place = place /\ Q'.grant = grant' BY DEF Q
    <3>3. /\ r \in Pending(Q)
          /\ \A t \in Pending(Q) \ {r} : grant'[t] # "pending" \/ place[r] < place[t]
      BY <1>1, <3>1, <3>2, Zenon DEF After
    <3>4. grant[r] = "pending" BY <3>2, <3>3 DEF Pending
    <3>q. QED BY <1>1, <3>3, <3>4
  <2>q. QED BY <2>1, <2>2
<1>2. ASSUME IInv, QueueInv, [Next]_vars
      PROVE  \A r, s \in Reqs :
               (grant[r] # "held" /\ grant'[r] = "held" /\ s # r /\ s \in Pending(Q))
                 => \/ grant'[s] # "pending"
                    \/ (grant[r] = "pending" /\ place[r] < place[s])
  BY <1>1, <1>2
<1>q. QED BY <1>2, Inductive, InitQueue, StepQueue, PTL DEF Spec, FifoAdmission

(* A 429 is given only for a queue of MAX_WAITING live waiters             *)
(* (RefusedOnlyWhenFull): waiters that timed out never count.              *)
THEOREM RefusedWhenFull == Spec => RefusedOnlyWhenFull
<1>1. ASSUME IInv, QueueInv, [Next]_vars
      PROVE  \A r \in Reqs : (pc[r] # "refused" /\ pc'[r] = "refused")
                               => Cardinality(Pending(Q)) = MaxWaiting
  <2>1. CASE \E t \in Reqs : Arrive(t) BY <1>1, <2>1, ArriveStep
  <2>2. CASE ~ \E t \in Reqs : Arrive(t)
    <3>1. QueueStep BY <1>1, <2>2, OtherSteps DEF IInv, QueueInv
    <3>q. QED BY <3>1 DEF QueueStep
  <2>q. QED BY <2>1, <2>2
<1>q. QED BY <1>1, Inductive, InitQueue, StepQueue, PTL DEF Spec, RefusedOnlyWhenFull
=============================================================================
