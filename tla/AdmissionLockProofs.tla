------------------------- MODULE AdmissionLockProofs -------------------------
(***************************************************************************)
(* Proofs about the conversation locks of Admission: a lock object has one *)
(* holder at a time, and engine sessions under one lock object overlap     *)
(* only after a stream's release.  The argument: a woken waiter is ahead   *)
(* of every other waiter of its lock (OrderInv), so there is one at most,  *)
(* and the lock it was woken for is still unlocked (OwnerInv).             *)
(***************************************************************************)
EXTENDS AdmissionProofs

(* A holder's lock is locked and its own; a woken waiter's is unlocked.    *)
OwnerInv ==
  /\ \A r \in Reqs : Waiting(r) \/ HoldsConv(r) \/ pc[r] = "haslock" => lk[r] \in Reqs
  /\ \A r \in Reqs : HoldsConv(r) => locked[lk[r]]
  /\ LockExclusive
  /\ \A r \in Reqs : pc[r] = "lockwoken" => ~locked[lk[r]]

(* The places of a lock's waiters are distinct and no larger than their    *)
(* number; a woken waiter's is the least.                                  *)
OrderInv ==
  /\ \A r \in Reqs : Waiting(r) => lplace[r] \in 1 .. Cardinality(WaitersOf(lk[r]))
  /\ \A r, s \in Reqs : Waiting(r) /\ Waiting(s) /\ lk[r] = lk[s] /\ r # s
                          => /\ lplace[r] # lplace[s]
                             /\ pc[r] = "lockwoken" => lplace[r] < lplace[s]

(* A session runs only under a lock or after its stream's release.         *)
SessInv ==
  \A r \in Reqs : sess[r] = "run"
    => pc[r] \in {"sync", "stream", "stalled", "orphan", "released"}

LockInv == OwnerInv /\ OrderInv /\ SessInv

----------------------------------------------------------------------------
(* The deque of a lock.                                                    *)

(* What Wake does to the waiters W of a lock: it wakes the first, and no   *)
(* other is woken.                                                         *)
LEMMA WakeFirst ==
  ASSUME NEW f \in [Reqs -> Places], NEW W \in SUBSET Reqs, TypeOK
  PROVE  \A s \in Reqs : Wake(f, W)[s] # f[s]
           => s \in W /\ f[s] = "lockwait" /\ Wake(f, W)[s] = "lockwoken"
              /\ \A t \in W : lplace[s] <= lplace[t]
<1>1. CASE W = {}
  BY <1>1 DEF Wake
<1>2. CASE W # {}
  <2> DEFINE r == Front(lplace, W)
  <2>1. r \in W /\ \A t \in W : lplace[r] <= lplace[t]
    BY <1>2, FrontExists DEF TypeOK
  <2> HIDE DEF r
  <2>2. Wake(f, W) = IF f[r] = "lockwait" THEN [f EXCEPT ![r] = "lockwoken"] ELSE f
    BY <1>2 DEF Wake, r
  <2>q. QED BY <2>1, <2>2
<1>q. QED BY <1>1, <1>2

----------------------------------------------------------------------------
(* The steps that leave the locks alone.                                   *)

(* A task that moves outside the locks' deques, and neither takes nor      *)
(* leaves a lock.                                                          *)
LEMMA MoveOwner ==
  ASSUME OwnerInv, OrderInv, TypeOK, NEW r \in Reqs, NEW x, pc' = [pc EXCEPT ![r] = x],
         UNCHANGED <<lk, locked, lplace>>,
         x \notin {"haslock", "lockwait", "lockwoken"},
         pc[r] \notin {"lockwait", "lockwoken"},
         x \in ConvHeld => HoldsConv(r)
  PROVE  OwnerInv' /\ OrderInv'
<1>1. \A s \in Reqs : /\ Waiting(s)' <=> Waiting(s)
                      /\ HoldsConv(s)' => HoldsConv(s)
                      /\ pc'[s] = "haslock" => pc[s] = "haslock"
                      /\ pc'[s] = "lockwoken" <=> pc[s] = "lockwoken"
  BY DEF TypeOK, Waiting, HoldsConv
<1>2. \A l : WaitersOf(l)' = WaitersOf(l)
  BY <1>1, Zenon DEF WaitersOf
<1>3. OwnerInv'
  BY <1>1, Zenon DEF OwnerInv, LockExclusive
<1>4. OrderInv'
  BY <1>1, <1>2, Zenon DEF OrderInv
<1>q. QED BY <1>3, <1>4

(* The moves of a request's task.                                          *)
LEMMA MoveLock ==
  ASSUME LockInv, TypeOK, NEW r \in Reqs,
         \/ Arrive(r) \/ Resume(r) \/ QueueDeadline(r) \/ CancelCleanup(r)
         \/ StartSync(r) \/ StartStream(r) \/ Backpressure(r) \/ GenClose(r)
  PROVE  LockInv'
<1>1. PICK x : pc' = [pc EXCEPT ![r] = x]
               /\ x \notin {"haslock", "lockwait", "lockwoken"}
               /\ pc[r] \notin {"lockwait", "lockwoken"}
               /\ (x \in ConvHeld => HoldsConv(r))
               /\ (sess[r] = "run" \/ sess' # sess => x \in {"sync", "stream", "stalled", "orphan"})
  BY SMT DEF LockInv, SessInv, Arrive, Resume, QueueDeadline, CancelCleanup, StartSync,
      StartStream, Backpressure, GenClose, HoldsConv, ConvHeld
<1>2. UNCHANGED <<lk, locked, lplace>>
  BY SMT DEF Arrive, Resume, QueueDeadline, CancelCleanup, StartSync, StartStream,
      Backpressure, GenClose, lockvars
<1>3. UNCHANGED sess \/ sess' = [sess EXCEPT ![r] = "run"]
  BY SMT DEF Arrive, Resume, QueueDeadline, CancelCleanup, StartSync, StartStream,
      Backpressure, GenClose
<1>4. SessInv'
  BY <1>1, <1>3 DEF LockInv, SessInv, TypeOK
<1>q. QED BY <1>1, <1>2, <1>4, MoveOwner DEF LockInv

(* A session that ends, and the watchdog.                                  *)
LEMMA SameLock ==
  ASSUME LockInv, TypeOK, UNCHANGED <<pc, lk, locked, lplace>>,
         UNCHANGED sess \/ \E r \in Reqs : sess' = [sess EXCEPT ![r] = "end"]
  PROVE  LockInv'
<1>1. OwnerInv'
  BY Zenon DEF LockInv, OwnerInv, LockExclusive, Waiting, HoldsConv
<1>2. OrderInv'
  BY Zenon DEF LockInv, OrderInv, Waiting, WaitersOf
<1>3. SessInv'
  BY SMT DEF LockInv, SessInv, TypeOK
<1>q. QED BY <1>1, <1>2, <1>3 DEF LockInv

----------------------------------------------------------------------------
(* The steps of the locks.                                                 *)

(* A task looks up its conversation's lock object.                         *)
LEMMA GetLockLock ==
  ASSUME LockInv, TypeOK, NEW r \in Reqs, GetLock(r) PROVE LockInv'
<1>1. /\ pc[r] = "admitted" /\ pc' = [pc EXCEPT ![r] = "haslock"]
      /\ UNCHANGED <<locked, lplace, sess>>
  BY Zenon DEF GetLock
<1>2. PICK l \in Reqs : lk' = [lk EXCEPT ![r] = l]
  <2>1. registry[ConvOf[r]] \in Reqs \cup {NoLock}
    BY ConvOfType DEF TypeOK
  <2>2. (IF registry[ConvOf[r]] = NoLock THEN r ELSE registry[ConvOf[r]]) \in Reqs
    BY <2>1
  <2>q. QED BY <2>2, Zenon DEF GetLock
<1>3. \A s \in Reqs : /\ Waiting(s)' <=> Waiting(s)
                      /\ HoldsConv(s)' <=> HoldsConv(s)
                      /\ pc'[s] = "haslock" => s = r \/ pc[s] = "haslock"
                      /\ pc'[s] = "lockwoken" <=> pc[s] = "lockwoken"
                      /\ s # r => lk'[s] = lk[s]
  BY <1>1, <1>2 DEF TypeOK, Waiting, HoldsConv, ConvHeld
<1>4. ~Waiting(r) /\ ~HoldsConv(r) /\ lk'[r] \in Reqs
  BY <1>1, <1>2 DEF TypeOK, Waiting, HoldsConv, ConvHeld
<1>5. \A k : WaitersOf(k)' = WaitersOf(k)
  BY <1>3, <1>4, Zenon DEF WaitersOf
<1>6. \A s \in Reqs : pc[s] = "lockwoken" => Waiting(s) BY DEF Waiting
<1>7. OwnerInv'
  <2>1. \A s \in Reqs : Waiting(s)' \/ HoldsConv(s)' \/ pc'[s] = "haslock" => lk'[s] \in Reqs
    BY <1>3, <1>4, Zenon DEF LockInv, OwnerInv
  <2>2. \A s \in Reqs : HoldsConv(s)' => lk'[s] = lk[s] /\ HoldsConv(s)
    BY <1>3, <1>4, Zenon
  <2>3. \A s \in Reqs : HoldsConv(s)' => locked'[lk'[s]]
    BY <1>1, <2>2, Zenon DEF LockInv, OwnerInv
  <2>4. LockExclusive'
    BY <2>2, Zenon DEF LockInv, OwnerInv, LockExclusive
  <2>5. \A s \in Reqs : pc'[s] = "lockwoken" => lk'[s] = lk[s] /\ pc[s] = "lockwoken"
    BY <1>3, <1>4, <1>6, Zenon
  <2>6. \A s \in Reqs : pc'[s] = "lockwoken" => ~locked'[lk'[s]]
    BY <1>1, <2>5, Zenon DEF LockInv, OwnerInv
  <2>q. QED BY <2>1, <2>3, <2>4, <2>6 DEF OwnerInv
<1>8. OrderInv'
  BY <1>1, <1>3, <1>4, <1>5, ZenonT(30) DEF LockInv, OrderInv
<1>9. SessInv'
  BY <1>1 DEF LockInv, SessInv, TypeOK
<1>q. QED BY <1>7, <1>8, <1>9 DEF LockInv

(* A lock taken is unlocked and nobody else holds it or is woken for it.   *)
LEMMA TakeOwner ==
  ASSUME OwnerInv, TypeOK, NEW r \in Reqs, lk[r] \in Reqs, ~locked[lk[r]],
         \A s \in Reqs : pc[s] = "lockwoken" /\ lk[s] = lk[r] => s = r,
         locked' = [locked EXCEPT ![lk[r]] = TRUE],
         pc' = [pc EXCEPT ![r] = "locked"], UNCHANGED lk
  PROVE  OwnerInv'
<1>1. \A s \in Reqs \ {r} : pc'[s] = pc[s]
  BY DEF TypeOK
<1>2. pc'[r] = "locked" BY DEF TypeOK
<1>3. locked'[lk[r]] = TRUE BY DEF TypeOK
<1>4. \A l \in Reqs : l # lk[r] => locked'[l] = locked[l] BY DEF TypeOK
<1>5. \A s \in Reqs : HoldsConv(s) => lk[s] # lk[r]
  BY Zenon DEF OwnerInv
<1>6. \A s \in Reqs \ {r} : /\ Waiting(s)' <=> Waiting(s)
                            /\ HoldsConv(s)' <=> HoldsConv(s)
  BY <1>1, Zenon DEF Waiting, HoldsConv
<1>7. \A s \in Reqs : Waiting(s)' \/ HoldsConv(s)' \/ pc'[s] = "haslock" => lk'[s] \in Reqs
  BY <1>1, <1>6, Zenon DEF OwnerInv
<1>8. ASSUME NEW s \in Reqs, HoldsConv(s)' PROVE locked'[lk'[s]]
  <2>1. CASE s = r BY <1>3, <2>1
  <2>2. CASE s # r
    <3>1. lk[s] \in Reqs /\ locked[lk[s]] BY <1>6, <1>8, <2>2, Zenon DEF OwnerInv
    <3>2. lk[s] # lk[r] BY <3>1
    <3>3. locked'[lk[s]] = locked[lk[s]] BY <1>4, <3>1, <3>2
    <3>q. QED BY <3>1, <3>3
  <2>q. QED BY <2>1, <2>2
<1>9. LockExclusive'
  BY <1>5, <1>6, Zenon DEF OwnerInv, LockExclusive
<1>10. ASSUME NEW s \in Reqs, pc'[s] = "lockwoken" PROVE ~locked'[lk'[s]]
  <2>1. s # r BY <1>2, <1>10
  <2>2. pc[s] = "lockwoken" BY <1>1, <1>10, <2>1
  <2>3. lk[s] # lk[r] BY <2>1, <2>2
  <2>4. lk[s] \in Reqs /\ ~locked[lk[s]] BY <2>2, Zenon DEF OwnerInv, Waiting
  <2>q. QED BY <1>4, <2>3, <2>4
<1>q. QED BY <1>7, <1>8, <1>9, <1>10 DEF OwnerInv

(* A newcomer takes the lock, or goes behind every waiter.                 *)
LEMMA AcquireLockLock ==
  ASSUME LockInv, TypeOK, NEW r \in Reqs, AcquireLock(r) PROVE LockInv'
<1> DEFINE W == WaitersOf(lk[r])
<1>1. pc[r] = "haslock" /\ UNCHANGED <<lk, sess>> /\ lk[r] \in Reqs
  BY Zenon DEF AcquireLock, LockInv, OwnerInv
<1>2. r \notin W /\ IsFiniteSet(W) /\ Cardinality(W) \in Nat
  BY <1>1, ReqsFinite, FS_Subset, FS_CardinalityType DEF WaitersOf, Waiting
<1>3. CASE ~locked[lk[r]] /\ W = {}
  <2>1. /\ locked' = [locked EXCEPT ![lk[r]] = TRUE] /\ pc' = [pc EXCEPT ![r] = "locked"]
        /\ UNCHANGED lplace
    BY <1>3, Zenon DEF AcquireLock
  <2>2. \A s \in Reqs : pc[s] = "lockwoken" => lk[s] # lk[r]
    BY <1>3, Zenon DEF WaitersOf, Waiting
  <2>3. OwnerInv' BY <1>1, <1>3, <2>1, <2>2, TakeOwner DEF LockInv
  <2>4. \A s \in Reqs : /\ Waiting(s)' <=> Waiting(s)
                        /\ pc'[s] = "lockwoken" <=> pc[s] = "lockwoken"
    BY <1>1, <2>1 DEF TypeOK, Waiting
  <2>5. \A l : WaitersOf(l)' = WaitersOf(l) BY <1>1, <2>4, Zenon DEF WaitersOf
  <2>6. OrderInv' BY <1>1, <2>1, <2>4, <2>5, Zenon DEF LockInv, OrderInv
  <2>7. SessInv' BY <1>1, <2>1 DEF LockInv, SessInv, TypeOK
  <2>q. QED BY <2>3, <2>6, <2>7 DEF LockInv
<1>4. CASE ~(~locked[lk[r]] /\ W = {})
  <2>1. /\ lplace' = [lplace EXCEPT ![r] = Cardinality(W) + 1]
        /\ pc' = [pc EXCEPT ![r] = "lockwait"] /\ UNCHANGED locked
    BY <1>4, Zenon DEF AcquireLock
  <2>2. \A s \in Reqs : /\ s # r => (Waiting(s)' <=> Waiting(s)) /\ lplace'[s] = lplace[s]
                        /\ HoldsConv(s)' <=> HoldsConv(s)
                        /\ pc'[s] = "haslock" => pc[s] = "haslock"
                        /\ pc'[s] = "lockwoken" <=> pc[s] = "lockwoken"
    BY <1>1, <2>1 DEF TypeOK, Waiting, HoldsConv, ConvHeld
  <2>3. Waiting(r)' /\ ~HoldsConv(r)' /\ pc'[r] # "lockwoken"
        /\ lplace'[r] = Cardinality(W) + 1
    BY <2>1 DEF TypeOK, Waiting, HoldsConv, ConvHeld
  <2>4. OwnerInv'
    BY <1>1, <2>1, <2>2, <2>3, Zenon DEF LockInv, OwnerInv, LockExclusive
  <2>5. \A s \in Reqs : WaitersOf(lk[s])' = IF lk[s] = lk[r] THEN W \cup {r} ELSE WaitersOf(lk[s])
    BY <1>1, <2>2, <2>3 DEF WaitersOf
  <2>6. Cardinality(W \cup {r}) = Cardinality(W) + 1 BY <1>2, FS_AddElement
  <2> HIDE DEF W
  <2>7. ASSUME NEW s \in Reqs, Waiting(s)'
        PROVE  lplace'[s] \in 1 .. Cardinality(WaitersOf(lk[s])')
    <3>1. CASE s = r BY <1>2, <2>3, <2>5, <2>6, <3>1
    <3>2. CASE s # r
      <4>1. lplace'[s] = lplace[s] /\ lplace[s] \in 1 .. Cardinality(WaitersOf(lk[s]))
        BY <2>2, <2>7, <3>2, Zenon DEF LockInv, OrderInv
      <4>2. CASE lk[s] = lk[r] BY <1>2, <2>5, <2>6, <4>1, <4>2 DEF W
      <4>3. CASE lk[s] # lk[r] BY <2>5, <4>1, <4>3
      <4>q. QED BY <4>2, <4>3
    <3>q. QED BY <3>1, <3>2
  <2>8. ASSUME NEW s \in Reqs, Waiting(s), lk[s] = lk[r]
        PROVE  lplace[s] < Cardinality(W) + 1
    BY <1>2, <2>8 DEF LockInv, OrderInv, W
  <2>9. ASSUME NEW s \in Reqs, NEW t \in Reqs, Waiting(s)', Waiting(t)', lk[s] = lk[t], s # t
        PROVE  lplace'[s] # lplace'[t] /\ (pc'[s] = "lockwoken" => lplace'[s] < lplace'[t])
    <3>1. CASE s = r
      <4>1. lplace[t] < Cardinality(W) + 1 BY <2>2, <2>8, <2>9, <3>1, Zenon
      <4>2. lplace'[t] = lplace[t] /\ lplace[t] \in Nat BY <2>2, <2>9, <3>1 DEF TypeOK
      <4>q. QED BY <1>2, <2>3, <3>1, <4>1, <4>2
    <3>2. CASE t = r
      <4>1. lplace[s] < Cardinality(W) + 1 BY <2>2, <2>8, <2>9, <3>2, Zenon
      <4>2. lplace'[s] = lplace[s] /\ lplace[s] \in Nat BY <2>2, <2>9, <3>2 DEF TypeOK
      <4>q. QED BY <1>2, <2>3, <3>2, <4>1, <4>2
    <3>3. CASE s # r /\ t # r
      BY <2>2, <2>9, <3>3, Zenon DEF LockInv, OrderInv
    <3>q. QED BY <3>1, <3>2, <3>3
  <2>10. OrderInv' BY <1>1, <2>7, <2>9, Zenon DEF OrderInv
  <2>11. SessInv' BY <1>1, <2>1 DEF LockInv, SessInv, TypeOK
  <2>q. QED BY <2>4, <2>10, <2>11 DEF LockInv
<1>q. QED BY <1>3, <1>4

(* A waiter that leaves its lock's deque: the others keep their order.     *)
LEMMA LeaveOrder ==
  ASSUME OrderInv, TypeOK, NEW r \in Reqs, Waiting(r), lplace' = LeaveLockDeque(r),
         UNCHANGED lk, \A s \in Reqs \ {r} : Waiting(s)' <=> Waiting(s), ~Waiting(r)',
         \A s \in Reqs \ {r} : pc'[s] = "lockwoken" /\ pc[s] # "lockwoken" =>
           \A t \in WaitersOf(lk[s]) \ {r} : lplace[s] <= lplace[t]
  PROVE  OrderInv'
<1> DEFINE W == WaitersOf(lk[r]) \ {r}
<1> DEFINE P == Compact(lplace, W)
<1>1. W \in SUBSET Reqs /\ lplace \in [Reqs -> Nat] BY DEF WaitersOf, TypeOK
<1>2. /\ \A s \in W : P[s] \in 1 .. Cardinality(W)
      /\ \A s, t \in W : lplace[s] < lplace[t] => P[s] < P[t]
  BY <1>1, CompactOrder, Zenon
<1>3. \A s \in Reqs \ {r} : lplace'[s] = IF s \in W THEN P[s] ELSE lplace[s]
  BY DEF LeaveLockDeque
<1>4. \A s \in Reqs \ {r} : Waiting(s) => (s \in W <=> lk[s] = lk[r])
  BY DEF WaitersOf
<1>5. \A s \in Reqs : WaitersOf(lk[s])' = WaitersOf(lk[s]) \ {r}
  BY DEF WaitersOf
<1>6. \A s \in Reqs : lk[s] # lk[r] => WaitersOf(lk[s])' = WaitersOf(lk[s])
  BY <1>5 DEF WaitersOf
<1>7. \A s \in Reqs : lk[s] = lk[r] => WaitersOf(lk[s])' = W
  BY <1>5
<1> HIDE DEF W, P
<1>8. ASSUME NEW s \in Reqs, Waiting(s)'
      PROVE  lplace'[s] \in 1 .. Cardinality(WaitersOf(lk[s])')
  <2>1. s # r /\ Waiting(s) BY <1>8
  <2>2. CASE lk[s] = lk[r]
    <3>1. s \in W /\ lplace'[s] = P[s] BY <1>3, <1>4, <2>1, <2>2
    <3>q. QED BY <1>2, <1>7, <2>2, <3>1, Zenon
  <2>3. CASE lk[s] # lk[r]
    <3>1. lplace'[s] = lplace[s] BY <1>3, <1>4, <2>1, <2>3
    <3>q. QED BY <1>6, <2>1, <2>3, <3>1, Zenon DEF OrderInv
  <2>q. QED BY <2>2, <2>3
<1>9. ASSUME NEW s \in Reqs, NEW t \in Reqs, Waiting(s)', Waiting(t)', lk[s] = lk[t], s # t
      PROVE  lplace'[s] # lplace'[t] /\ (pc'[s] = "lockwoken" => lplace'[s] < lplace'[t])
  <2>1. s # r /\ t # r /\ Waiting(s) /\ Waiting(t) BY <1>9
  <2>2. /\ lplace[s] # lplace[t] /\ (pc[s] = "lockwoken" => lplace[s] < lplace[t])
        /\ lplace[s] \in Nat /\ lplace[t] \in Nat
    BY <1>1, <1>9, <2>1 DEF OrderInv
  <2>3. pc'[s] = "lockwoken" => lplace[s] < lplace[t]
    <3>1. CASE pc[s] = "lockwoken" BY <2>2, <3>1
    <3>2. CASE pc[s] # "lockwoken" /\ pc'[s] = "lockwoken"
      <4>1. t \in WaitersOf(lk[s]) \ {r} BY <1>9, <2>1 DEF WaitersOf
      <4>2. lplace[s] <= lplace[t] BY <2>1, <3>2, <4>1
      <4>q. QED BY <2>2, <4>2
    <3>q. QED BY <3>1, <3>2
  <2>4. CASE lk[s] = lk[r]
    <3>1. s \in W /\ t \in W /\ lplace'[s] = P[s] /\ lplace'[t] = P[t]
      BY <1>3, <1>4, <1>9, <2>1, <2>4
    <3>2. P[s] \in Int /\ P[t] \in Int BY <1>2, <3>1
    <3>3. lplace[s] < lplace[t] \/ lplace[t] < lplace[s] BY <2>2
    <3>4. (lplace[s] < lplace[t] => P[s] < P[t]) /\ (lplace[t] < lplace[s] => P[t] < P[s])
      BY <1>2, <3>1
    <3>q. QED BY <2>3, <3>1, <3>2, <3>3, <3>4
  <2>5. CASE lk[s] # lk[r]
    <3>1. lplace'[s] = lplace[s] /\ lplace'[t] = lplace[t]
      BY <1>3, <1>4, <1>9, <2>1, <2>5
    <3>q. QED BY <2>2, <2>3, <3>1
  <2>q. QED BY <2>4, <2>5
<1>q. QED BY <1>8, <1>9, Zenon DEF OrderInv

(* One waiter of a lock is woken at most.                                  *)
LEMMA OneWoken ==
  ASSUME OrderInv, TypeOK, NEW r \in Reqs, NEW s \in Reqs,
         pc[r] = "lockwoken", pc[s] = "lockwoken", lk[r] = lk[s]
  PROVE  r = s
<1>1. Waiting(r) /\ Waiting(s) BY DEF Waiting
<1>2. ASSUME r # s PROVE FALSE
  <2>1. lplace[r] < lplace[s] /\ lplace[s] < lplace[r] BY <1>1, <1>2 DEF OrderInv
  <2>2. lplace[r] \in Nat /\ lplace[s] \in Nat BY DEF TypeOK
  <2>q. QED BY <2>1, <2>2
<1>q. QED BY <1>2

(* A woken waiter takes the lock it was woken for.                         *)
LEMMA TakeLockLock ==
  ASSUME LockInv, TypeOK, NEW r \in Reqs, TakeLock(r) PROVE LockInv'
<1>1. /\ pc[r] = "lockwoken" /\ locked' = [locked EXCEPT ![lk[r]] = TRUE]
      /\ lplace' = LeaveLockDeque(r) /\ pc' = [pc EXCEPT ![r] = "locked"]
      /\ UNCHANGED <<lk, sess>>
  BY Zenon DEF TakeLock
<1>2. Waiting(r) /\ lk[r] \in Reqs /\ ~locked[lk[r]]
  BY <1>1, Zenon DEF LockInv, OwnerInv, Waiting
<1>3. \A s \in Reqs : pc[s] = "lockwoken" /\ lk[s] = lk[r] => s = r
  BY <1>1, OneWoken DEF LockInv
<1>4. OwnerInv' BY <1>1, <1>2, <1>3, TakeOwner DEF LockInv
<1>5. /\ \A s \in Reqs \ {r} : (Waiting(s)' <=> Waiting(s)) /\ pc'[s] = pc[s]
      /\ ~Waiting(r)'
  BY <1>1 DEF TypeOK, Waiting
<1>6. OrderInv' BY <1>1, <1>2, <1>5, LeaveOrder DEF LockInv
<1>7. SessInv' BY <1>1 DEF LockInv, SessInv, TypeOK
<1>q. QED BY <1>4, <1>6, <1>7 DEF LockInv

(* A lock that is unlocked, with one waiter woken at most.                 *)
LEMMA UnlockOwner ==
  ASSUME OwnerInv, TypeOK, NEW r \in Reqs,
         \A s \in Reqs \ {r} : \/ pc'[s] = pc[s]
                               \/ /\ pc[s] = "lockwait" /\ pc'[s] = "lockwoken"
                                  /\ lk[s] = lk[r],
         pc'[r] \in {"done", "released"}, UNCHANGED lk,
         \/ HoldsConv(r) /\ locked' = [locked EXCEPT ![lk[r]] = FALSE]
         \/ UNCHANGED locked /\ (~locked[lk[r]] \/ \A s \in Reqs \ {r} : pc'[s] = pc[s])
  PROVE  OwnerInv'
<1>1. \A s \in Reqs \ {r} : /\ Waiting(s)' <=> Waiting(s)
                            /\ HoldsConv(s)' <=> HoldsConv(s)
                            /\ pc'[s] = "haslock" => pc[s] = "haslock"
  BY SMT DEF Waiting, HoldsConv, ConvHeld
<1>2. ~Waiting(r)' /\ ~HoldsConv(r)' /\ pc'[r] \notin {"haslock", "lockwoken"}
  BY SMT DEF Waiting, HoldsConv, ConvHeld
<1>3. \A s \in Reqs : Waiting(s)' \/ HoldsConv(s)' \/ pc'[s] = "haslock" => lk'[s] \in Reqs
  BY <1>1, <1>2, Zenon DEF OwnerInv
<1>4. LockExclusive'
  BY <1>1, <1>2, Zenon DEF OwnerInv, LockExclusive
<1>5. CASE HoldsConv(r) /\ locked' = [locked EXCEPT ![lk[r]] = FALSE]
  <2>1. lk[r] \in Reqs BY <1>5, Zenon DEF OwnerInv
  <2>2. locked'[lk[r]] = FALSE BY <1>5, <2>1 DEF TypeOK
  <2>3. \A l \in Reqs : l # lk[r] => locked'[l] = locked[l] BY <1>5 DEF TypeOK
  <2>4. ASSUME NEW s \in Reqs, HoldsConv(s)' PROVE locked'[lk'[s]]
    <3>1. s # r /\ HoldsConv(s) BY <1>1, <1>2, <2>4
    <3>2. lk[s] \in Reqs /\ locked[lk[s]] BY <3>1, Zenon DEF OwnerInv
    <3>3. lk[s] # lk[r] BY <1>5, <3>1 DEF OwnerInv, LockExclusive
    <3>4. locked'[lk[s]] = locked[lk[s]] BY <2>3, <3>2, <3>3
    <3>q. QED BY <3>2, <3>4
  <2>5. ASSUME NEW s \in Reqs, pc'[s] = "lockwoken" PROVE ~locked'[lk'[s]]
    <3>1. s # r BY <1>2, <2>5
    <3>2. CASE lk[s] = lk[r] BY <2>2, <3>2
    <3>3. CASE lk[s] # lk[r]
      <4>1. pc[s] = "lockwoken" BY <2>5, <3>1, <3>3
      <4>2. lk[s] \in Reqs /\ ~locked[lk[s]] BY <4>1, Zenon DEF OwnerInv, Waiting
      <4>3. locked'[lk[s]] = locked[lk[s]] BY <2>3, <3>3, <4>2
      <4>q. QED BY <4>2, <4>3
    <3>q. QED BY <3>2, <3>3
  <2>q. QED BY <1>3, <1>4, <2>4, <2>5 DEF OwnerInv
<1>6. CASE UNCHANGED locked /\ (~locked[lk[r]] \/ \A s \in Reqs \ {r} : pc'[s] = pc[s])
  <2>1. \A s \in Reqs : HoldsConv(s)' => locked'[lk'[s]]
    BY <1>1, <1>2, <1>6, Zenon DEF OwnerInv
  <2>2. ASSUME NEW s \in Reqs, pc'[s] = "lockwoken" PROVE ~locked'[lk'[s]]
    <3>1. s # r BY <1>2, <2>2
    <3>2. CASE pc[s] = "lockwoken" BY <1>6, <3>2, Zenon DEF OwnerInv
    <3>3. CASE pc[s] # "lockwoken"
      <4>1. lk[s] = lk[r] /\ ~locked[lk[r]] BY <1>6, <2>2, <3>1, <3>3
      <4>q. QED BY <1>6, <4>1
    <3>q. QED BY <3>2, <3>3
  <2>q. QED BY <1>3, <1>4, <2>1, <2>2 DEF OwnerInv
<1>q. QED BY <1>5, <1>6

(* A holder lets its lock go and wakes the first of the waiters.           *)
LEMMA UnlockLock ==
  ASSUME LockInv, TypeOK, NEW r \in Reqs, NEW next \in {"done", "released"},
         UnlockAndGo(r, next), HoldsConv(r),
         UNCHANGED sess \/ sess' = [sess EXCEPT ![r] = "end"],
         next = "done" => sess'[r] # "run"
  PROVE  LockInv'
<1> DEFINE f == [pc EXCEPT ![r] = next]
<1> DEFINE W == WaitersOf(lk[r])
<1>1. /\ f \in [Reqs -> Places] /\ f[r] = next /\ \A s \in Reqs \ {r} : f[s] = pc[s]
      /\ W \in SUBSET Reqs
  BY DEF TypeOK, Places, WaitersOf
<1>2. pc' = Wake(f, W) /\ locked' = [locked EXCEPT ![lk[r]] = FALSE] /\ UNCHANGED <<lk, lplace>>
  BY DEF UnlockAndGo
<1> HIDE DEF f
<1>3. \A s \in Reqs : pc'[s] # f[s] => /\ s \in W /\ f[s] = "lockwait" /\ pc'[s] = "lockwoken"
                                       /\ \A t \in W : lplace[s] <= lplace[t]
  BY <1>1, <1>2, WakeFirst
<1>4. pc'[r] = next
  BY <1>1, <1>3
<1>5. \A s \in Reqs \ {r} : \/ pc'[s] = pc[s]
                            \/ /\ pc[s] = "lockwait" /\ pc'[s] = "lockwoken" /\ lk[s] = lk[r]
                               /\ \A t \in W : lplace[s] <= lplace[t]
  BY <1>1, <1>3 DEF WaitersOf
<1>6. OwnerInv'
  BY <1>2, <1>4, <1>5, UnlockOwner DEF LockInv
<1>7. \A s \in Reqs : Waiting(s)' <=> Waiting(s)
  BY <1>4, <1>5, SMT DEF Waiting, HoldsConv, ConvHeld
<1>8. \A l : WaitersOf(l)' = WaitersOf(l) BY <1>2, <1>7, Zenon DEF WaitersOf
<1>9. ASSUME NEW s \in Reqs, NEW t \in Reqs, Waiting(s)', Waiting(t)', lk[s] = lk[t], s # t
      PROVE  lplace[s] # lplace[t] /\ (pc'[s] = "lockwoken" => lplace[s] < lplace[t])
  <2>1. /\ lplace[s] # lplace[t] /\ (pc[s] = "lockwoken" => lplace[s] < lplace[t])
        /\ lplace[s] \in Nat /\ lplace[t] \in Nat
    BY <1>7, <1>9 DEF LockInv, OrderInv, TypeOK
  <2>2. CASE pc'[s] = pc[s] BY <2>1, <2>2
  <2>3. CASE lk[s] = lk[r] /\ \A u \in W : lplace[s] <= lplace[u]
    <3>1. t \in W BY <1>7, <1>9, <2>3 DEF WaitersOf
    <3>q. QED BY <2>1, <2>3, <3>1
  <2>4. s # r BY <1>4, <1>9 DEF Waiting
  <2>q. QED BY <1>5, <2>2, <2>3, <2>4
<1>10. OrderInv'
  BY <1>2, <1>7, <1>8, <1>9, Zenon DEF LockInv, OrderInv
<1>11. SessInv'
  <2>1. \A s \in Reqs : sess'[s] = "run" => sess[s] = "run"
    BY DEF TypeOK
  <2>2. ASSUME NEW s \in Reqs, sess'[s] = "run"
        PROVE  pc'[s] \in {"sync", "stream", "stalled", "orphan", "released"}
    <3>1. CASE s = r BY <1>4, <2>2, <3>1
    <3>2. CASE s # r BY <1>5, <2>1, <2>2, <3>2 DEF LockInv, SessInv
    <3>q. QED BY <3>1, <3>2
  <2>q. QED BY <2>2 DEF SessInv
<1>q. QED BY <1>6, <1>10, <1>11 DEF LockInv

(* A waiter whose time is over passes its wake-up on.                      *)
LEMMA LockTimeoutLock ==
  ASSUME LockInv, TypeOK, NEW r \in Reqs, LockTimeout(r) PROVE LockInv'
<1> DEFINE f == [pc EXCEPT ![r] = "done"]
<1> DEFINE W == WaitersOf(lk[r]) \ {r}
<1>1. /\ f \in [Reqs -> Places] /\ f[r] = "done" /\ \A s \in Reqs \ {r} : f[s] = pc[s]
      /\ W \in SUBSET Reqs
  BY DEF TypeOK, Places, WaitersOf
<1>2. /\ Waiting(r) /\ lplace' = LeaveLockDeque(r) /\ UNCHANGED <<lk, locked, sess>>
      /\ pc' = IF locked[lk[r]] THEN f ELSE Wake(f, W)
  BY Zenon DEF LockTimeout
<1> HIDE DEF f
<1>3. \A s \in Reqs : pc'[s] # f[s] => /\ ~locked[lk[r]]
                                       /\ s \in W /\ f[s] = "lockwait" /\ pc'[s] = "lockwoken"
                                       /\ \A t \in W : lplace[s] <= lplace[t]
  BY <1>1, <1>2, WakeFirst
<1>4. pc'[r] = "done"
  BY <1>1, <1>3
<1>5. \A s \in Reqs \ {r} : \/ pc'[s] = pc[s]
                            \/ /\ pc[s] = "lockwait" /\ pc'[s] = "lockwoken" /\ lk[s] = lk[r]
                               /\ ~locked[lk[r]]
                               /\ \A t \in W : lplace[s] <= lplace[t]
  BY <1>1, <1>3 DEF WaitersOf
<1>6. ~locked[lk[r]] \/ \A s \in Reqs \ {r} : pc'[s] = pc[s]
  BY <1>5
<1>7. OwnerInv'
  BY <1>2, <1>4, <1>5, <1>6, UnlockOwner DEF LockInv
<1>8. /\ \A s \in Reqs \ {r} : Waiting(s)' <=> Waiting(s)
      /\ ~Waiting(r)'
  BY <1>4, <1>5, SMT DEF Waiting
<1>9. \A s \in Reqs \ {r} : pc'[s] = "lockwoken" /\ pc[s] # "lockwoken" =>
           \A t \in WaitersOf(lk[s]) \ {r} : lplace[s] <= lplace[t]
  BY <1>5
<1>10. OrderInv'
  BY <1>2, <1>8, <1>9, LeaveOrder DEF LockInv
<1>11. SessInv'
  <2>1. sess[r] # "run" BY <1>2, SMT DEF LockInv, SessInv, Waiting
  <2>2. \A s \in Reqs : sess[s] = "run" => pc'[s] = pc[s]
    BY <1>5, <2>1, SMT DEF LockInv, SessInv
  <2>q. QED BY <1>2, <2>1, <2>2 DEF LockInv, SessInv
<1>q. QED BY <1>7, <1>10, <1>11 DEF LockInv

----------------------------------------------------------------------------
(* All steps.                                                              *)

(* Nobody holds or waits at the start.                                     *)
LEMMA InitLock == Init => LockInv
BY SMT DEF Init, LockInv, OwnerInv, OrderInv, SessInv, LockExclusive, Waiting, HoldsConv,
    ConvHeld

(* The releases of a lock.                                                 *)
LEMMA ReleaseLock ==
  ASSUME LockInv, TypeOK, NEW r \in Reqs,
         FailInLock(r) \/ EndSync(r) \/ GenComplete(r) \/ GuardRelease(r)
  PROVE  LockInv'
<1>1. CASE FailInLock(r)
  <2>1. pc[r] = "locked" /\ UnlockAndGo(r, "done") /\ UNCHANGED sess
    BY <1>1, Zenon DEF FailInLock
  <2>2. HoldsConv(r) /\ sess'[r] # "run"
    BY <2>1, SMT DEF HoldsConv, ConvHeld, LockInv, SessInv
  <2>q. QED BY <2>1, <2>2, UnlockLock
<1>2. CASE EndSync(r)
  <2>1. pc[r] = "sync" /\ UnlockAndGo(r, "done") /\ sess' = [sess EXCEPT ![r] = "end"]
    BY <1>2, Zenon DEF EndSync
  <2>2. HoldsConv(r) /\ sess'[r] # "run"
    BY <2>1, SMT DEF HoldsConv, ConvHeld, TypeOK
  <2>q. QED BY <2>1, <2>2, UnlockLock
<1>3. CASE GenComplete(r) \/ GuardRelease(r)
  <2>1. pc[r] \in {"stream", "stalled", "orphan"} /\ UnlockAndGo(r, "released") /\ UNCHANGED sess
    BY <1>3, SMT DEF GenComplete, GuardRelease, ReleaseSlot
  <2>2. HoldsConv(r) BY <2>1, SMT DEF HoldsConv, ConvHeld
  <2>q. QED BY <2>1, <2>2, UnlockLock
<1>q. QED BY <1>1, <1>2, <1>3

(* Every step keeps the invariant of the locks.                            *)
LEMMA StepLock ==
  ASSUME TypeOK, LockInv, [Next]_vars PROVE LockInv'
<1>1. CASE Watchdog \/ UNCHANGED vars
  <2>1. UNCHANGED <<pc, lk, locked, lplace, sess>>
    BY <1>1, Zenon
    DEF Watchdog, WatchdogWake, WatchdogBusy, WatchdogIdle, lockvars, vars
  <2>q. QED BY <2>1, SameLock
<1>2. ASSUME NEW r \in Reqs, SessionEnd(r) PROVE LockInv'
  <2>1. UNCHANGED <<pc, lk, locked, lplace>> /\ sess' = [sess EXCEPT ![r] = "end"]
    BY <1>2, Zenon DEF SessionEnd, lockvars
  <2>q. QED BY <2>1, SameLock
<1>q. QED
  BY <1>1, <1>2, MoveLock, GetLockLock, AcquireLockLock, TakeLockLock, LockTimeoutLock,
     ReleaseLock, Zenon
  DEF Next, RequestStep

(* One lock object is held by one task at a time (LockExclusive), for any  *)
(* number of requests, wake-ups, timeouts of woken waiters and newcomers   *)
(* included.                                                               *)
THEOREM LocksExclusive == Spec => []LockExclusive
<1>1. LockInv => LockExclusive BY DEF LockInv, OwnerInv
<1>q. QED BY <1>1, InitLock, StepLock, TypeCorrect, PTL DEF Spec

(* Two engine sessions under one lock object overlap only when one of them *)
(* was let go of by its stream's release (LockedSessionsExclusive): every  *)
(* other path of _chat keeps the lock as long as its session runs.         *)
THEOREM SessionsExclusive == Spec => []LockedSessionsExclusive
<1>1. LockInv => LockedSessionsExclusive
  BY SMT DEF LockInv, OwnerInv, SessInv, LockExclusive, LockedSessionsExclusive,
      HoldsConv, ConvHeld
<1>q. QED BY <1>1, InitLock, StepLock, TypeCorrect, PTL DEF Spec
=============================================================================
