------------------------------ MODULE Admission ------------------------------
(***************************************************************************)
(* Request admission of the OpenAI-compatible API (engine/api_server.py):  *)
(* the FIFO permit queue QSTATE with its waiter deadline, the              *)
(* per-conversation locks CONV_LOCKS, the life of a streaming response     *)
(* (executor session, SSE generator, slot guard) and the L7.1 admission    *)
(* watchdog.                                                               *)
(*                                                                         *)
(* The API is one asyncio loop, so an action is what one task does between *)
(* two awaits.  A request's task is pc[r]; the engine session of a request *)
(* runs in an executor thread, sess[r], and is not stopped by what happens *)
(* to the task.  A deque of futures is kept as the place of each request   *)
(* in it (1 is the front, 0 is "not in it").                               *)
(***************************************************************************)
EXTENDS Integers, FiniteSets

CONSTANTS
  Reqs,           \* requests: one POST /v1/chat/completions each
  Convs,          \* conversation ids (one of them may be the anonymous "")
  ConvOf,         \* the conversation of each request
  PermitChoices,  \* the batch widths GET status may report (batch_b, or 1)
  MaxPermits,     \* the largest of them
  MaxWaiting,     \* MAX_WAITING
  LockCap,        \* size of CONV_LOCKS above which unlocked locks are dropped
  MaxHeals,       \* bound: how often the admission watchdog heals
  NoLock          \* no lock object

ASSUME ReqsFinite == IsFiniteSet(Reqs)
ASSUME ConvOfType == ConvOf \in [Reqs -> Convs]
ASSUME PermitsAssumption == /\ MaxPermits \in Nat \ {0}
                            /\ PermitChoices \subseteq 1 .. MaxPermits
ASSUME BoundsAssumption == MaxWaiting \in Nat /\ LockCap \in Nat /\ MaxHeals \in Nat
ASSUME NoLockAssumption == NoLock \notin Reqs

VARIABLES
  pc,        \* where the task of a request stands
  grant,     \* its admission: "none" | "pending" | "held" | "cancelled" | "returned"
  place,     \* its place in the deque QSTATE["wait"]
  active,    \* QSTATE["active"]
  permits,   \* QSTATE["permits"]
  registry,  \* CONV_LOCKS; a lock object is named by the request that made it
  lk,        \* the lock object a request uses
  locked,    \* Lock._locked
  lplace,    \* a request's place in Lock._waiters
  sess,      \* its executor session: "none" | "run" | "end"
  probing,   \* the watchdog passed its guard and awaits the engine's status
  stale,     \* _admit_stale_since is set
  heals,     \* how often the watchdog has called q_release
  spurious   \* history: calls of q_release by a task that held no permit

qvars    == <<grant, place, active>>
lockvars == <<registry, lk, locked, lplace>>
wdvars   == <<probing, stale, heals>>
vars     == <<pc, grant, place, active, permits, registry, lk, locked, lplace,
              sess, probing, stale, heals, spurious>>

----------------------------------------------------------------------------
(* Deques of futures.                                                      *)

InDeque(p) == {r \in Reqs : p[r] > 0}

(* What is left of a deque when only the members in keep stay, in order.   *)
Compact(p, keep) ==
  [r \in Reqs |-> IF r \in keep THEN Cardinality({s \in keep : p[s] <= p[r]}) ELSE 0]

(* The front of a non-empty set S of members of a deque.                   *)
Front(p, S) == CHOOSE r \in S : \A s \in S : p[r] <= p[s]

----------------------------------------------------------------------------
(* The permit queue, as functions of q = [active, place, grant].           *)

Q == [active |-> active, place |-> place, grant |-> grant]

Pending(q) == {r \in InDeque(q.place) : q.grant[r] = "pending"}

(* Fault: the promoter looks at the front future only, dead or not.        *)
PromoteFrontOnly(q) ==
  IF q.active >= permits \/ InDeque(q.place) = {} THEN q
  ELSE LET r    == Front(q.place, InDeque(q.place))
           rest == [q EXCEPT !.place = Compact(@, InDeque(@) \ {r})]
       IN  IF q.grant[r] # "pending" THEN rest
           ELSE [rest EXCEPT !.active = @ + 1, !.grant[r] = "held"]

(* q_promote: pop dead futures and hand ONE permit to the first live one.  *)
Promote(q) ==
  IF q.active >= permits THEN q
  ELSE IF Pending(q) = {} THEN [q EXCEPT !.place = [r \in Reqs |-> 0]]
  ELSE LET r == Front(q.place, Pending(q))
       IN  [active |-> q.active + 1,
            place  |-> Compact(q.place, {s \in InDeque(q.place) : q.place[s] > q.place[r]}),
            grant  |-> [q.grant EXCEPT ![r] = "held"]]

(* Fault: the counter may go below zero.                                   *)
ReleaseNoFloor(q) == Promote([q EXCEPT !.active = @ - 1])

(* q_release: the counter goes down, never below zero, and one is promoted. *)
Release(q) ==
  Promote([q EXCEPT !.active = IF @ > 0 THEN @ - 1 ELSE 0])

(* q_release by the task that holds r's permit.                            *)
ReleaseOf(q, r) == Release([q EXCEPT !.grant[r] = "returned"])

SetQ(q) == active' = q.active /\ place' = q.place /\ grant' = q.grant

(* Fault: timed-out waiters stay in the deque.                             *)
PruneNothing(q) == q

(* _q_prune_wait: drop the futures that are done.                          *)
Prune(q) == [q EXCEPT !.place = Compact(q.place, Pending(q))]

----------------------------------------------------------------------------
(* asyncio.Lock.  A waiter whose future has been resolved by release() is  *)
(* "lockwoken": the lock stays unlocked until its task runs.               *)

Waiting(r) == pc[r] \in {"lockwait", "lockwoken"}
WaitersOf(l) == {r \in Reqs : Waiting(r) /\ lk[r] = l}

(* The states in which a task owns its conversation lock.                  *)
ConvHeld == {"locked", "sync", "stream", "stalled", "orphan"}
HoldsConv(r) == pc[r] \in ConvHeld

(* _wake_up_first over the waiters W: the front one, unless already woken. *)
Wake(f, W) ==
  IF W = {} THEN f
  ELSE LET r == Front(lplace, W)
       IN  IF f[r] = "lockwait" THEN [f EXCEPT ![r] = "lockwoken"] ELSE f

(* Task r releases its lock and goes on at `next`.                         *)
UnlockAndGo(r, next) ==
  /\ locked' = [locked EXCEPT ![lk[r]] = FALSE]
  /\ pc' = Wake([pc EXCEPT ![r] = next], WaitersOf(lk[r]))
  /\ UNCHANGED <<registry, lk, lplace>>

----------------------------------------------------------------------------
Init ==
  /\ pc = [r \in Reqs |-> "idle"]
  /\ grant = [r \in Reqs |-> "none"]
  /\ place = [r \in Reqs |-> 0]
  /\ active = 0
  /\ permits = 1
  /\ registry = [c \in Convs |-> NoLock]
  /\ lk = [r \in Reqs |-> NoLock]
  /\ locked = [r \in Reqs |-> FALSE]
  /\ lplace = [r \in Reqs |-> 0]
  /\ sess = [r \in Reqs |-> "none"]
  /\ probing = FALSE
  /\ stale = FALSE
  /\ heals = 0
  /\ spurious = 0

----------------------------------------------------------------------------
(* Admission.                                                              *)

(* Fault: a newcomer overtakes the parked requests.                        *)
FastPathBarging(p, q) == active < p

(* q_acquire takes a permit at once: one is free and nobody is parked.     *)
FastPath(p, q) == active < p /\ InDeque(q.place) = {}

(* q_acquire up to its first await: take a permit, be refused, or park.    *)
Arrive(r) ==
  /\ pc[r] = "idle"
  /\ \E p \in PermitChoices :
       LET q == Prune(Q)
           parked == InDeque(q.place)
       IN  /\ permits' = p
           /\ \/ /\ FastPath(p, q)
                 /\ SetQ([q EXCEPT !.active = @ + 1, !.grant[r] = "held"])
                 /\ pc' = [pc EXCEPT ![r] = "admitted"]
              \/ /\ ~FastPath(p, q)
                 /\ Cardinality(parked) >= MaxWaiting
                 /\ SetQ(q)
                 /\ pc' = [pc EXCEPT ![r] = "refused"]
              \/ /\ ~FastPath(p, q)
                 /\ Cardinality(parked) < MaxWaiting
                 /\ SetQ([q EXCEPT !.place[r] = Cardinality(parked) + 1,
                                   !.grant[r] = "pending"])
                 /\ pc' = [pc EXCEPT ![r] = "queued"]
  /\ UNCHANGED <<lockvars, sess, wdvars, spurious>>

(* The future was resolved and the parked task runs again.                 *)
Resume(r) ==
  /\ pc[r] = "queued" /\ grant[r] = "held"
  /\ pc' = [pc EXCEPT ![r] = "admitted"]
  /\ UNCHANGED <<qvars, permits, lockvars, sess, wdvars, spurious>>

(* QUEUE_WAIT_S is over: wait_for cancels the parked task.  A future not   *)
(* yet resolved is cancelled with it; a resolved one stays resolved.       *)
QueueDeadline(r) ==
  /\ pc[r] = "queued"
  /\ pc' = [pc EXCEPT ![r] = "cancelling"]
  /\ grant' = [grant EXCEPT ![r] = IF @ = "pending" THEN "cancelled" ELSE @]
  /\ UNCHANGED <<place, active, permits, lockvars, sess, wdvars, spurious>>

(* Fault: the grant consumed by a cancelled waiter is not given back.      *)
CancelCleanupLeaks(r) ==
  /\ pc[r] = "cancelling"
  /\ SetQ(Prune([Q EXCEPT !.grant[r] = IF @ = "held" THEN "returned" ELSE @]))
  /\ pc' = [pc EXCEPT ![r] = "done"]
  /\ UNCHANGED <<permits, lockvars, sess, wdvars, spurious>>

(* The except clause of q_acquire: a consumed grant is given back.         *)
CancelCleanup(r) ==
  /\ pc[r] = "cancelling"
  /\ SetQ(IF grant[r] = "held" THEN ReleaseOf(Q, r) ELSE Prune(Q))
  /\ pc' = [pc EXCEPT ![r] = "done"]
  /\ UNCHANGED <<permits, lockvars, sess, wdvars, spurious>>

----------------------------------------------------------------------------
(* The conversation lock.                                                  *)

(* _conv_lock: find or create the lock object, then drop the unlocked ones *)
(* when the registry is over its cap.                                      *)
GetLock(r) ==
  /\ pc[r] = "admitted"
  /\ LET c    == ConvOf[r]
         l    == IF registry[c] = NoLock THEN r ELSE registry[c]
         reg  == [registry EXCEPT ![c] = l]
         full == Cardinality({d \in Convs : reg[d] # NoLock}) > LockCap
     IN  /\ lk' = [lk EXCEPT ![r] = l]
         /\ registry' = [d \in Convs |->
               IF full /\ d # c /\ reg[d] # NoLock /\ ~locked[reg[d]]
               THEN NoLock ELSE reg[d]]
  /\ pc' = [pc EXCEPT ![r] = "haslock"]
  /\ UNCHANGED <<qvars, permits, locked, lplace, sess, wdvars, spurious>>

(* Fault: a newcomer takes the lock although a waiter has been woken.      *)
AcquireLockBarging(r) ==
  /\ pc[r] = "haslock"
  /\ LET W == WaitersOf(lk[r])
     IN  IF ~locked[lk[r]]
         THEN /\ locked' = [locked EXCEPT ![lk[r]] = TRUE]
              /\ pc' = [pc EXCEPT ![r] = "locked"]
              /\ UNCHANGED lplace
         ELSE /\ lplace' = [lplace EXCEPT ![r] = Cardinality(W) + 1]
              /\ pc' = [pc EXCEPT ![r] = "lockwait"]
              /\ UNCHANGED locked
  /\ UNCHANGED <<qvars, permits, registry, lk, sess, wdvars, spurious>>

(* Lock.acquire: at once when unlocked with nobody waiting, else wait.     *)
AcquireLock(r) ==
  /\ pc[r] = "haslock"
  /\ LET W == WaitersOf(lk[r])
     IN  IF ~locked[lk[r]] /\ W = {}
         THEN /\ locked' = [locked EXCEPT ![lk[r]] = TRUE]
              /\ pc' = [pc EXCEPT ![r] = "locked"]
              /\ UNCHANGED lplace
         ELSE /\ lplace' = [lplace EXCEPT ![r] = Cardinality(W) + 1]
              /\ pc' = [pc EXCEPT ![r] = "lockwait"]
              /\ UNCHANGED locked
  /\ UNCHANGED <<qvars, permits, registry, lk, sess, wdvars, spurious>>

(* Waiter r leaves the deque of its lock.                                  *)
LeaveLockDeque(r) ==
  LET W == WaitersOf(lk[r]) \ {r}
  IN  [s \in Reqs |-> IF s = r THEN 0
                      ELSE IF s \in W THEN Compact(lplace, W)[s]
                      ELSE lplace[s]]

(* A woken waiter runs and takes the lock.                                 *)
TakeLock(r) ==
  /\ pc[r] = "lockwoken"
  /\ locked' = [locked EXCEPT ![lk[r]] = TRUE]
  /\ lplace' = LeaveLockDeque(r)
  /\ pc' = [pc EXCEPT ![r] = "locked"]
  /\ UNCHANGED <<qvars, permits, registry, lk, sess, wdvars, spurious>>

(* CONV_LOCK_WAIT_S is over.  The waiter leaves, passing on a wake-up it   *)
(* may have had; the handler releases the permit and returns 503, and the  *)
(* route's finally, which sees slot_held and no stream, releases it again. *)
LockTimeout(r) ==
  /\ Waiting(r)
  /\ lplace' = LeaveLockDeque(r)
  /\ LET gone == [pc EXCEPT ![r] = "done"]
     IN  pc' = IF locked[lk[r]] THEN gone ELSE Wake(gone, WaitersOf(lk[r]) \ {r})
  /\ SetQ(Release(ReleaseOf(Q, r)))
  /\ spurious' = spurious + 1
  /\ UNCHANGED <<permits, registry, lk, locked, sess, wdvars>>

----------------------------------------------------------------------------
(* Inside the lock.                                                        *)

(* Fault: an early return keeps the conversation lock.                     *)
FailInLockLeaks(r) ==
  /\ pc[r] = "locked"
  /\ pc' = [pc EXCEPT ![r] = "done"]
  /\ SetQ(ReleaseOf(Q, r))
  /\ UNCHANGED <<permits, lockvars, sess, wdvars, spurious>>

(* An early return (engine down, context exhausted, over the cycle cap):   *)
(* release_conv in the handler's finally, q_release in the route's.        *)
FailInLock(r) ==
  /\ pc[r] = "locked"
  /\ UnlockAndGo(r, "done")
  /\ SetQ(ReleaseOf(Q, r))
  /\ UNCHANGED <<permits, sess, wdvars, spurious>>

(* A non-stream request awaits its session in the executor.                *)
StartSync(r) ==
  /\ pc[r] = "locked"
  /\ pc' = [pc EXCEPT ![r] = "sync"]
  /\ sess' = [sess EXCEPT ![r] = "run"]
  /\ UNCHANGED <<qvars, permits, lockvars, wdvars, spurious>>

(* Its session ends, with a result or an EngineError.                      *)
EndSync(r) ==
  /\ pc[r] = "sync"
  /\ sess' = [sess EXCEPT ![r] = "end"]
  /\ UnlockAndGo(r, "done")
  /\ SetQ(ReleaseOf(Q, r))
  /\ UNCHANGED <<permits, wdvars, spurious>>

(* Fault: the conversation lock is released when the route returns.        *)
StartStreamUnlocks(r) ==
  /\ pc[r] = "locked"
  /\ UnlockAndGo(r, "stream")
  /\ sess' = [sess EXCEPT ![r] = "run"]
  /\ UNCHANGED <<qvars, permits, wdvars, spurious>>

(* A stream request starts session, watcher and guard and returns: from    *)
(* here the generator and the guard own the permit and the lock.           *)
StartStream(r) ==
  /\ pc[r] = "locked"
  /\ pc' = [pc EXCEPT ![r] = "stream"]
  /\ sess' = [sess EXCEPT ![r] = "run"]
  /\ UNCHANGED <<qvars, permits, lockvars, wdvars, spurious>>

(* The session of a stream ends in its thread.                             *)
SessionEnd(r) ==
  /\ sess[r] = "run" /\ pc[r] # "sync"
  /\ sess' = [sess EXCEPT ![r] = "end"]
  /\ UNCHANGED <<pc, qvars, permits, lockvars, wdvars, spurious>>

(* on_event: two coalesced puts timed out, so the consumer counts as dead  *)
(* and the engine's cancel is armed.                                       *)
Backpressure(r) ==
  /\ pc[r] = "stream" /\ sess[r] = "run"
  /\ pc' = [pc EXCEPT ![r] = "stalled"]
  /\ UNCHANGED <<qvars, permits, lockvars, sess, wdvars, spurious>>

(* release_slot: permit first, then the conversation lock.                 *)
ReleaseSlot(r) ==
  /\ UnlockAndGo(r, "released")
  /\ SetQ(ReleaseOf(Q, r))
  /\ UNCHANGED <<permits, sess, wdvars, spurious>>

(* The generator ends with gen_completed set: after the session's result   *)
(* was sent, or after the stream_backpressure error event.                 *)
GenComplete(r) ==
  /\ \/ pc[r] = "stream" /\ sess[r] = "end"
     \/ pc[r] = "stalled"
  /\ ReleaseSlot(r)

(* The generator ends otherwise (client gone, engine error event): only    *)
(* the guard is left.                                                      *)
GenClose(r) ==
  /\ pc[r] \in {"stream", "stalled"}
  /\ pc' = [pc EXCEPT ![r] = "orphan"]
  /\ UNCHANGED <<qvars, permits, lockvars, sess, wdvars, spurious>>

(* Fault: the guard releases a slot the generator already released.        *)
GuardReleaseTwice(r) ==
  /\ pc[r] \in {"stream", "stalled", "orphan", "released"} /\ sess[r] = "end"
  /\ UnlockAndGo(r, IF pc[r] = "released" THEN "done" ELSE "released")
  /\ SetQ(ReleaseOf(Q, r))
  /\ UNCHANGED <<permits, sess, wdvars, spurious>>

(* _slot_guard: once the session has ended, and gen_done is set or the     *)
(* grace STREAM_GUARD_GRACE_S is over.                                     *)
GuardRelease(r) ==
  /\ pc[r] \in {"stream", "stalled", "orphan"} /\ sess[r] = "end"
  /\ ReleaseSlot(r)

----------------------------------------------------------------------------
(* _admission_watchdog.                                                    *)

EngineMayBeBusy == \E r \in Reqs : sess[r] = "run"

(* One wake-up: nothing to heal, or ask the engine for its status.         *)
WatchdogWake ==
  /\ ~probing /\ heals < MaxHeals
  /\ IF active = 0 \/ InDeque(place) = {}
     THEN stale' = FALSE /\ UNCHANGED probing
     ELSE probing' = TRUE /\ UNCHANGED stale
  /\ UNCHANGED <<pc, qvars, permits, lockvars, sess, heals, spurious>>

(* The engine was unreachable, or it answered "busy".                      *)
WatchdogBusy ==
  /\ probing
  /\ probing' = FALSE
  /\ \/ UNCHANGED stale
     \/ EngineMayBeBusy /\ stale' = FALSE
  /\ UNCHANGED <<pc, qvars, permits, lockvars, sess, heals, spurious>>

(* The engine answered "idle": note the time, or, when it was noted        *)
(* ADMIT_HEAL_AFTER_S ago, release a permit.                               *)
WatchdogIdle ==
  /\ probing
  /\ probing' = FALSE
  /\ \/ /\ stale' = TRUE
        /\ UNCHANGED <<qvars, heals, spurious>>
     \/ /\ stale
        /\ stale' = FALSE
        /\ SetQ(Release(Q))
        /\ heals' = heals + 1
        /\ spurious' = spurious + 1
  /\ UNCHANGED <<pc, permits, lockvars, sess>>

----------------------------------------------------------------------------
RequestStep(r) ==
  \/ Arrive(r) \/ Resume(r) \/ QueueDeadline(r) \/ CancelCleanup(r)
  \/ GetLock(r) \/ AcquireLock(r) \/ TakeLock(r) \/ LockTimeout(r)
  \/ FailInLock(r) \/ StartSync(r) \/ EndSync(r) \/ StartStream(r)
  \/ SessionEnd(r) \/ Backpressure(r) \/ GenComplete(r) \/ GenClose(r)
  \/ GuardRelease(r)

Watchdog == WatchdogWake \/ WatchdogBusy \/ WatchdogIdle

Next == (\E r \in Reqs : RequestStep(r)) \/ Watchdog

(* What the loop and the executor are bound to do: ready tasks run, timers *)
(* of the guard fire, sessions end (max_tokens bounds them, sockets time   *)
(* out).  No deadline, client or watchdog is assumed to help.              *)
Leave(r) == FailInLock(r) \/ StartSync(r) \/ StartStream(r)
Fairness ==
  \A r \in Reqs :
    /\ WF_vars(Resume(r)) /\ WF_vars(CancelCleanup(r))
    /\ WF_vars(GetLock(r)) /\ WF_vars(AcquireLock(r)) /\ WF_vars(TakeLock(r))
    /\ WF_vars(Leave(r)) /\ WF_vars(EndSync(r)) /\ WF_vars(SessionEnd(r))
    /\ WF_vars(GuardRelease(r))

Spec == Init /\ [][Next]_vars
FairSpec == Spec /\ Fairness

----------------------------------------------------------------------------
(* Properties.                                                             *)

Places == {"idle", "queued", "cancelling", "refused", "admitted", "haslock",
           "lockwait", "lockwoken", "locked", "sync", "stream", "stalled",
           "orphan", "released", "done"}
Grants == {"none", "pending", "held", "cancelled", "returned"}

(* Every variable has its type: the state q_acquire, q_release, the locks  *)
(* and the stream lifecycle of _chat can build.                            *)
TypeOK ==
  /\ pc \in [Reqs -> Places]
  /\ grant \in [Reqs -> Grants]
  /\ place \in [Reqs -> Nat]
  /\ active \in Nat
  /\ permits \in Nat
  /\ registry \in [Convs -> Reqs \cup {NoLock}]
  /\ lk \in [Reqs -> Reqs \cup {NoLock}]
  /\ locked \in [Reqs -> BOOLEAN]
  /\ lplace \in [Reqs -> Nat]
  /\ sess \in [Reqs -> {"none", "run", "end"}]
  /\ probing \in BOOLEAN
  /\ stale \in BOOLEAN
  /\ heals \in Nat
  /\ spurious \in Nat

(* The requests that were granted a permit and have not given it back.     *)
Held(g) == {r \in Reqs : g[r] = "held"}
Owners == Held(grant)

(* No permit leaks: QSTATE["active"] never counts a permit nobody will     *)
(* give back, whatever order promotion, deadline, cancellation and release *)
(* come in (the wedge the R3-10 and L7.1 repairs of q_acquire and of the   *)
(* slot guard are about).                                                  *)
NoLeakedPermit == active <= Cardinality(Owners)

(* The requests admitted at once exceed the permits by at most the number  *)
(* of q_release calls made without a permit (conversation-lock timeouts    *)
(* and watchdog heals): nothing else over-admits.                          *)
OverAdmissionAccounted == Cardinality(Owners) <= MaxPermits + spurious

(* No lost promotion: while a live request is parked some permit is out,   *)
(* so some q_release is still to come and will promote it.                 *)
NoStrandedWaiter == Pending(Q) # {} => active > 0

(* Admission is first come first served: a request is granted only when no *)
(* live request that parked before it is still waiting (q_acquire's fast   *)
(* path and q_promote).                                                    *)
FifoAdmission ==
  [][\A r, s \in Reqs :
       (grant[r] # "held" /\ grant'[r] = "held" /\ s # r /\ s \in Pending(Q))
          => \/ grant'[s] # "pending"
             \/ (grant[r] = "pending" /\ place[r] < place[s])]_vars

(* A 429 is given only for a queue of MAX_WAITING live waiters: waiters    *)
(* that timed out never count (R3-11, _q_prune_wait).                      *)
RefusedOnlyWhenFull ==
  [][\A r \in Reqs :
       (pc[r] # "refused" /\ pc'[r] = "refused")
          => Cardinality(Pending(Q)) = MaxWaiting]_vars

(* One lock object is held by one task at a time, wake-ups, timeouts of    *)
(* woken waiters and newcomers included.                                   *)
LockExclusive ==
  \A r, s \in Reqs : HoldsConv(r) /\ HoldsConv(s) /\ lk[r] = lk[s] => r = s

(* Two engine sessions of one conversation overlap only when one of them   *)
(* was let go of by its stream's release, or they use different lock       *)
(* objects: every other path keeps the lock as long as its session runs.   *)
LockedSessionsExclusive ==
  \A r, s \in Reqs :
    (r # s /\ sess[r] = "run" /\ sess[s] = "run" /\ lk[r] = lk[s])
       => "released" \in {pc[r], pc[s]}

(* Every request comes to an end although no deadline ever fires: parked   *)
(* requests are promoted and lock waiters woken by those before them.      *)
Finished(r) == pc[r] \in {"refused", "done", "released"}
NoStarvation == \A r \in Reqs : (pc[r] # "idle") ~> Finished(r)

(* What the code says, and what the runs that expect a violation refute.   *)

(* "admission PERMITS = the engine's batch width": never more admitted     *)
(* requests than permits.                                                  *)
PermitsRespected == Cardinality(Owners) <= MaxPermits

(* "same-conversation requests still serialize on the conv lock": at most  *)
(* one engine session of a conversation runs.                              *)
SessionExclusive ==
  \A r, s \in Reqs :
    (r # s /\ ConvOf[r] = ConvOf[s]) => ~(sess[r] = "run" /\ sess[s] = "run")

(* "drop uncontended locks": dropping them keeps a conversation in one     *)
(* critical section at a time.                                             *)
ConversationExclusive ==
  \A r, s \in Reqs :
    HoldsConv(r) /\ HoldsConv(s) /\ ConvOf[r] = ConvOf[s] => r = s
=============================================================================
