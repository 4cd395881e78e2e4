---------------------------- MODULE BatchProofs ----------------------------
(***************************************************************************)
(* Theorems about the batch daemon (module Batch), for every set of        *)
(* connections and conversations and every size of queue, prefill and      *)
(* generate: its types, the device's budget of cycles, one slot for a      *)
(* conversation, streams decoded from their own rows, and turn ends cached *)
(* on their own chain.                                                     *)
(*                                                                         *)
(* The last two rest on one invariant, BatchInv: who has asked (KnownInv), *)
(* what the slot under the barrier is filled with (PrefillInv), what every *)
(* slot holds and for whom (RowsInv), that no prefill waits in two places  *)
(* or outlives its answer (OnceInv), and that a generate runs on a clean   *)
(* slot no prefill has, or has strayed (GenInv).  A purge of pending that  *)
(* races the daemon can break the last two, and no other step does.        *)
(***************************************************************************)
EXTENDS Batch, Flattening, TLAPS

(* What the device has run and the daemon does not count are slips; each   *)
(* failed fence and each slip lets one more cycle through, and FailLimit   *)
(* failures end the daemon.                                                *)
FenceInv ==
  /\ {cycles, spent, slips, fails} \subseteq Nat
  /\ spent <= cycles + slips
  /\ spent < RebuildEvery + fails + slips
  /\ fails <= FailLimit
  /\ Up => fails < FailLimit

(* What a step may do to the fence: nothing, a cycle, a step that raises   *)
(* or the start of a prefill, by a daemon that is up and stays up unless   *)
(* it fails.                                                               *)
FenceStep ==
  \/ UNCHANGED <<fence, dpc>>
  \/ Up /\ FenceSkipped
  \/ Up /\ \E goon \in {"main", "chunk", "tail"} :
             FenceAfterCycle(goon) \/ FenceBeforePrefill(goon)

(* The count starts at zero.                                               *)
LEMMA InitFence == Init => FenceInv
BY SizesAssumption, SMT DEF Init, FenceInv, Up

(* A fence that succeeds, fails or is not due keeps the count within       *)
(* bounds.                                                                 *)
LEMMA StepFence ==
  ASSUME FenceInv, FenceStep PROVE FenceInv'
<1> USE SizesAssumption
<1>1. CASE UNCHANGED <<fence, dpc>>
  BY <1>1, SMT DEF FenceInv, fence, Up
<1>2. CASE Up /\ FenceSkipped
  BY <1>2, SMT DEF FenceInv, FenceSkipped, fence
<1>3. ASSUME Up, NEW goon \in {"main", "chunk", "tail"}, FenceAfterCycle(goon)
      PROVE  FenceInv'
  BY <1>3, SMT DEF FenceInv, FenceAfterCycle, Fence, NoFence, Up
<1>4. ASSUME Up, NEW goon \in {"main", "chunk", "tail"}, FenceBeforePrefill(goon)
      PROVE  FenceInv'
  BY <1>4, SMT DEF FenceInv, FenceBeforePrefill, Fence, NoFence, Up
<1>q. QED BY <1>1, <1>2, <1>3, <1>4 DEF FenceStep

(* A batch step runs at most one cycle before its fence.                   *)
LEMMA BatchStepFence ==
  ASSUME Up, NEW goon \in {"main", "chunk", "tail"}, BatchStep(goon) \/ StepFault(TRUE, goon)
         \/ StepFault(FALSE, goon)
  PROVE  FenceStep
<1>1. FenceSkipped \/ FenceAfterCycle(goon)
  BY Zenon DEF BatchStep, StepFault, FenceSkipped
<1>q. QED BY <1>1, Zenon DEF FenceStep

(* A request that is served runs none, but may find the fence due.         *)
LEMMA ServeFence ==
  ASSUME Up, NEW e, NEW waiting, Serve(e, waiting) PROVE FenceStep
<1>1. CASE ServeGenerate(e.conn)
  <2>1. UNCHANGED fence BY <1>1, Zenon DEF ServeGenerate, Refuse, Attach
  <2>q. QED BY <2>1 DEF FenceStep, FenceSkipped
<1>2. CASE ServePrefill(e.conn)
  <2>1. CASE Refuse(e.conn) BY <2>1, Zenon DEF Refuse, FenceStep, FenceSkipped
  <2>2. ASSUME NEW s, Bind(e.conn, s) PROVE FenceStep
    <3>1. FenceBeforePrefill("chunk") \/ FenceBeforePrefill("tail")
      BY <2>2, Zenon DEF Bind
    <3>q. QED BY <3>1 DEF FenceStep
  <2>q. QED BY <1>2, <2>1, <2>2, Zenon DEF ServePrefill
<1>3. CASE ServeSnapshot(e.conn, waiting)
  <2>1. UNCHANGED fence BY <1>3, Zenon DEF ServeSnapshot, Refuse
  <2>q. QED BY <2>1 DEF FenceStep, FenceSkipped
<1>q. QED BY <1>1, <1>2, <1>3, Zenon DEF Serve

(* Every step of the daemon treats the fence as FenceStep says.            *)
LEMMA DaemonFence == ASSUME Daemon PROVE FenceStep
<1>1. CASE HandlePending \/ HandleQueue
  <2>1. Up BY <1>1, SMT DEF HandlePending, HandleQueue, Up
  <2>2. \E e, w : Serve(e, w) BY <1>1, Zenon DEF HandlePending, HandleQueue
  <2>q. QED BY <2>1, <2>2, ServeFence
<1>2. CASE MainStep
  <2>1. Up BY <1>2, SMT DEF MainStep, Up
  <2>2. BatchStep("main") \/ StepFault(TRUE, "main") BY <1>2, Zenon DEF MainStep
  <2>q. QED BY <2>1, <2>2, BatchStepFence
<1>3. CASE Chunk \/ Finish \/ Abort \/ PrefillFault
  <2>1. Up BY <1>3, SMT DEF Chunk, Finish, Abort, PrefillFault, Feeding, Up
  <2>2. UNCHANGED fence BY <1>3, Zenon DEF Chunk, Finish, Abort, PrefillFault, EndPrefill
  <2>q. QED BY <2>1, <2>2 DEF FenceStep, FenceSkipped
<1>4. CASE Drain
  <2>1. Up BY <1>4, SMT DEF Drain, Up
  <2>2. UNCHANGED fence BY <1>4, Zenon DEF Drain, ServeGenerate, Refuse, Attach
  <2>q. QED BY <2>1, <2>2 DEF FenceStep, FenceSkipped
<1>5. CASE DrainStep
  <2>1. Up BY <1>5, SMT DEF DrainStep, Up
  <2>2. BatchStep("chunk") \/ StepFault(FALSE, "chunk") \/ UNCHANGED fence
    BY <1>5, Zenon DEF DrainStep
  <2>q. QED BY <2>1, <2>2, BatchStepFence DEF FenceStep, FenceSkipped
<1>q. QED BY <1>1, <1>2, <1>3, <1>4, <1>5 DEF Daemon

(* The clients and the listeners never touch it.                           *)
LEMMA ClientFence ==
  ASSUME Purge \/ (\E c \in Conn : SendPrefill(c) \/ SendGenerate(c) \/ Cancel(c)
                                    \/ Close(c) \/ Hangup(c)) \/ UNCHANGED vars
  PROVE  UNCHANGED <<fence, dpc>>
<1>1. CASE UNCHANGED vars BY <1>1, Zenon DEF vars, fence
<1>2. CASE Purge BY <1>2, Zenon DEF Purge, prefill
<1>3. ASSUME NEW c \in Conn, SendPrefill(c) \/ SendGenerate(c) \/ Cancel(c) \/ Close(c) \/ Hangup(c)
      PROVE  UNCHANGED <<fence, dpc>>
  BY <1>3, Zenon DEF SendPrefill, SendGenerate, Cancel, Close, Hangup, prefill
<1>q. QED BY <1>1, <1>2, <1>3

(* Every step of the daemon keeps the fence's count.                       *)
LEMMA FenceKept == ASSUME FenceInv, [Next]_vars PROVE FenceInv'
<1>1. FenceStep
  BY DaemonFence, ClientFence, Zenon DEF Next, FenceStep
<1> QED BY <1>1, StepFence

(* The device never runs more cycles without a rebuild than the fence's    *)
(* period and the failures it tolerates allow (RebuildBudget), and one     *)
(* more for every step that raised after its graphs were submitted:        *)
(* _fence_all_rebuild counts again only on success, batch_step comes to no *)
(* fence when it raises.                                                   *)
THEOREM BudgetKept == Spec => []RebuildBudget
<1>1. FenceInv => RebuildBudget
  BY SizesAssumption, SMT DEF FenceInv, RebuildBudget
<1>q. QED BY <1>1, InitFence, FenceKept, PTL DEF Spec

----------------------------------------------------------------------------
(* The conversations of the slots.                                         *)

(* A slot never used holds no conversation, and none is held twice under   *)
(* the API's model id.                                                     *)
ResidentInv ==
  /\ convo = [s \in Slot |-> convo[s]] /\ used = [s \in Slot |-> used[s]]
  /\ named = [s \in Slot |-> named[s]]
  /\ \A s \in Slot : used[s] \/ convo[s] = NoConv
  /\ ConvOnOneSlot

(* No slot holds a conversation at the start.                              *)
LEMMA InitResident == Init => ResidentInv
BY SMT DEF Init, ResidentInv, ConvOnOneSlot, Slot

(* A prefill takes its conversation's own slot, or one for a conversation  *)
(* that neither slot holds: the belt refuses when it is generating.        *)
LEMMA BindResident ==
  ASSUME ResidentInv, NEW c, ~Busy(c), NEW s \in PickSlot(c), Bind(c, s)
  PROVE  ResidentInv'
<1>1. /\ convo' = [convo EXCEPT ![s] = conv(c)] /\ used' = [used EXCEPT ![s] = TRUE]
      /\ named' = [named EXCEPT ![s] = TRUE]
  BY Zenon DEF Bind
<1>2. \/ convo[s] = conv(c) /\ named[s]
      \/ \A t \in Slot : convo[t] # conv(c) \/ ~named[t]
  <2>1. CASE s \in Mine(c) BY <2>1 DEF Mine
  <2>2. CASE s \notin Mine(c)
    <3>1. Mine(c) = {} BY <2>2, Zenon DEF PickSlot, First
    <3>q. QED BY <3>1, Zenon DEF Mine, Idle, Busy
  <2>q. QED BY <2>1, <2>2
<1>3. convo' = [t \in Slot |-> IF t = s THEN conv(c) ELSE convo[t]]
  BY <1>1, Zenon DEF ResidentInv
<1>4. named' = [t \in Slot |-> IF t = s THEN TRUE ELSE named[t]]
  BY <1>1, Zenon DEF ResidentInv
<1>5. ConvOnOneSlot'
  <2> SUFFICES ASSUME convo'[0] = convo'[1], convo'[0] # NoConv, named'[0], named'[1]
               PROVE  FALSE
    BY Zenon DEF ConvOnOneSlot
  <2>1. 0 \in Slot /\ 1 \in Slot /\ 0 # 1 BY DEF Slot
  <2>2. CASE s \notin Slot
    BY <1>3, <1>4, <2>1, <2>2, Zenon DEF ResidentInv, ConvOnOneSlot
  <2>3. CASE s = 0
    <3>1. convo[1] = conv(c) /\ named[1] /\ conv(c) # NoConv BY <1>3, <1>4, <2>1, <2>3, Zenon
    <3>q. QED BY <1>2, <2>1, <2>3, <3>1, Zenon DEF ResidentInv, ConvOnOneSlot
  <2>4. CASE s = 1
    <3>1. convo[0] = conv(c) /\ named[0] /\ conv(c) # NoConv BY <1>3, <1>4, <2>1, <2>4, Zenon
    <3>q. QED BY <1>2, <2>1, <2>4, <3>1, Zenon DEF ResidentInv, ConvOnOneSlot
  <2>q. QED BY <2>2, <2>3, <2>4, Zenon DEF Slot
<1>6. used' = [t \in Slot |-> IF t = s THEN TRUE ELSE used[t]]
  BY <1>1, Zenon DEF ResidentInv
<1>7. convo' = [t \in Slot |-> convo'[t]] BY <1>3, Zenon
<1>8. used' = [t \in Slot |-> used'[t]] /\ named' = [t \in Slot |-> named'[t]]
  BY <1>4, <1>6, Zenon
<1>9. \A t \in Slot : used'[t] \/ convo'[t] = NoConv
  BY <1>3, <1>6, Zenon DEF ResidentInv
<1>q. QED BY <1>5, <1>7, <1>8, <1>9 DEF ResidentInv

(* A snapshot is restored only while no slot was ever used.                *)
LEMMA SnapshotResident ==
  ASSUME ResidentInv, NEW c, NEW waiting, ServeSnapshot(c, waiting) PROVE ResidentInv'
<1>1. CASE Refuse(c)
  BY <1>1, Zenon DEF Refuse, binding, ResidentInv, ConvOnOneSlot
<1>2. CASE ~Refuse(c)
  <2>1. /\ \A s \in Slot : ~used[s]
        /\ convo' = [convo EXCEPT ![0] = conv(c)] /\ used' = [used EXCEPT ![0] = TRUE]
        /\ UNCHANGED named
    BY <1>2, Zenon DEF ServeSnapshot
  <2>2. \A s \in Slot : convo[s] = NoConv BY <2>1, Zenon DEF ResidentInv
  <2>3. convo' = [t \in Slot |-> IF t = 0 THEN conv(c) ELSE convo[t]]
    BY <2>1, Zenon DEF ResidentInv, Slot
  <2>4. used' = [t \in Slot |-> IF t = 0 THEN TRUE ELSE used[t]]
    BY <2>1, Zenon DEF ResidentInv, Slot
  <2>5. ConvOnOneSlot' BY <2>2, <2>3, SMT DEF ConvOnOneSlot, Slot
  <2>6. convo' = [t \in Slot |-> convo'[t]] BY <2>3, Zenon
  <2>7. used' = [t \in Slot |-> used'[t]] BY <2>4, Zenon
  <2>8. \A t \in Slot : used'[t] \/ convo'[t] = NoConv
    BY <2>2, <2>3, <2>4, Zenon
  <2>9. named' = [t \in Slot |-> named'[t]] BY <2>1, Zenon DEF ResidentInv
  <2>q. QED BY <2>5, <2>6, <2>7, <2>8, <2>9 DEF ResidentInv
<1>q. QED BY <1>1, <1>2

(* An aborted prefill leaves its slot without a conversation.              *)
LEMMA AbortResident == ASSUME ResidentInv, Abort PROVE ResidentInv'
<1>1. convo' = [convo EXCEPT ![pslot] = NoConv] /\ UNCHANGED <<used, named>>
  BY Zenon DEF Abort, EndPrefill
<1>2. convo' = [t \in Slot |-> IF t = pslot THEN NoConv ELSE convo[t]]
  BY <1>1, Zenon DEF ResidentInv
<1>3. convo' = [t \in Slot |-> convo'[t]] BY <1>2, Zenon
<1>4. \A t \in Slot : convo'[t] = NoConv \/ convo'[t] = convo[t] BY <1>2, Zenon
<1>5. ConvOnOneSlot'
  <2>1. 0 \in Slot /\ 1 \in Slot BY DEF Slot
  <2>q. QED BY <1>1, <1>4, <2>1, Zenon DEF ResidentInv, ConvOnOneSlot
<1>6. \A t \in Slot : used'[t] \/ convo'[t] = NoConv
  BY <1>1, <1>4, Zenon DEF ResidentInv
<1>7. named' = [t \in Slot |-> named'[t]] BY <1>1, Zenon DEF ResidentInv
<1>q. QED BY <1>1, <1>3, <1>5, <1>6, <1>7, Zenon DEF ResidentInv

(* The steps that bind and unbind no conversation.                         *)
LEMMA SameResident ==
  ASSUME ResidentInv, UNCHANGED <<convo, named, used>> PROVE ResidentInv'
BY Zenon DEF ResidentInv, ConvOnOneSlot

(* A request of a connection.                                              *)
LEMMA ServeResident ==
  ASSUME ResidentInv, NEW e, NEW waiting, Serve(e, waiting) PROVE ResidentInv'
<1>1. CASE ServeGenerate(e.conn)
  <2>1. UNCHANGED <<convo, named, used>>
    BY <1>1, Zenon DEF ServeGenerate, Refuse, Attach, binding
  <2>q. QED BY <2>1, SameResident
<1>2. CASE ServePrefill(e.conn)
  <2>1. CASE Refuse(e.conn)
    BY <2>1, SameResident, Zenon DEF Refuse, binding
  <2>2. CASE ~Busy(e.conn) /\ \E s \in PickSlot(e.conn) : Bind(e.conn, s)
    BY <2>2, BindResident
  <2>q. QED BY <1>2, <2>1, <2>2, Zenon DEF ServePrefill
<1>3. CASE ServeSnapshot(e.conn, waiting)
  BY <1>3, SnapshotResident
<1>q. QED BY <1>1, <1>2, <1>3, Zenon DEF Serve

(* The steps of the daemon that serve no prefill.                          *)
LEMMA StepResident ==
  ASSUME MainStep \/ Chunk \/ Drain \/ DrainStep \/ Finish \/ PrefillFault
  PROVE  UNCHANGED <<convo, named, used>>
<1>1. CASE MainStep \/ DrainStep
  BY <1>1, Zenon DEF MainStep, DrainStep, BatchStep, StepFault, binding
<1>2. CASE Chunk \/ Finish \/ PrefillFault
  BY <1>2, Zenon DEF Chunk, Finish, PrefillFault, EndPrefill, binding
<1>3. CASE Drain
  BY <1>3, Zenon DEF Drain, ServeGenerate, Refuse, Attach, binding
<1>q. QED BY <1>1, <1>2, <1>3

(* Nor do the clients' and the listeners'.                                 *)
LEMMA ClientResident ==
  ASSUME Purge \/ (\E c \in Conn : SendPrefill(c) \/ SendGenerate(c) \/ Cancel(c)
                                    \/ Close(c) \/ Hangup(c)) \/ UNCHANGED vars
  PROVE  UNCHANGED <<convo, named, used>>
<1>1. CASE UNCHANGED vars BY <1>1, Zenon DEF vars
<1>2. CASE Purge BY <1>2, Zenon DEF Purge, binding
<1>3. ASSUME NEW c \in Conn, SendPrefill(c) \/ SendGenerate(c) \/ Cancel(c) \/ Close(c) \/ Hangup(c)
      PROVE  UNCHANGED <<convo, named, used>>
  BY <1>3, Zenon DEF SendPrefill, SendGenerate, Cancel, Close, Hangup, binding
<1>q. QED BY <1>1, <1>2, <1>3

(* No conversation is resident on both slots under the API's model id      *)
(* (ConvOnOneSlot), however prefills, snapshots, aborts and generates of   *)
(* any number of connections interleave (_pick_slot, the belt of           *)
(* _b_prefill).                                                            *)
THEOREM OneSlot == Spec => []ConvOnOneSlot
<1>1. ASSUME ResidentInv, [Next]_vars PROVE ResidentInv'
  <2>1. CASE HandlePending \/ HandleQueue
    <3>1. \E e, w : Serve(e, w) BY <2>1, Zenon DEF HandlePending, HandleQueue
    <3>q. QED BY <1>1, <3>1, ServeResident
  <2>2. CASE Abort BY <1>1, <2>2, AbortResident
  <2>3. CASE ~(HandlePending \/ HandleQueue \/ Abort)
    <3>1. UNCHANGED <<convo, named, used>>
      BY <1>1, <2>3, StepResident, ClientResident, Zenon DEF Next, Daemon
    <3>q. QED BY <1>1, <3>1, SameResident
  <2>q. QED BY <2>1, <2>2, <2>3
<1>2. ResidentInv => ConvOnOneSlot BY DEF ResidentInv
<1>q. QED BY <1>1, <1>2, InitResident, PTL DEF Spec

----------------------------------------------------------------------------
(* The types.                                                              *)

DPC == {"main", "chunk", "drain", "tail", "exit"}

(* TypeOK but for the fence, and a generate whose cycles are all run is    *)
(* cancelled.                                                              *)
ClientType ==
  /\ cli \in [Conn -> Stages] /\ ask \in [Conn -> Ask]
  /\ queue \in Seq(Request) /\ pending \in Seq(Request) /\ purge \in Seq(Request)
  /\ Len(queue) <= QMax /\ purging \in Conn \cup {NoConn}

BindType ==
  /\ byConn \in [Conn -> Slot \cup {NoSlot}]
  /\ convo \in [Slot -> Conv \cup {NoConv}] /\ bound \in [Slot -> Conn \cup {NoConn}]
  /\ named \in [Slot -> BOOLEAN] /\ used \in [Slot -> BOOLEAN] /\ newest \in Slot
  /\ dirty \in [Slot -> BOOLEAN] /\ stop \in [Slot -> BOOLEAN]

DecodeType ==
  /\ gen \in [Slot -> Conn \cup {NoConn}] /\ gstop \in [Slot -> BOOLEAN]
  /\ left \in [Slot -> 0 .. Cycles]
  /\ \A s \in Slot : gen[s] # NoConn /\ ~gstop[s] => left[s] # 0

DeviceType == rows \in [Slot -> Rows] /\ boundary \in [Slot -> Conv \cup {NoConv}]

(* The barrier of a prefill is up from its first chunk to its end.         *)
Barrier ==
  /\ dpc = "main" => pf = NoConn
  /\ dpc \in {"chunk", "drain", "tail"} => pf # NoConn
  /\ pf = NoConn <=> pslot = NoSlot

PrefillType ==
  /\ dpc \in DPC
  /\ pf \in Conn \cup {NoConn} /\ pslot \in Slot \cup {NoSlot} /\ todo \in 0 .. Chunks
  /\ gcancel \in BOOLEAN
  /\ patched \subseteq Slot /\ raced \in BOOLEAN /\ strays \subseteq Conn
  /\ troubles \in 0 .. MaxTroubles
  /\ Barrier

StateType == ClientType /\ BindType /\ DecodeType /\ DeviceType /\ PrefillType

(* What the conjuncts speak of.                                            *)
LEMMA SameClient ==
  ASSUME ClientType, UNCHANGED <<clients, queues, listener>> PROVE ClientType'
BY Zenon DEF ClientType, clients, queues, listener

(* What the slots are bound to.                                            *)
LEMMA SameBind ==
  ASSUME BindType, UNCHANGED <<binding, flags>> PROVE BindType'
BY Zenon DEF BindType, binding, flags

(* What the slots generate.                                                *)
LEMMA SameDecode ==
  ASSUME DecodeType, UNCHANGED decode PROVE DecodeType'
BY Zenon DEF DecodeType, decode

(* What the device holds.                                                  *)
LEMMA SameDevice ==
  ASSUME DeviceType, UNCHANGED device PROVE DeviceType'
BY Zenon DEF DeviceType, device

(* The daemon and its prefill.                                             *)
LEMMA SamePrefill ==
  ASSUME PrefillType, UNCHANGED <<prefill, gcancel, history, troubles>> PROVE PrefillType'
BY Zenon DEF PrefillType, Barrier, prefill, history

(* One value of a function changes.                                        *)
LEMMA ExceptType ==
  ASSUME NEW S, NEW T, NEW f \in [S -> T], NEW x, NEW v \in T
  PROVE  [f EXCEPT ![x] = v] \in [S -> T]
BY Zenon

(* An answer moves a client to a stage.                                    *)
LEMMA AnswerType ==
  ASSUME cli \in [Conn -> Stages], NEW c, NEW to \in Stages, Answer(c, to)
  PROVE  cli' \in [Conn -> Stages]
BY Zenon DEF Answer, Answered

(* The stages, by name.                                                    *)
LEMMA StagesAre ==
  {"new", "prefilling", "ready", "failed", "generating", "ended", "closed"} \subseteq Stages
BY DEF Stages

(* What may be asked is a conversation's prefill or snapshot.              *)
LEMMA AskType ==
  ASSUME NEW c \in Conn, NEW a \in Asks[c] PROVE a \in Ask /\ a.conv \in Conv
<1>1. a \in [conv : Conv, mode : {"FRESH", "FOLLOW_UP", "SNAPSHOT"}]
  BY AsksAssumption
<1>2. a = [conv |-> a.conv, mode |-> a.mode] /\ a.conv \in Conv
      /\ a.mode \in {"FRESH", "FOLLOW_UP", "SNAPSHOT"}
  BY <1>1
<1>3. a.conv \in Conv \cup {NoConv} /\ a.mode \in {"none", "FRESH", "FOLLOW_UP", "SNAPSHOT"}
  BY <1>2
<1> QED BY <1>2, <1>3, Zenon DEF Ask

(* A connection's prefill is of a conversation, or not asked for yet.      *)
LEMMA ConvType ==
  ASSUME ClientType, NEW c \in Conn PROVE conv(c) \in Conv \cup {NoConv}
<1>1. ask[c] \in Ask BY DEF ClientType
<1> QED BY <1>1 DEF Ask, conv

(* A request in a queue is one.                                            *)
LEMMA ReqType ==
  ASSUME NEW c \in Conn, NEW w \in {"prefill", "generate"}
  PROVE  Req(c, w) \in Request /\ Req(c, w).conn = c /\ Req(c, w).what = w
<1>1. Req(c, w) \in Request BY Zenon DEF Req, Request
<1>2. Req(c, w).conn = c /\ Req(c, w).what = w BY DEF Req
<1> QED BY <1>1, <1>2

(* And a request is of a connection, and one of two.                       *)
LEMMA RequestIs ==
  ASSUME NEW e \in Request
  PROVE  e.conn \in Conn /\ e.what \in {"prefill", "generate"} /\ e = Req(e.conn, e.what)
BY DEF Request, Req

(* A queue with one more or one less.                                      *)
LEMMA QueueTypes ==
  ASSUME NEW q \in Seq(Request)
  PROVE  /\ \A e \in Request : Append(q, e) \in Seq(Request) /\ Len(Append(q, e)) = Len(q) + 1
         /\ q # << >> => /\ Head(q) \in Request /\ Tail(q) \in Seq(Request)
                         /\ Len(Tail(q)) = Len(q) - 1
         /\ Len(q) \in Nat
<1> QED OBVIOUS

(* Rows are of a conversation or of none.                                  *)
LEMMA RowsType ==
  ASSUME NEW v \in Conv \cup {NoConv},
         NEW h \in {"parked", "part", "whole", "disturbed"}
  PROVE  RowsOf(v, h) \in Rows /\ RowsOf(v, h).of = v /\ RowsOf(v, h).how = h
<1>1. RowsOf(v, h) \in Rows BY Zenon DEF RowsOf, Rows
<1>2. RowsOf(v, h).of = v /\ RowsOf(v, h).how = h BY DEF RowsOf
<1> QED BY <1>1, <1>2

(* A slot's rows are taken apart.                                          *)
LEMMA RowsAre ==
  ASSUME NEW r \in Rows
  PROVE  /\ r.of \in Conv \cup {NoConv} /\ r.how \in {"parked", "part", "whole", "disturbed"}
         /\ \A h : [r EXCEPT !.how = h] = RowsOf(r.of, h)
BY DEF Rows, RowsOf

(* Disturbed rows stay the conversation's.                                 *)
LEMMA DisturbedType ==
  ASSUME NEW r \in Rows
  PROVE  /\ Disturbed(r) \in Rows /\ Disturbed(r).of = r.of
         /\ Disturbed(r).how = "disturbed"
<1>1. r.of \in Conv \cup {NoConv} BY RowsAre
<1>2. RowsOf(r.of, "disturbed") \in Rows /\ RowsOf(r.of, "disturbed").of = r.of
      /\ RowsOf(r.of, "disturbed").how = "disturbed"
  BY <1>1, RowsType
<1> QED BY <1>2 DEF Disturbed

(* Every variable starts well typed.                                       *)
LEMMA InitType == Init => StateType
<1> SUFFICES ASSUME Init PROVE StateType
  OBVIOUS
<1>1. ClientType
  <2>1. NothingAsked \in Ask
    <3>1. NoConv \in Conv \cup {NoConv} /\ "none" \in {"none", "FRESH", "FOLLOW_UP", "SNAPSHOT"}
      OBVIOUS
    <3> QED BY <3>1, Zenon DEF NothingAsked, Ask
  <2>2. << >> \in Seq(Request) /\ Len(<< >>) <= QMax BY SizesAssumption
  <2>3. ask \in [Conn -> Ask] BY <2>1, Zenon DEF Init
  <2>4. cli \in [Conn -> Stages] BY DEF Init, Stages
  <2> QED BY <2>2, <2>3, <2>4, Zenon DEF Init, ClientType
<1>2. BindType BY DEF Init, BindType, Slot, NoSlot
<1>3. DecodeType BY SizesAssumption DEF Init, DecodeType
<1>4. DeviceType
  <2>1. RowsOf(NoConv, "parked") \in Rows BY RowsType
  <2> QED BY <2>1, Zenon DEF Init, DeviceType
<1>5. PrefillType
  <2>1. /\ 0 \in 0 .. Chunks /\ 0 \in 0 .. MaxTroubles /\ "main" \in DPC
        /\ "main" \notin {"chunk", "drain", "tail"}
    BY SizesAssumption DEF DPC
  <2> QED BY <2>1, Zenon DEF Init, PrefillType, Barrier
<1> QED BY <1>1, <1>2, <1>3, <1>4, <1>5 DEF StateType

(* The clients' and listeners' part.                                       *)
LEMMA SubmitType ==
  ASSUME ClientType, NEW c \in Conn, NEW w \in {"prefill", "generate"}, NEW to \in Stages,
         Submit(c, w, to)
  PROVE  cli' \in [Conn -> Stages] /\ queue' \in Seq(Request) /\ Len(queue') <= QMax
<1>1. queue' = queue \/ (Len(queue) < QMax /\ queue' = Append(queue, Req(c, w)))
  BY Zenon DEF Submit
<1>2. Answer(c, to) \/ Answer(c, "ended") BY Zenon DEF Submit
<1>3. cli' \in [Conn -> Stages] BY <1>2, AnswerType, StagesAre, Zenon DEF ClientType
<1>4. queue \in Seq(Request) /\ Len(queue) <= QMax /\ Req(c, w) \in Request
  BY ReqType DEF ClientType
<1>5. Append(queue, Req(c, w)) \in Seq(Request) /\ Len(Append(queue, Req(c, w))) = Len(queue) + 1
      /\ Len(queue) \in Nat
  BY <1>4, QueueTypes
<1>6. Len(queue) < QMax => Len(queue) + 1 <= QMax BY <1>5, SizesAssumption
<1> QED BY <1>1, <1>3, <1>4, <1>5, <1>6, Zenon

(* A client asks.                                                          *)
LEMMA SendType ==
  ASSUME StateType, NEW c \in Conn, SendPrefill(c) \/ SendGenerate(c) PROVE StateType'
<1>1. cli' \in [Conn -> Stages] /\ queue' \in Seq(Request) /\ Len(queue') <= QMax
  <2>1. Submit(c, "prefill", "prefilling") \/ Submit(c, "generate", "generating")
    BY Zenon DEF SendPrefill, SendGenerate
  <2> QED BY <2>1, SubmitType, StagesAre, Zenon DEF StateType
<1>2. ask' \in [Conn -> Ask]
  <2>1. ask' = ask \/ \E a \in Asks[c] : ask' = [ask EXCEPT ![c] = a]
    BY Zenon DEF SendPrefill, SendGenerate
  <2> QED BY <2>1, AskType, Zenon DEF StateType, ClientType
<1>3. UNCHANGED <<pending, listener, binding, flags, decode, device, prefill, gcancel, history, troubles>>
  BY Zenon DEF SendPrefill, SendGenerate
<1>4. ClientType'
  BY <1>1, <1>2, <1>3, Zenon DEF StateType, ClientType, listener
<1> QED BY <1>3, <1>4, SameBind, SameDecode, SameDevice, SamePrefill DEF StateType

(* A listener cancels.                                                     *)
LEMMA CancelType ==
  ASSUME StateType, NEW c \in Conn, Cancel(c) PROVE StateType'
<1>1. UNCHANGED <<clients, queues, listener, binding, dirty, gen, left, device, prefill, history>>
  BY Zenon DEF Cancel
<1>2. troubles' \in 0 .. MaxTroubles
  BY SizesAssumption DEF Cancel, StateType, PrefillType
<1>3. \/ gcancel' = TRUE /\ UNCHANGED <<stop, gstop>>
      \/ /\ stop' = [stop EXCEPT ![byConn[c]] = TRUE]
         /\ gstop' = [gstop EXCEPT ![byConn[c]] = gen[byConn[c]] # NoConn]
         /\ UNCHANGED gcancel
  BY Zenon DEF Cancel
<1>4. stop' \in [Slot -> BOOLEAN] /\ gstop' \in [Slot -> BOOLEAN] /\ gcancel' \in BOOLEAN
  <2>1. stop \in [Slot -> BOOLEAN] /\ gstop \in [Slot -> BOOLEAN] /\ gcancel \in BOOLEAN
    BY DEF StateType, BindType, DecodeType, PrefillType
  <2>2. (gen[byConn[c]] # NoConn) \in BOOLEAN /\ TRUE \in BOOLEAN OBVIOUS
  <2> QED BY <1>3, <2>1, <2>2, ExceptType, Zenon
<1>5. \A s \in Slot : gen[s] # NoConn /\ ~gstop'[s] => left[s] # 0
  <2>1. \A s \in Slot : gen[s] # NoConn /\ ~gstop'[s] => ~gstop[s]
    BY <1>3, Zenon DEF StateType, DecodeType
  <2> QED BY <2>1, Zenon DEF StateType, DecodeType
<1>6. BindType' BY <1>1, <1>4, Zenon DEF StateType, BindType, binding
<1>7. DecodeType' BY <1>1, <1>4, <1>5, Zenon DEF StateType, DecodeType
<1>8. PrefillType' BY <1>1, <1>2, <1>4, Zenon DEF StateType, PrefillType, Barrier, prefill, history
<1> QED BY <1>1, <1>6, <1>7, <1>8, SameClient, SameDevice DEF StateType

(* What a purge keeps is of pending.                                       *)
KeepsOf(c) == [i \in 1 .. Len(pending) |-> IF pending[i].conn = c THEN << >> ELSE <<pending[i]>>]

(* It is a queue of requests.                                              *)
LEMMA KeepsType ==
  ASSUME ClientType, NEW c
  PROVE  /\ KeepsOf(c) \in Seq(Seq(Request)) /\ Keeps(c) = FlattenSeq(KeepsOf(c))
         /\ Keeps(c) \in Seq(Request)
<1> DEFINE P(i) == IF pending[i].conn = c THEN << >> ELSE <<pending[i]>>
           n == Len(pending)
<1>1. \A i \in 1 .. n : P(i) \in Seq(Request)
  <2>1. \A i \in 1 .. n : pending[i] \in Request BY ElementOfSeq DEF ClientType
  <2> QED BY <2>1
<1>2. n \in Nat BY LenProperties DEF ClientType
<1>3. KeepsOf(c) = [i \in 1 .. n |-> P(i)] BY DEF KeepsOf
<1>4. Keeps(c) = FlattenSeq(KeepsOf(c)) BY DEF Keeps, KeepsOf
<1> HIDE DEF P, n
<1>5. [i \in 1 .. n |-> P(i)] \in Seq(Seq(Request)) BY <1>1, <1>2, IsASeq
<1> QED BY <1>3, <1>4, <1>5, FlattenType

(* A connection is closed.                                                 *)
LEMMA CloseType ==
  ASSUME StateType, NEW c \in Conn, Close(c) PROVE StateType'
<1>1. UNCHANGED <<ask, queues, convo, named, used, newest, flags, decode, device, prefill, gcancel, history>>
  BY Zenon DEF Close
<1>2. troubles' \in 0 .. MaxTroubles
  BY SizesAssumption DEF Close, StateType, PrefillType
<1>3. cli' = [cli EXCEPT ![c] = "closed"] /\ byConn' = [byConn EXCEPT ![c] = NoSlot]
  BY Zenon DEF Close
<1>4. cli' \in [Conn -> Stages] /\ byConn' \in [Conn -> Slot \cup {NoSlot}]
  <2>1. cli \in [Conn -> Stages] /\ byConn \in [Conn -> Slot \cup {NoSlot}]
    BY DEF StateType, ClientType, BindType
  <2> QED BY <1>3, <2>1, StagesAre, Zenon
<1>5. bound' \in [Slot -> Conn \cup {NoConn}]
  <2>1. bound' = [s \in Slot |-> IF bound[s] = c /\ byConn[c] = s THEN NoConn ELSE bound[s]]
    BY Zenon DEF Close
  <2>2. bound \in [Slot -> Conn \cup {NoConn}] BY DEF StateType, BindType
  <2> QED BY <2>1, <2>2, Zenon
<1>6. purge' \in Seq(Request) /\ purging' \in Conn \cup {NoConn}
  <2>1. UNCHANGED listener \/ (purging' = c /\ purge' = Keeps(c)) BY Zenon DEF Close
  <2>2. ClientType BY DEF StateType
  <2>3. Keeps(c) \in Seq(Request) BY <2>2, KeepsType
  <2> QED BY <2>1, <2>2, <2>3, Zenon DEF ClientType, listener
<1>7. ClientType' BY <1>1, <1>4, <1>6, Zenon DEF StateType, ClientType, queues
<1>8. BindType' BY <1>1, <1>4, <1>5, Zenon DEF StateType, BindType, flags
<1>9. PrefillType' BY <1>1, <1>2, Zenon DEF StateType, PrefillType, Barrier, prefill, history
<1> QED BY <1>1, <1>7, <1>8, <1>9, SameDecode, SameDevice DEF StateType

(* A purge writes back what it kept.                                       *)
LEMMA PurgeType == ASSUME StateType, Purge PROVE StateType'
<1>1. /\ pending' = purge /\ purging' = NoConn /\ purge' = << >>
      /\ raced' = (raced \/ purge # Keeps(purging))
      /\ UNCHANGED <<clients, queue, binding, flags, decode, device, prefill, gcancel, patched, strays, troubles>>
  BY Zenon DEF Purge
<1>2. << >> \in Seq(Request) OBVIOUS
<1>3. ClientType' BY <1>1, <1>2, Zenon DEF StateType, ClientType, clients
<1>4. raced' \in BOOLEAN BY <1>1, Zenon DEF StateType, PrefillType
<1>5. PrefillType' BY <1>1, <1>4, Zenon DEF StateType, PrefillType, Barrier, prefill
<1> QED BY <1>1, <1>3, <1>5, SameBind, SameDecode, SameDevice DEF StateType

(* A daemon that has left hangs up.                                        *)
LEMMA HangupType == ASSUME StateType, NEW c \in Conn, Hangup(c) PROVE StateType'
<1>1. /\ Answer(c, "ended")
      /\ UNCHANGED <<ask, queues, listener, binding, flags, decode, device, prefill, gcancel, history, troubles>>
  BY Zenon DEF Hangup
<1>2. cli' \in [Conn -> Stages]
  BY <1>1, AnswerType, StagesAre, Zenon DEF StateType, ClientType
<1>3. ClientType' BY <1>1, <1>2, Zenon DEF StateType, ClientType, queues, listener
<1> QED BY <1>1, <1>3, SameBind, SameDecode, SameDevice, SamePrefill DEF StateType

(* The steps that run cycles.                                              *)
LEMMA FinishGenType ==
  ASSUME StateType, NEW S \in SUBSET Slot, NEW T \in SUBSET Slot, FinishGen(S, T)
  PROVE  /\ gen' = [s \in Slot |-> IF s \in S \cup T THEN NoConn ELSE gen[s]]
         /\ gen' \in [Slot -> Conn \cup {NoConn}]
         /\ cli' \in [Conn -> Stages] /\ newest' \in Slot
<1>1. gen' = [s \in Slot |-> IF s \in S \cup T THEN NoConn ELSE gen[s]] /\ cli' = Tell(S \cup T)
  BY Zenon DEF FinishGen
<1>2. gen' \in [Slot -> Conn \cup {NoConn}] BY <1>1, Zenon DEF StateType, DecodeType
<1>3. cli' \in [Conn -> Stages]
  BY <1>1, StagesAre, Zenon DEF Tell, StateType, ClientType
<1>4. newest' \in Slot
  <2> DEFINE L == IF T = {} THEN S ELSE T
  <2>1. newest' = IF L = {} THEN newest ELSE CHOOSE s \in L : \A t \in L : t <= s
    BY Zenon DEF FinishGen
  <2>0. L \subseteq Slot OBVIOUS
  <2> HIDE DEF L
  <2>2. CASE L = {} BY <2>1, <2>2, Zenon DEF StateType, BindType
  <2>3. CASE L # {}
    <3>1. \E s \in L : \A t \in L : t <= s
      <4>1. CASE 1 \in L
        <5>1. \A t \in L : t <= 1 BY <2>0 DEF Slot
        <5> QED BY <4>1, <5>1
      <4>2. CASE 1 \notin L
        <5>1. \A t \in L : t = 0 BY <2>0, <4>2, Zenon DEF Slot
        <5>2. 0 \in L BY <2>3, <5>1, Zenon
        <5>3. \A t \in L : t <= 0 BY <5>1
        <5> QED BY <5>2, <5>3
      <4> QED BY <4>1, <4>2
    <3>2. (CHOOSE s \in L : \A t \in L : t <= s) \in L BY <3>1, Zenon
    <3> QED BY <2>0, <2>1, <2>3, <3>2, Zenon
  <2> QED BY <2>2, <2>3
<1> QED BY <1>1, <1>2, <1>3, <1>4

(* A batch step, in the terms of the slots: those it delivers to, those    *)
(* whose position does not follow, those that stop, those it finishes and  *)
(* those whose turn end is cached.                                         *)
BatchTerms(goon, own, bad, stopped, done, node) ==
  /\ own \subseteq Cycling /\ \A s \in own : bound[s] = gen[s]
  /\ own \cap bad = {} /\ bad \subseteq Cycling
  /\ stopped \subseteq own /\ node \subseteq stopped
  /\ Stopped \subseteq done /\ bad \subseteq done /\ stopped \subseteq done
  /\ done \subseteq Generating /\ \A s \in own : left[s] = 1 => s \in done
  /\ FinishGen(Stopped, done \ Stopped)
  /\ gstop' = [s \in Slot |-> CASE s \in done -> FALSE
                                [] s \in Cycling \ own -> TRUE
                                [] OTHER -> gstop[s] \/ (s \in own /\ Dead(gen[s]))]
  /\ left' = [s \in Slot |-> CASE s \in done -> 0
                               [] s \in Cycling \ done -> left[s] - 1
                               [] OTHER -> left[s]]
  /\ dirty' = [s \in Slot |-> dirty[s] \/ s \in bad]
  /\ boundary' = [s \in Slot |-> IF s \in node THEN rows[s].of ELSE boundary[s]]
  /\ rows' = [s \in Slot |-> IF s \in Cycling /\ gen[s] \in strays
                             THEN Disturbed(rows[s]) ELSE rows[s]]
  /\ UNCHANGED <<ask, byConn, convo, named, bound, used, stop>>
  /\ dpc' \in {goon, "exit"}

(* Every batch step is one in these terms.                                 *)
LEMMA BatchStepIs ==
  ASSUME NEW goon, BatchStep(goon)
  PROVE  \E own, bad, stopped, done, node \in SUBSET Slot :
           BatchTerms(goon, own, bad, stopped, done, node)
<1>1. PICK out \in [Slot -> {"go", "stop", "bad"}], node \in SUBSET Slot :
       LET own     == {s \in Cycling : bound[s] = gen[s] /\ out[s] # "bad"}
           bad     == {s \in Cycling : out[s] = "bad"}
           stopped == {s \in own : out[s] = "stop"}
           done    == Stopped \cup bad \cup stopped \cup {s \in own : left[s] = 1}
       IN /\ \A s \in Slot : out[s] \in IF s \in Cycling THEN Outcomes(s) ELSE {"go"}
          /\ node \subseteq stopped
          /\ FinishGen(Stopped, done \ Stopped)
          /\ gstop' = [s \in Slot |-> CASE s \in done -> FALSE
                                        [] s \in Cycling \ own -> TRUE
                                        [] OTHER -> gstop[s] \/ (s \in own /\ Dead(gen[s]))]
          /\ left' = [s \in Slot |-> CASE s \in done -> 0
                                       [] s \in Cycling \ done -> left[s] - 1
                                       [] OTHER -> left[s]]
          /\ dirty' = [s \in Slot |-> dirty[s] \/ s \in bad]
          /\ boundary' = [s \in Slot |-> IF s \in node THEN rows[s].of ELSE boundary[s]]
          /\ rows' = [s \in Slot |-> IF s \in Cycling /\ gen[s] \in strays
                                     THEN Disturbed(rows[s]) ELSE rows[s]]
  BY Zenon DEF BatchStep
<1> DEFINE own     == {s \in Cycling : bound[s] = gen[s] /\ out[s] # "bad"}
           bad     == {s \in Cycling : out[s] = "bad"}
           stopped == {s \in own : out[s] = "stop"}
           done    == Stopped \cup bad \cup stopped \cup {s \in own : left[s] = 1}
<1>2. Cycling \subseteq Slot /\ Stopped \subseteq Slot /\ Cycling \subseteq Generating /\ Stopped \subseteq Generating
  BY Zenon DEF Cycling, Stopped, Generating
<1>3. own \in SUBSET Slot /\ bad \in SUBSET Slot /\ stopped \in SUBSET Slot /\ done \in SUBSET Slot
  BY <1>2
<1>5. UNCHANGED <<ask, byConn, convo, named, bound, used, stop>> BY Zenon DEF BatchStep
<1>6. dpc' \in {goon, "exit"}
  <2>1. dpc' = goon \/ FenceAfterCycle(goon) BY Zenon DEF BatchStep
  <2> QED BY <2>1 DEF FenceAfterCycle, Fence, NoFence
<1>7. /\ own \subseteq Cycling /\ \A s \in own : bound[s] = gen[s]
      /\ own \cap bad = {} /\ bad \subseteq Cycling /\ stopped \subseteq own
      /\ Stopped \subseteq done /\ bad \subseteq done /\ stopped \subseteq done
      /\ done \subseteq Generating /\ \A s \in own : left[s] = 1 => s \in done
  BY <1>2
<1> HIDE DEF own, bad, stopped, done
<1>8. /\ node \subseteq stopped
      /\ FinishGen(Stopped, done \ Stopped)
      /\ gstop' = [s \in Slot |-> CASE s \in done -> FALSE
                                    [] s \in Cycling \ own -> TRUE
                                    [] OTHER -> gstop[s] \/ (s \in own /\ Dead(gen[s]))]
      /\ left' = [s \in Slot |-> CASE s \in done -> 0
                                   [] s \in Cycling \ done -> left[s] - 1
                                   [] OTHER -> left[s]]
      /\ dirty' = [s \in Slot |-> dirty[s] \/ s \in bad]
      /\ boundary' = [s \in Slot |-> IF s \in node THEN rows[s].of ELSE boundary[s]]
      /\ rows' = [s \in Slot |-> IF s \in Cycling /\ gen[s] \in strays
                                 THEN Disturbed(rows[s]) ELSE rows[s]]
  BY <1>1, Zenon DEF own, bad, stopped, done
<1>9. BatchTerms(goon, own, bad, stopped, done, node)
  BY <1>5, <1>6, <1>7, <1>8, Zenon DEF BatchTerms
<1> QED BY <1>3, <1>9, Zenon

(* What a batch step and one that raises leave of the types.               *)
LEMMA BatchStepType ==
  ASSUME StateType, NEW goon, BatchStep(goon),
         (goon = "main" /\ pf = NoConn) \/ (goon = "chunk" /\ pf # NoConn),
         UNCHANGED <<queues, listener, pf, pslot, todo, gcancel, history, troubles>>
  PROVE  StateType'
<1>0. PICK own, bad, stopped, done, node \in SUBSET Slot :
        BatchTerms(goon, own, bad, stopped, done, node)
  BY BatchStepIs, Zenon
<1>1. /\ own \subseteq Cycling
      /\ Stopped \subseteq done /\ done \subseteq Generating /\ \A s \in own : left[s] = 1 => s \in done
      /\ FinishGen(Stopped, done \ Stopped)
      /\ gstop' = [s \in Slot |-> CASE s \in done -> FALSE
                                    [] s \in Cycling \ own -> TRUE
                                    [] OTHER -> gstop[s] \/ (s \in own /\ Dead(gen[s]))]
      /\ left' = [s \in Slot |-> CASE s \in done -> 0
                                   [] s \in Cycling \ done -> left[s] - 1
                                   [] OTHER -> left[s]]
      /\ dirty' = [s \in Slot |-> dirty[s] \/ s \in bad]
      /\ boundary' = [s \in Slot |-> IF s \in node THEN rows[s].of ELSE boundary[s]]
      /\ rows' = [s \in Slot |-> IF s \in Cycling /\ gen[s] \in strays
                                 THEN Disturbed(rows[s]) ELSE rows[s]]
      /\ UNCHANGED <<ask, byConn, convo, named, bound, used, stop>>
      /\ dpc' \in {goon, "exit"}
  BY <1>0, Zenon DEF BatchTerms
<1>2. /\ gen' = [s \in Slot |-> IF s \in done THEN NoConn ELSE gen[s]]
      /\ gen' \in [Slot -> Conn \cup {NoConn}]
      /\ cli' \in [Conn -> Stages] /\ newest' \in Slot
  <2>1. Stopped \in SUBSET Slot BY Zenon DEF Stopped, Generating
  <2> DEFINE then == done \ Stopped
             both == Stopped \cup then
  <2>2. then \in SUBSET Slot /\ both = done /\ FinishGen(Stopped, then)
    BY <1>1, <2>1
  <2> HIDE DEF then
  <2>3. /\ gen' = [s \in Slot |-> IF s \in both THEN NoConn ELSE gen[s]]
        /\ gen' \in [Slot -> Conn \cup {NoConn}]
        /\ cli' \in [Conn -> Stages] /\ newest' \in Slot
    BY <2>1, <2>2, FinishGenType
  <2> HIDE DEF both
  <2> QED BY <2>2, <2>3
<1>3. gstop' \in [Slot -> BOOLEAN]
  <2>1. \A s \in Slot : (CASE s \in done -> FALSE
                           [] s \in Cycling \ own -> TRUE
                           [] OTHER -> gstop[s] \/ (s \in own /\ Dead(gen[s]))) \in BOOLEAN
    BY Zenon DEF StateType, DecodeType
  <2> QED BY <1>1, <2>1, Zenon
<1>4. ASSUME NEW s \in Slot
      PROVE  /\ left'[s] \in 0 .. Cycles
             /\ gen'[s] # NoConn /\ ~gstop'[s] => left'[s] # 0
  <2>1. left[s] \in 0 .. Cycles /\ (gen[s] # NoConn /\ ~gstop[s] => left[s] # 0)
        /\ Cycles \in Nat
    BY SizesAssumption DEF StateType, DecodeType
  <2>2. CASE s \in done
    <3>1. left'[s] = 0 /\ gen'[s] = NoConn BY <1>1, <1>2, <2>2, Zenon
    <3> QED BY <2>1, <3>1
  <2>3. CASE s \in Cycling \ done
    <3>1. left'[s] = left[s] - 1 BY <1>1, <2>3, Zenon
    <3>2. gen[s] # NoConn /\ ~gstop[s] BY <2>3, Zenon DEF Cycling, Stopped, Generating
    <3>3. s \in own => left[s] # 1 BY <1>1, <2>3, Zenon
    <3>4. s \notin own => gstop'[s] = TRUE BY <1>1, <2>3, Zenon
    <3> QED BY <2>1, <3>1, <3>2, <3>3, <3>4
  <2>4. CASE s \notin done /\ s \notin Cycling
    <3>1. left'[s] = left[s] BY <1>1, <2>4, Zenon
    <3>2. gen'[s] = NoConn BY <1>1, <1>2, <2>4, Zenon DEF Cycling, Generating
    <3> QED BY <2>1, <3>1, <3>2
  <2> QED BY <2>2, <2>3, <2>4
<1>5. DecodeType'
  <2>1. left' = [s \in Slot |-> left'[s]] BY <1>1, Zenon
  <2>2. left' \in [Slot -> 0 .. Cycles] BY <1>4, <2>1, Zenon
  <2> QED BY <1>2, <1>3, <1>4, <2>2, Zenon DEF DecodeType
<1>6. DeviceType'
  <2>1. \A s \in Slot : /\ rows[s] \in Rows /\ Disturbed(rows[s]) \in Rows
                        /\ rows[s].of \in Conv \cup {NoConv} /\ boundary[s] \in Conv \cup {NoConv}
    BY DisturbedType, RowsAre DEF StateType, DeviceType
  <2> QED BY <1>1, <2>1, Zenon DEF DeviceType
<1>7. BindType'
  <2>1. dirty' \in [Slot -> BOOLEAN] BY <1>1, Zenon DEF StateType, BindType
  <2> QED BY <1>1, <1>2, <2>1, Zenon DEF StateType, BindType
<1>8. ClientType' BY <1>1, <1>2, Zenon DEF StateType, ClientType, queues, listener
<1>9. PrefillType'
  <2>1. dpc' \in DPC BY <1>1 DEF DPC
  <2>2. Barrier' BY <1>1 DEF StateType, PrefillType, Barrier
  <2> QED BY <2>1, <2>2, Zenon DEF StateType, PrefillType, history
<1> QED BY <1>5, <1>6, <1>7, <1>8, <1>9 DEF StateType

(* A step that raises keeps the types.                                     *)
LEMMA StepFaultType ==
  ASSUME StateType, NEW ends \in BOOLEAN, NEW goon, StepFault(ends, goon),
         (goon = "main" /\ pf = NoConn) \/ (goon = "chunk" /\ pf # NoConn),
         UNCHANGED <<queues, listener, pf, pslot, todo, gcancel, history>>
  PROVE  StateType'
<1>1. /\ troubles < MaxTroubles /\ troubles' = troubles + 1
      /\ FinishGen(Stopped, IF ends THEN Cycling ELSE {})
      /\ gstop' = [s \in Slot |-> gstop[s] /\ gen'[s] # NoConn]
      /\ left' = [s \in Slot |-> IF gen'[s] = NoConn THEN 0 ELSE left[s]]
      /\ rows' = [s \in Slot |-> IF s \in Cycling THEN Disturbed(rows[s]) ELSE rows[s]]
      /\ dpc' = goon
      /\ UNCHANGED <<ask, byConn, convo, named, bound, used, flags, boundary>>
  BY Zenon DEF StepFault
<1>2. /\ gen' \in [Slot -> Conn \cup {NoConn}] /\ cli' \in [Conn -> Stages] /\ newest' \in Slot
      /\ \A s \in Slot : gen'[s] # NoConn => gen'[s] = gen[s]
  <2>1. Stopped \in SUBSET Slot /\ Cycling \in SUBSET Slot
    BY Zenon DEF Stopped, Cycling, Generating
  <2>2. PICK T \in SUBSET Slot : FinishGen(Stopped, T)
    BY <1>1, <2>1
  <2> QED BY <2>1, <2>2, FinishGenType
<1>3. DecodeType'
  <2>1. 0 \in 0 .. Cycles BY SizesAssumption
  <2>2. gstop' \in [Slot -> BOOLEAN] /\ left' \in [Slot -> 0 .. Cycles]
    BY <1>1, <2>1, Zenon DEF StateType, DecodeType
  <2>3. \A s \in Slot : gen'[s] # NoConn /\ ~gstop'[s] => left'[s] # 0
    BY <1>1, <1>2, Zenon DEF StateType, DecodeType
  <2> QED BY <1>2, <2>2, <2>3, Zenon DEF DecodeType
<1>4. DeviceType'
  <2>1. \A s \in Slot : rows[s] \in Rows /\ Disturbed(rows[s]) \in Rows
    BY DisturbedType DEF StateType, DeviceType
  <2> QED BY <1>1, <2>1, Zenon DEF StateType, DeviceType
<1>5. BindType' BY <1>1, <1>2, Zenon DEF StateType, BindType, flags
<1>6. ClientType' BY <1>1, <1>2, Zenon DEF StateType, ClientType, queues, listener
<1>7. PrefillType'
  <2>1. troubles' \in 0 .. MaxTroubles BY <1>1, SizesAssumption DEF StateType, PrefillType
  <2>2. dpc' \in DPC BY <1>1 DEF DPC
  <2>3. Barrier' BY <1>1 DEF StateType, PrefillType, Barrier
  <2> QED BY <1>1, <2>1, <2>2, <2>3, Zenon DEF StateType, PrefillType, history
<1> QED BY <1>3, <1>4, <1>5, <1>6, <1>7 DEF StateType

(* A request that is served.                                               *)
LEMMA PickSlotIn ==
  ASSUME StateType, NEW c, NEW s \in PickSlot(c) PROVE s \in Slot /\ gen[s] = NoConn
<1>1. s \in Idle
  <2>1. Mine(c) \subseteq Idle /\ Unused \subseteq Idle BY Zenon DEF Mine, Unused
  <2>2. Oldest \subseteq Idle
    <3>1. Other(newest) \in Slot BY DEF Other, Slot, StateType, BindType
    <3> QED BY <3>1, Zenon DEF Oldest
  <2> QED BY <2>1, <2>2, Zenon DEF PickSlot, First
<1> QED BY <1>1, Zenon DEF Idle, Generating

(* The rest of the state, while the daemon serves.                         *)
ServedType == /\ cli' \in [Conn -> Stages] /\ UNCHANGED ask
              /\ BindType' /\ DecodeType' /\ DeviceType' /\ PrefillType'

(* A refusal keeps the types.                                              *)
LEMMA RefuseType ==
  ASSUME StateType, NEW c, Refuse(c) PROVE ServedType
<1>1. /\ Answer(c, "ended")
      /\ UNCHANGED <<ask, binding, flags, decode, device, prefill, gcancel, history, troubles>>
  BY Zenon DEF Refuse
<1>2. cli' \in [Conn -> Stages]
  BY <1>1, AnswerType, StagesAre, Zenon DEF StateType, ClientType
<1> QED
  BY <1>1, <1>2, SameBind, SameDecode, SameDevice, SamePrefill DEF StateType, ServedType

(* So does a generate that starts.                                         *)
LEMMA AttachType ==
  ASSUME StateType, NEW c \in Conn, NEW s \in Slot, Attach(c, s) PROVE ServedType
<1>1. /\ gen' = [gen EXCEPT ![s] = c]
      /\ gstop' = [gstop EXCEPT ![s] = FALSE] /\ left' = [left EXCEPT ![s] = Cycles]
      /\ strays' = strays \/ strays' = strays \cup {c}
      /\ UNCHANGED <<clients, binding, flags, device, prefill, gcancel, patched, raced, troubles>>
  BY Zenon DEF Attach
<1>2. DecodeType'
  <2>1. /\ gen \in [Slot -> Conn \cup {NoConn}] /\ gstop \in [Slot -> BOOLEAN]
        /\ left \in [Slot -> 0 .. Cycles] /\ Cycles \in 0 .. Cycles /\ Cycles # 0
    BY SizesAssumption DEF StateType, DecodeType
  <2>2. /\ gen' \in [Slot -> Conn \cup {NoConn}] /\ gstop' \in [Slot -> BOOLEAN]
        /\ left' \in [Slot -> 0 .. Cycles]
    BY <1>1, <2>1, Zenon
  <2>3. \A t \in Slot : gen'[t] # NoConn /\ ~gstop'[t] => left'[t] # 0
    <3> TAKE t \in Slot
    <3>1. CASE t = s BY <1>1, <2>1, <3>1, Zenon
    <3>2. CASE t # s
      <4>1. gen'[t] = gen[t] /\ gstop'[t] = gstop[t] /\ left'[t] = left[t]
        BY <1>1, <2>1, <3>2, Zenon
      <4> QED BY <4>1, Zenon DEF StateType, DecodeType
    <3> QED BY <3>1, <3>2
  <2> QED BY <2>2, <2>3, Zenon DEF DecodeType
<1>3. PrefillType' BY <1>1, Zenon DEF StateType, PrefillType, Barrier, prefill
<1>4. cli' \in [Conn -> Stages] /\ UNCHANGED ask
  BY <1>1, Zenon DEF StateType, ClientType, clients
<1> QED BY <1>1, <1>2, <1>3, <1>4, SameBind, SameDevice DEF StateType, ServedType

(* So does any answer to a generate.                                       *)
LEMMA ServeGenerateType ==
  ASSUME StateType, NEW c \in Conn, ServeGenerate(c) PROVE ServedType
<1>1. CASE Refuse(c) BY <1>1, RefuseType
<1>2. CASE ~NoPrefill(c) /\ Attach(c, byConn[c])
  <2>1. byConn[c] \in Slot BY <1>2, Zenon DEF NoPrefill, StateType, BindType
  <2> QED BY <1>2, <2>1, AttachType
<1> QED BY <1>1, <1>2, Zenon DEF ServeGenerate

(* A prefill that is given a slot keeps the types.                         *)
LEMMA BindTypes ==
  ASSUME StateType, NEW c \in Conn, NEW s \in PickSlot(c), Bind(c, s) PROVE ServedType
<1>1. /\ convo' = [convo EXCEPT ![s] = conv(c)]
      /\ bound' = [bound EXCEPT ![s] = c] /\ byConn' = [byConn EXCEPT ![c] = s]
      /\ used' = [used EXCEPT ![s] = TRUE] /\ newest' = s
      /\ stop' = [stop EXCEPT ![s] = FALSE] /\ dirty' = [dirty EXCEPT ![s] = FALSE]
      /\ gcancel' = FALSE /\ pf' = c /\ pslot' = s
      /\ named' = [named EXCEPT ![s] = TRUE]
      /\ patched' \in {patched, patched \cup {s}, patched \ {s}}
      /\ UNCHANGED <<clients, decode, raced, strays, troubles>>
  BY Zenon DEF Bind
<1>2. /\ todo' \in {todo, Chunks, 0}
      /\ \/ UNCHANGED rows
         \/ \E h \in {"part", "whole"} : rows' = [rows EXCEPT ![s] = RowsOf(conv(c), h)]
      /\ boundary' = boundary \/ boundary' = [boundary EXCEPT ![s] = conv(c)]
  BY DEF Bind, device
<1>3. dpc' \in DPC /\ dpc' # "main"
  <2>1. FenceBeforePrefill("chunk") \/ FenceBeforePrefill("tail") BY Zenon DEF Bind
  <2> QED BY <2>1 DEF FenceBeforePrefill, Fence, NoFence, DPC
<1>4. conv(c) \in Conv \cup {NoConv} /\ s \in Slot
  <2>1. ask[c] \in Ask BY DEF StateType, ClientType
  <2>2. ask[c].conv \in Conv \cup {NoConv} BY <2>1 DEF Ask
  <2> QED BY <2>2, PickSlotIn DEF conv
<1>5. BindType'
  BY <1>1, <1>4, Zenon DEF StateType, BindType
<1>6. DecodeType' BY <1>1, SameDecode DEF StateType
<1>7. DeviceType'
  <2>1. rows' \in [Slot -> Rows]
    <3>1. \A h \in {"part", "whole"} : RowsOf(conv(c), h) \in Rows BY <1>4, RowsType
    <3> QED BY <1>2, <3>1, Zenon DEF StateType, DeviceType
  <2>2. boundary' \in [Slot -> Conv \cup {NoConv}] BY <1>2, <1>4, Zenon DEF StateType, DeviceType
  <2> QED BY <2>1, <2>2 DEF DeviceType
<1>8. PrefillType'
  <2>1. todo' \in 0 .. Chunks BY <1>2, SizesAssumption DEF StateType, PrefillType
  <2>2. c # NoConn /\ s # NoSlot BY <1>4, NoneAssumption DEF Slot, NoSlot
  <2>3. Barrier' BY <1>1, <1>3, <2>2, Zenon DEF Barrier
  <2>4. patched' \subseteq Slot BY <1>1, <1>4, Zenon DEF StateType, PrefillType
  <2> QED BY <1>1, <1>3, <1>4, <2>1, <2>3, <2>4, Zenon DEF StateType, PrefillType
<1>9. cli' \in [Conn -> Stages] /\ UNCHANGED ask
  BY <1>1, Zenon DEF StateType, ClientType, clients
<1> QED BY <1>5, <1>6, <1>7, <1>8, <1>9 DEF ServedType

(* A snapshot keeps the types.                                             *)
LEMMA SnapshotType ==
  ASSUME StateType, NEW c \in Conn, NEW waiting, ServeSnapshot(c, waiting) PROVE ServedType
<1>1. CASE Refuse(c) BY <1>1, RefuseType
<1>2. CASE ~Refuse(c)
  <2>1. /\ rows' = [rows EXCEPT ![0] = RowsOf(conv(c), "whole")]
        /\ convo' = [convo EXCEPT ![0] = conv(c)]
        /\ used' = [used EXCEPT ![0] = TRUE] /\ dirty' = [dirty EXCEPT ![0] = FALSE]
        /\ Answer(c, "ready")
        /\ UNCHANGED <<ask, byConn, named, bound, newest, stop, decode, boundary, prefill, gcancel, raced, strays, troubles>>
    BY <1>2, Zenon DEF ServeSnapshot
  <2>2. conv(c) \in Conv \cup {NoConv}
    <3>1. ask[c] \in Ask BY DEF StateType, ClientType
    <3> QED BY <3>1 DEF Ask, conv
  <2>3. RowsOf(conv(c), "whole") \in Rows BY <2>2, RowsType
  <2>4. DeviceType' BY <2>1, <2>3, Zenon DEF StateType, DeviceType
  <2>5. BindType' BY <2>1, <2>2, Zenon DEF StateType, BindType
  <2>6. cli' \in [Conn -> Stages] BY <2>1, AnswerType, StagesAre, Zenon DEF StateType, ClientType
  <2>7. patched' \subseteq Slot BY <1>2, Zenon DEF ServeSnapshot, StateType, PrefillType
  <2>8. PrefillType' BY <2>1, <2>7, Zenon DEF StateType, PrefillType, Barrier, prefill
  <2> QED BY <2>1, <2>4, <2>5, <2>6, <2>8, SameDecode DEF StateType, ServedType
<1> QED BY <1>1, <1>2

(* Every request that is served keeps the types.                           *)
LEMMA ServeType ==
  ASSUME StateType, NEW e \in Request, NEW waiting, Serve(e, waiting) PROVE ServedType
<1>1. e.conn \in Conn BY RequestIs
<1>2. CASE ServeGenerate(e.conn) BY <1>1, <1>2, ServeGenerateType
<1>3. CASE ServePrefill(e.conn)
  <2>1. Refuse(e.conn) \/ \E s \in PickSlot(e.conn) : Bind(e.conn, s)
    BY <1>3, Zenon DEF ServePrefill
  <2> QED BY <1>1, <2>1, RefuseType, BindTypes
<1>4. CASE ServeSnapshot(e.conn, waiting) BY <1>1, <1>4, SnapshotType
<1> QED BY <1>2, <1>3, <1>4, Zenon DEF Serve

(* A request taken from pending or from Q keeps the types.                 *)
LEMMA HandleType ==
  ASSUME StateType, HandlePending \/ HandleQueue PROVE StateType'
<1>1. CASE HandlePending
  <2>1. /\ pending # << >> /\ pending' = Tail(pending) /\ UNCHANGED <<queue, listener>>
        /\ Serve(Head(pending), Tail(pending))
    BY <1>1, Zenon DEF HandlePending
  <2>2. Head(pending) \in Request /\ pending' \in Seq(Request)
    BY <2>1, QueueTypes DEF StateType, ClientType
  <2>3. ServedType BY <2>1, <2>2, ServeType
  <2>4. ClientType' BY <2>1, <2>2, <2>3, Zenon DEF ServedType, StateType, ClientType, listener
  <2> QED BY <2>3, <2>4 DEF ServedType, StateType
<1>2. CASE HandleQueue
  <2>1. /\ queue # << >> /\ queue' = Tail(queue) /\ UNCHANGED <<pending, listener>>
        /\ Serve(Head(queue), pending)
    BY <1>2, Zenon DEF HandleQueue
  <2>2. queue \in Seq(Request) /\ Len(queue) <= QMax BY DEF StateType, ClientType
  <2>3. Head(queue) \in Request /\ queue' \in Seq(Request) /\ Len(queue') <= QMax
    BY <2>1, <2>2, QueueTypes, SizesAssumption
  <2>4. ServedType BY <2>1, <2>3, ServeType
  <2>5. ClientType' BY <2>1, <2>3, <2>4, Zenon DEF ServedType, StateType, ClientType, listener
  <2> QED BY <2>4, <2>5 DEF ServedType, StateType
<1> QED BY <1>1, <1>2

(* The steps of a prefill.                                                 *)
LEMMA DrainType == ASSUME StateType, Drain PROVE StateType'
<1>1. /\ queue # << >> /\ queue' = Tail(queue) /\ UNCHANGED listener
  BY Zenon DEF Drain
<1>2. queue \in Seq(Request) /\ Len(queue) <= QMax BY DEF StateType, ClientType
<1>3. Head(queue) \in Request /\ queue' \in Seq(Request) /\ Len(queue') <= QMax /\ Head(queue).conn \in Conn
  <2>1. Head(queue) \in Request /\ queue' \in Seq(Request) /\ Len(queue') <= QMax
    BY <1>1, <1>2, QueueTypes, SizesAssumption
  <2> QED BY <2>1, RequestIs
<1>4. CASE ServeGenerate(Head(queue).conn) /\ UNCHANGED pending
  <2>1. ServedType BY <1>3, <1>4, ServeGenerateType
  <2>2. ClientType' BY <1>1, <1>3, <1>4, <2>1, Zenon DEF ServedType, StateType, ClientType, listener
  <2> QED BY <2>1, <2>2 DEF ServedType, StateType
<1>5. CASE /\ Park(Head(queue).conn)
           /\ UNCHANGED <<binding, flags, decode, device, prefill, gcancel, history, troubles>>
  <2> DEFINE c == Head(queue).conn
  <2>1. \/ pending' = Append(pending, Req(c, "prefill")) /\ UNCHANGED clients
        \/ UNCHANGED <<pending, ask>> /\ Answer(c, "ended")
    BY <1>5, Zenon DEF Park
  <2>2. Req(c, "prefill") \in Request BY <1>3, ReqType
  <2>3. cli' \in [Conn -> Stages] /\ UNCHANGED ask
    BY <2>1, AnswerType, StagesAre, Zenon DEF StateType, ClientType, clients
  <2>4. pending \in Seq(Request) BY DEF StateType, ClientType
  <2> HIDE DEF c
  <2>5. Append(pending, Req(c, "prefill")) \in Seq(Request) BY <2>2, <2>4, QueueTypes
  <2>6. pending' \in Seq(Request) BY <2>1, <2>4, <2>5, Zenon
  <2>7. ClientType' BY <1>1, <1>3, <2>3, <2>6, Zenon DEF StateType, ClientType, listener
  <2> QED BY <1>5, <2>7, SameBind, SameDecode, SameDevice, SamePrefill DEF StateType
<1> QED BY <1>4, <1>5, Zenon DEF Drain

(* The end of a prefill keeps the types.                                   *)
LEMMA EndPrefillType ==
  ASSUME StateType, NEW to \in Stages, EndPrefill(to),
         convo' \in [Slot -> Conv \cup {NoConv}], dirty' \in [Slot -> BOOLEAN],
         DeviceType', dpc' \in {"main", "exit"}, troubles' \in 0 .. MaxTroubles
  PROVE  StateType'
<1>1. /\ Answer(pf, to) /\ pf' = NoConn /\ pslot' = NoSlot /\ todo' = 0
      /\ UNCHANGED <<ask, queues, listener, byConn, named, bound, used, newest, stop, decode, gcancel, history>>
  BY Zenon DEF EndPrefill
<1>2. cli' \in [Conn -> Stages] BY <1>1, AnswerType DEF StateType, ClientType
<1>3. ClientType' BY <1>1, <1>2, Zenon DEF StateType, ClientType, queues, listener
<1>4. BindType' BY <1>1, Zenon DEF StateType, BindType
<1>5. 0 \in 0 .. Chunks BY SizesAssumption
<1>6. PrefillType'
  <2>1. dpc' \in DPC BY DEF DPC
  <2>2. Barrier' BY <1>1 DEF Barrier
  <2> QED BY <1>1, <1>5, <2>1, <2>2, Zenon DEF StateType, PrefillType, history
<1> QED BY <1>1, <1>3, <1>4, <1>6, SameDecode DEF StateType

(* A chunk keeps the types.                                                *)
LEMMA ChunkType == ASSUME StateType, Chunk PROVE StateType'
<1>1. /\ dpc = "chunk" /\ todo > 0 /\ todo' = todo - 1 /\ dpc' = "drain"
      /\ boundary' \in {boundary, [boundary EXCEPT ![pslot] = conv(pf)]}
      /\ UNCHANGED <<clients, queues, listener, binding, flags, decode, rows, pf, pslot, gcancel, history, troubles>>
  BY Zenon DEF Chunk
<1>2. conv(pf) \in Conv \cup {NoConv}
  <2>1. pf \in Conn BY <1>1 DEF StateType, PrefillType, Barrier
  <2> QED BY <2>1, ConvType DEF StateType
<1>3. DeviceType' BY <1>1, <1>2, Zenon DEF StateType, DeviceType
<1>4. PrefillType'
  <2>1. todo' \in 0 .. Chunks BY <1>1, SizesAssumption DEF StateType, PrefillType
  <2>2. dpc' \in DPC BY <1>1 DEF DPC
  <2>3. Barrier' BY <1>1 DEF StateType, PrefillType, Barrier
  <2> QED BY <1>1, <2>1, <2>2, <2>3, Zenon DEF StateType, PrefillType, history
<1> QED BY <1>1, <1>3, <1>4, SameClient, SameBind, SameDecode DEF StateType

(* The steps of the loop that run cycles keep the types.                   *)
LEMMA CycleStepType ==
  ASSUME StateType, MainStep \/ DrainStep PROVE StateType'
<1>1. UNCHANGED <<queues, listener, pf, pslot, todo, gcancel, history>>
  BY Zenon DEF MainStep, DrainStep
<1>2. CASE MainStep
  <2>1. dpc = "main" /\ pf = NoConn BY <1>2, Zenon DEF MainStep, StateType, PrefillType, Barrier
  <2>2. (BatchStep("main") /\ UNCHANGED troubles) \/ StepFault(TRUE, "main")
    BY <1>2, Zenon DEF MainStep
  <2> QED BY <1>1, <2>1, <2>2, BatchStepType, StepFaultType
<1>3. CASE DrainStep
  <2>1. dpc = "drain" /\ pf # NoConn BY <1>3 DEF DrainStep, StateType, PrefillType, Barrier
  <2>2. CASE (BatchStep("chunk") /\ UNCHANGED troubles) \/ StepFault(FALSE, "chunk")
    BY <1>1, <2>1, <2>2, BatchStepType, StepFaultType
  <2>3. CASE dpc' = "chunk" /\ UNCHANGED <<clients, binding, flags, decode, device, troubles>>
    <3>1. dpc' \in DPC BY <2>3 DEF DPC
    <3>2. Barrier' BY <1>1, <2>1, <2>3 DEF StateType, PrefillType, Barrier
    <3>3. PrefillType' BY <1>1, <2>3, <3>1, <3>2, Zenon DEF StateType, PrefillType, history
    <3> QED BY <1>1, <2>3, <3>3, SameClient, SameBind, SameDecode, SameDevice DEF StateType
  <2> QED BY <1>3, <2>2, <2>3, Zenon DEF DrainStep
<1> QED BY <1>2, <1>3

(* A prefill that ends well keeps the types.                               *)
LEMMA FinishType == ASSUME StateType, Finish PROVE StateType'
<1>1. /\ EndPrefill("ready") /\ UNCHANGED <<convo, dirty, troubles>> /\ dpc' = "main"
      /\ rows' = [rows EXCEPT ![pslot] = RowsOf(@.of, Filled(@))]
      /\ FreshBoundary \/ UNCHANGED boundary
  BY Zenon DEF Finish
<1>2. conv(pf) \in Conv \cup {NoConv}
  <2>1. pf # NoConn BY DEF Finish, StateType, PrefillType, Barrier
  <2>2. pf \in Conn BY <2>1 DEF StateType, PrefillType
  <2> QED BY <2>2, ConvType DEF StateType
<1>3. DeviceType'
  <2>1. ASSUME NEW s \in Slot PROVE RowsOf(rows[s].of, Filled(rows[s])) \in Rows
    <3>1. rows[s] \in Rows BY DEF StateType, DeviceType
    <3>2. rows[s].of \in Conv \cup {NoConv} BY <3>1, RowsAre
    <3>3. Filled(rows[s]) \in {"parked", "part", "whole", "disturbed"}
      BY <3>1, RowsAre DEF Filled
    <3> QED BY <3>2, <3>3, RowsType
  <2>2. rows' \in [Slot -> Rows] BY <1>1, <2>1, Zenon DEF StateType, DeviceType
  <2>3. boundary' \in [Slot -> Conv \cup {NoConv}]
    <3>1. CASE UNCHANGED boundary BY <3>1 DEF StateType, DeviceType
    <3>2. CASE FreshBoundary
      <4>1. PICK v \in {NoConv, conv(pf)} : boundary' = [boundary EXCEPT ![pslot] = v]
        BY <3>2, Zenon DEF FreshBoundary
      <4> QED BY <1>2, <4>1, Zenon DEF StateType, DeviceType
    <3> QED BY <1>1, <3>1, <3>2
  <2> QED BY <2>2, <2>3 DEF DeviceType
<1> QED BY <1>1, <1>3, EndPrefillType, StagesAre, Zenon DEF StateType, BindType, PrefillType

(* A prefill that is cancelled or raises keeps the types.                  *)
LEMMA AbortType == ASSUME StateType, Abort \/ PrefillFault PROVE StateType'
<1>1. /\ EndPrefill("failed") /\ UNCHANGED boundary /\ dpc' \in {"main", "exit"}
      /\ rows' = [rows EXCEPT ![pslot].how = "part"] /\ dirty' = [dirty EXCEPT ![pslot] = TRUE]
      /\ convo' = convo \/ convo' = [convo EXCEPT ![pslot] = NoConv]
  BY Zenon DEF Abort, PrefillFault
<1>2. troubles' \in 0 .. MaxTroubles
  BY SizesAssumption DEF Abort, PrefillFault, StateType, PrefillType
<1>3. DeviceType'
  <2>1. ASSUME NEW s \in Slot PROVE [rows[s] EXCEPT !.how = "part"] \in Rows
    <3>1. rows[s] \in Rows BY DEF StateType, DeviceType
    <3> QED BY <3>1, Zenon DEF Rows
  <2> QED BY <1>1, <2>1, Zenon DEF StateType, DeviceType
<1> QED BY <1>1, <1>2, <1>3, EndPrefillType, StagesAre, Zenon DEF StateType, BindType

(* Every step keeps the types.                                             *)
LEMMA StepType == ASSUME StateType, [Next]_vars PROVE StateType'
<1>1. CASE UNCHANGED vars
  <2>1. UNCHANGED <<clients, queues, listener, binding, flags, decode, device, prefill, gcancel,
                    history, troubles>>
    BY <1>1, Zenon DEF vars, clients, queues, listener, binding, flags, decode, device, prefill, history
  <2> QED BY <2>1, SameClient, SameBind, SameDecode, SameDevice, SamePrefill DEF StateType
<1>2. CASE Next
  BY <1>2, SendType, CancelType, CloseType, HangupType, PurgeType, HandleType, CycleStepType,
     ChunkType, DrainType, FinishType, AbortType, Zenon
  DEF Next, Daemon
<1> QED BY <1>1, <1>2

(* Every variable keeps its type (TypeOK).                                 *)
THEOREM TypeCorrect == Spec => []TypeOK
<1>1. StateType /\ FenceInv => TypeOK
  <2> SUFFICES ASSUME StateType, FenceInv PROVE TypeOK
    OBVIOUS
  <2>1. fails \in 0 .. FailLimit /\ cycles \in Nat /\ spent \in Nat /\ slips \in Nat
    BY SizesAssumption DEF FenceInv
  <2> QED
    BY <2>1, Zenon
    DEF StateType, ClientType, BindType, DecodeType, DeviceType, PrefillType, DPC, TypeOK
<1> QED BY <1>1, InitType, StepType, InitFence, FenceKept, PTL DEF Spec

----------------------------------------------------------------------------
(* What the slots hold, and whose generates they run.                      *)

(* A queue holds a request, and holds it no more than once.                *)
Waits(q, e) == \E i \in 1 .. Len(q) : q[i] = e
Once(q, e) == \A i, j \in 1 .. Len(q) : q[i] = e /\ q[j] = e => i = j

(* An appended request waits with those before it.                         *)
LEMMA WaitsAppend ==
  ASSUME NEW q \in Seq(Request), NEW x \in Request, NEW e
  PROVE  /\ Waits(Append(q, x), e) <=> Waits(q, e) \/ e = x
         /\ Once(q, e) /\ (e = x => ~Waits(q, e)) => Once(Append(q, x), e)
<1> DEFINE n == Len(q)
           r == Append(q, x)
<1>1. /\ n \in Nat /\ Len(r) = n + 1 /\ r[n + 1] = x
      /\ \A i \in 1 .. n : r[i] = q[i]
  BY AppendProperties, LenProperties
<1> HIDE DEF r
<1>2. \A i \in 1 .. Len(r) : (i \in 1 .. n /\ r[i] = q[i]) \/ (i = n + 1 /\ r[i] = x)
  BY <1>1
<1>3. \A i \in 1 .. n : i \in 1 .. Len(r) /\ r[i] = q[i]
  BY <1>1
<1>4. n + 1 \in 1 .. Len(r) /\ r[n + 1] = x
  BY <1>1
<1>5. Waits(r, e) <=> Waits(q, e) \/ e = x
  <2> DEFINE z == n + 1
  <2>1. \A i \in 1 .. Len(r) : (i \in 1 .. n /\ r[i] = q[i]) \/ r[i] = x
    BY <1>2
  <2>2. z \in 1 .. Len(r) /\ r[z] = x BY <1>4
  <2> HIDE DEF z
  <2> QED BY <1>3, <2>1, <2>2, Zenon DEF Waits, n
<1>6. ASSUME Once(q, e), e = x => ~Waits(q, e) PROVE Once(r, e)
  <2> SUFFICES ASSUME NEW i \in 1 .. Len(r), NEW j \in 1 .. Len(r), r[i] = e, r[j] = e
               PROVE  i = j
    BY Zenon DEF Once
  <2>1. CASE i \in 1 .. n /\ j \in 1 .. n /\ r[i] = q[i] /\ r[j] = q[j]
    BY <1>6, <2>1 DEF Once, n
  <2>2. CASE e = x
    <3>1. i \notin 1 .. n /\ j \notin 1 .. n BY <1>3, <1>6, <2>2, Zenon DEF Waits, n
    <3> QED BY <1>2, <3>1
  <2> QED BY <1>2, <2>1, <2>2
<1> QED BY <1>5, <1>6 DEF r

(* Those behind the first wait as before, and the first no more.           *)
LEMMA WaitsTail ==
  ASSUME NEW q \in Seq(Request), q # << >>, NEW e
  PROVE  /\ Waits(Tail(q), e) => Waits(q, e)
         /\ Waits(q, Head(q))
         /\ Once(q, e) => Once(Tail(q), e)
         /\ Once(q, Head(q)) => ~Waits(Tail(q), Head(q))
<1> DEFINE n == Len(Tail(q))
           r == Tail(q)
<1>1. /\ n \in Nat /\ Len(q) = n + 1 /\ q[1] = Head(q)
      /\ \A i \in 1 .. n : r[i] = q[i + 1]
  OBVIOUS
<1>2. 1 \in 1 .. Len(q) /\ \A i \in 1 .. n : i + 1 \in 1 .. Len(q) /\ i + 1 # 1
  BY <1>1
<1>3. Waits(r, e) => Waits(q, e) BY <1>1, <1>2 DEF Waits
<1>4. Waits(q, Head(q)) BY <1>1, <1>2 DEF Waits
<1>5. ASSUME Once(q, e) PROVE Once(r, e)
  <2> SUFFICES ASSUME NEW i \in 1 .. n, NEW j \in 1 .. n, r[i] = e, r[j] = e
               PROVE  i = j
    BY DEF Once
  <2>1. i + 1 = j + 1 BY <1>1, <1>2, <1>5 DEF Once
  <2> QED BY <2>1
<1>6. ASSUME Once(q, Head(q)) PROVE ~Waits(r, Head(q))
  <2> SUFFICES ASSUME NEW i \in 1 .. n, r[i] = Head(q) PROVE FALSE
    BY DEF Waits
  <2>1. i + 1 = 1 BY <1>1, <1>2, <1>6 DEF Once
  <2> QED BY <1>2, <2>1
<1> QED BY <1>3, <1>4, <1>5, <1>6

(* What a purge keeps waited before, and no more often.                    *)
LEMMA KeepsWaits ==
  ASSUME ClientType, NEW c, NEW e, Waits(Keeps(c), e)
  PROVE  Waits(pending, e)
<1>1. KeepsOf(c) \in Seq(Seq(Request)) /\ Keeps(c) = FlattenSeq(KeepsOf(c))
  BY KeepsType
<1>2. PICK k \in 1 .. Len(FlattenSeq(KeepsOf(c))) : FlattenSeq(KeepsOf(c))[k] = e
  BY <1>1, Zenon DEF Waits
<1>3. PICK i \in 1 .. Len(KeepsOf(c)) : \E h \in 1 .. Len(KeepsOf(c)[i]) : e = KeepsOf(c)[i][h]
  BY <1>1, <1>2, FlattenRange, Zenon
<1>4. Len(pending) \in Nat BY LenProperties DEF ClientType
<1>5. i \in 1 .. Len(pending) /\ KeepsOf(c)[i] = IF pending[i].conn = c THEN << >> ELSE <<pending[i]>>
  BY <1>3, <1>4 DEF KeepsOf
<1>6. e = pending[i] BY <1>3, <1>5
<1> QED BY <1>5, <1>6 DEF Waits

(* And if nothing waits twice, it keeps nothing twice.                     *)
LEMMA KeepsOnce ==
  ASSUME ClientType, NEW c, \A e : Once(pending, e), NEW e
  PROVE  Once(Keeps(c), e)
<1>1. KeepsOf(c) \in Seq(Seq(Request)) /\ Keeps(c) = FlattenSeq(KeepsOf(c))
  BY KeepsType
<1>2. Len(pending) \in Nat BY LenProperties DEF ClientType
<1>3. \A i \in 1 .. Len(KeepsOf(c)) :
        /\ i \in 1 .. Len(pending)
        /\ \A h \in 1 .. Len(KeepsOf(c)[i]) : h = 1 /\ KeepsOf(c)[i][h] = pending[i]
  <2> SUFFICES ASSUME NEW i \in 1 .. Len(KeepsOf(c))
               PROVE  /\ i \in 1 .. Len(pending)
                      /\ \A h \in 1 .. Len(KeepsOf(c)[i]) : h = 1 /\ KeepsOf(c)[i][h] = pending[i]
    OBVIOUS
  <2>1. i \in 1 .. Len(pending) /\ KeepsOf(c)[i] = IF pending[i].conn = c THEN << >> ELSE <<pending[i]>>
    BY <1>2 DEF KeepsOf
  <2> QED BY <2>1
<1>4. \A i, j \in 1 .. Len(pending) : pending[i] = pending[j] => i = j
  BY Zenon DEF Once
<1>5. Distinct(KeepsOf(c))
  <2> SUFFICES ASSUME NEW i \in 1 .. Len(KeepsOf(c)), NEW j \in 1 .. Len(KeepsOf(c)),
                      NEW h \in 1 .. Len(KeepsOf(c)[i]), NEW k \in 1 .. Len(KeepsOf(c)[j]),
                      KeepsOf(c)[i][h] = KeepsOf(c)[j][k]
               PROVE  i = j /\ h = k
    BY Zenon DEF Distinct
  <2>1. /\ i \in 1 .. Len(pending) /\ h = 1 /\ KeepsOf(c)[i][h] = pending[i]
        /\ j \in 1 .. Len(pending) /\ k = 1 /\ KeepsOf(c)[j][k] = pending[j]
    BY <1>3
  <2>2. i = j BY <1>4, <2>1
  <2> QED BY <2>1, <2>2
<1>6. \A p, q \in 1 .. Len(FlattenSeq(KeepsOf(c))) :
        FlattenSeq(KeepsOf(c))[p] = FlattenSeq(KeepsOf(c))[q] => p = q
  BY <1>1, <1>5, FlattenInjective
<1> QED BY <1>1, <1>6, Zenon DEF Once

(* A connection that has asked for something, and its two requests.        *)
Known(c) == cli[c] # "new"
Fill(c) == Req(c, "prefill")
Run(c) == Req(c, "generate")
Owed(c) == Waits(queue, Fill(c)) \/ Waits(pending, Fill(c)) \/ pf = c

(* Whoever waits, is filled in, bound or decoded for has asked, and asked  *)
(* for a conversation; only prefills wait behind a prefill.                *)
KnownInv ==
  /\ \A c \in Conn : Known(c) => conv(c) # NoConv
  /\ \A e \in Request : Waits(queue, e) => Known(e.conn)
  /\ \A e \in Request : Waits(pending, e) \/ Waits(purge, e) => Known(e.conn) /\ e.what = "prefill"
  /\ pf # NoConn => Known(pf)
  /\ \A s \in Slot : /\ bound[s] # NoConn => Known(bound[s])
                     /\ gen[s] # NoConn => Known(gen[s])

(* Nobody takes back what he has asked for.                                *)
Kept == \A c \in Conn : Known(c) => cli'[c] # "new" /\ ask'[c] = ask[c]

(* What a step may do for KnownInv to go on.                               *)
KnownStep ==
  /\ Kept
  /\ \A c \in Conn : cli'[c] = "new" \/ Known(c) \/ ask'[c].conv # NoConv
  /\ \A e \in Request : Waits(queue', e) => Waits(queue, e) \/ cli'[e.conn] # "new"
  /\ \A e \in Request : Waits(pending', e) => \/ Waits(pending, e) \/ Waits(purge, e)
                                              \/ Waits(queue, e) /\ e.what = "prefill"
  /\ \A e \in Request : Waits(purge', e) => Waits(purge, e) \/ Waits(pending, e)
  /\ pf' \in {pf, NoConn} \/ (pf' \in Conn /\ Known(pf'))
  /\ \A s \in Slot : /\ bound'[s] \in {bound[s], NoConn} \/ (bound'[s] \in Conn /\ Known(bound'[s]))
                     /\ gen'[s] \in {gen[s], NoConn} \/ (gen'[s] \in Conn /\ Known(gen'[s]))

(* A step that does no more keeps KnownInv.                                *)
LEMMA KnownGoesOn == ASSUME StateType, KnownInv, KnownStep PROVE KnownInv'
<1>1. \A e \in Request : e.conn \in Conn BY RequestIs
<1>2. /\ pf \in Conn \cup {NoConn}
      /\ \A s \in Slot : bound[s] \in Conn \cup {NoConn} /\ gen[s] \in Conn \cup {NoConn}
  BY DEF StateType, BindType, DecodeType, PrefillType
<1>3. \A c \in Conn : cli'[c] # "new" => ask'[c].conv # NoConv
  BY Zenon DEF KnownStep, KnownInv, Kept, Known, conv
<1>4. \A e \in Request : Waits(queue', e) => cli'[e.conn] # "new"
  BY <1>1, Zenon DEF KnownStep, KnownInv, Kept, Known
<1>5. \A e \in Request : Waits(pending', e) \/ Waits(purge', e) => cli'[e.conn] # "new" /\ e.what = "prefill"
  BY <1>1, Zenon DEF KnownStep, KnownInv, Kept, Known
<1>6. pf' # NoConn => cli'[pf'] # "new"
  BY <1>2 DEF KnownStep, KnownInv, Kept, Known
<1>7. \A s \in Slot : /\ bound'[s] # NoConn => cli'[bound'[s]] # "new"
                      /\ gen'[s] # NoConn => cli'[gen'[s]] # "new"
  <2> SUFFICES ASSUME NEW s \in Slot
               PROVE  /\ bound'[s] # NoConn => cli'[bound'[s]] # "new"
                      /\ gen'[s] # NoConn => cli'[gen'[s]] # "new"
    OBVIOUS
  <2> QED BY <1>2 DEF KnownStep, KnownInv, Kept, Known
<1> QED BY <1>3, <1>4, <1>5, <1>6, <1>7, Zenon DEF KnownInv, Known, conv

(* How a step may move the clients on: none to the beginning, and of those *)
(* that have asked nothing, none.                                          *)
Moves == \A c \in Conn : cli'[c] = cli[c] \/ (Known(c) /\ cli'[c] # "new")

(* An answer moves its client alone.                                       *)
LEMMA AnswerMoves ==
  ASSUME ClientType, NEW c \in Conn, NEW to, to # "new", Answer(c, to)
  PROVE  /\ \A d \in Conn : cli'[d] = cli[d] \/ (d = c /\ cli'[d] = to)
         /\ Known(c) => Moves
<1>1. cli' = [cli EXCEPT ![c] = IF Dead(c) THEN @ ELSE to]
  BY Zenon DEF Answer, Answered
<1>2. \A d \in Conn : cli'[d] = cli[d] \/ (d = c /\ cli'[d] = to)
  BY <1>1, Zenon DEF ClientType
<1> QED BY <1>2, Zenon DEF Moves

(* The end of generates moves the clients that are told of it.             *)
LEMMA FinishMoves ==
  ASSUME StateType, KnownInv, NEW S \in SUBSET Slot, NEW T \in SUBSET Slot, FinishGen(S, T)
  PROVE  Moves /\ \A d \in Conn : cli'[d] = cli[d] \/ cli'[d] = "ended"
<1>1. cli' = [c \in Conn |-> IF c \in Told(S \cup T) /\ ~Dead(c) THEN "ended" ELSE cli[c]]
  BY Zenon DEF FinishGen, Tell
<1>2. \A d \in Conn : cli'[d] = cli[d] \/ (d \in Told(S \cup T) /\ cli'[d] = "ended")
  BY <1>1, Zenon
<1>3. \A d \in Conn : d \in Told(S \cup T) => Known(d)
  <2> SUFFICES ASSUME NEW d \in Conn, d \in Told(S \cup T) PROVE Known(d)
    OBVIOUS
  <2>1. PICK s \in Slot : d = gen[s] BY Zenon DEF Told
  <2> QED BY <2>1, NoneAssumption, Zenon DEF KnownInv
<1> QED BY <1>2, <1>3, Zenon DEF Moves

(* Nothing waits that did not.                                             *)
LEMMA KnownStill ==
  ASSUME Moves, UNCHANGED <<ask, queues, listener, pf>>,
         \A s \in Slot : bound'[s] \in {bound[s], NoConn} /\ gen'[s] \in {gen[s], NoConn}
  PROVE  KnownStep
<1>1. Kept /\ \A c \in Conn : cli'[c] = "new" \/ Known(c)
  BY Zenon DEF Moves, Kept, Known
<1> QED BY <1>1, Zenon DEF KnownStep, queues, listener

(* The queue and the client after a request is sent.                       *)
LEMMA SubmitMoves ==
  ASSUME ClientType, NEW c \in Conn, NEW w \in {"prefill", "generate"},
         NEW to \in {"prefilling", "generating"}, Submit(c, w, to)
  PROVE  /\ \A d \in Conn : cli'[d] = cli[d] \/ (d = c /\ cli'[d] \in {to, "ended"})
         /\ \A e \in Request : Waits(queue', e) => Waits(queue, e) \/ e = Req(c, w)
         /\ \A e \in Request : Once(queue, e) /\ (e = Req(c, w) => ~Waits(queue, e)) => Once(queue', e)
<1>1. queue' = queue \/ queue' = Append(queue, Req(c, w)) BY Zenon DEF Submit
<1>2. Answer(c, to) \/ Answer(c, "ended") BY Zenon DEF Submit
<1>3. \A d \in Conn : cli'[d] = cli[d] \/ (d = c /\ cli'[d] \in {to, "ended"})
  <2>1. to # "new" /\ "ended" # "new" OBVIOUS
  <2> QED BY <1>2, <2>1, AnswerMoves, Zenon
<1>4. Req(c, w) \in Request /\ queue \in Seq(Request) BY ReqType DEF ClientType
<1>5. ASSUME NEW e \in Request
      PROVE  /\ Waits(queue', e) => Waits(queue, e) \/ e = Req(c, w)
             /\ Once(queue, e) /\ (e = Req(c, w) => ~Waits(queue, e)) => Once(queue', e)
  <2>1. CASE queue' = queue BY <2>1
  <2>2. CASE queue' = Append(queue, Req(c, w)) BY <1>4, <2>2, WaitsAppend
  <2> QED BY <1>1, <2>1, <2>2
<1> QED BY <1>3, <1>5

(* A client that asks is known from then on.                               *)
LEMMA SendKnown ==
  ASSUME StateType, KnownInv, NEW c \in Conn, SendPrefill(c) \/ SendGenerate(c)
  PROVE  KnownStep
<1>1. ClientType BY DEF StateType
<1>2. UNCHANGED <<pending, purge, pf, bound, gen>>
  BY Zenon DEF SendPrefill, SendGenerate, listener, binding, decode, prefill
<1>3. CASE SendPrefill(c)
  <2>1. cli[c] = "new" /\ Submit(c, "prefill", "prefilling") BY <1>3, Zenon DEF SendPrefill
  <2>2. PICK a \in Asks[c] : ask' = [ask EXCEPT ![c] = a] BY <1>3, Zenon DEF SendPrefill
  <2>3. a.conv # NoConv BY AskType, NoneAssumption
  <2>4. /\ \A d \in Conn : cli'[d] = cli[d] \/ (d = c /\ cli'[d] \in {"prefilling", "ended"})
        /\ \A e \in Request : Waits(queue', e) => Waits(queue, e) \/ e = Fill(c)
    BY <1>1, <2>1, SubmitMoves DEF Fill
  <2>5. cli'[c] # "new"
    <3>1. cli'[c] \in {"prefilling", "ended"}
      <4>1. Answer(c, "prefilling") \/ Answer(c, "ended") BY <2>1, Zenon DEF Submit
      <4>2. ~Dead(c) BY <2>1 DEF Dead
      <4> QED BY <1>1, <4>1, <4>2, Zenon DEF Answer, Answered, ClientType
    <3> QED BY <3>1
  <2>6. \A d \in Conn : ask'[d] = IF d = c THEN a ELSE ask[d]
    BY <1>1, <2>2, Zenon DEF ClientType
  <2>7. Fill(c).conn = c BY ReqType DEF Fill
  <2>8. Kept /\ \A d \in Conn : cli'[d] = "new" \/ Known(d) \/ ask'[d].conv # NoConv
    <3> SUFFICES ASSUME NEW d \in Conn
                 PROVE  /\ Known(d) => cli'[d] # "new" /\ ask'[d] = ask[d]
                        /\ cli'[d] = "new" \/ Known(d) \/ ask'[d].conv # NoConv
      BY Zenon DEF Kept
    <3>1. CASE d = c BY <2>1, <2>3, <2>6, <3>1, Zenon DEF Known
    <3>2. CASE d # c BY <2>4, <2>6, <3>2, Zenon DEF Known
    <3> QED BY <3>1, <3>2
  <2> QED BY <1>2, <2>4, <2>5, <2>7, <2>8, Zenon DEF KnownStep
<1>4. CASE SendGenerate(c)
  <2>1. cli[c] \in {"ready", "failed"} /\ Submit(c, "generate", "generating") /\ UNCHANGED ask
    BY <1>4, Zenon DEF SendGenerate
  <2>2. Known(c) BY <2>1 DEF Known
  <2>4. /\ \A d \in Conn : cli'[d] = cli[d] \/ (d = c /\ cli'[d] \in {"generating", "ended"})
        /\ \A e \in Request : Waits(queue', e) => Waits(queue, e) \/ e = Run(c)
    BY <1>1, <2>1, SubmitMoves DEF Run
  <2>5. cli'[c] # "new" /\ Moves
    <3>1. "generating" # "new" /\ "ended" # "new" OBVIOUS
    <3> QED BY <2>2, <2>4, <3>1, Zenon DEF Moves, Known
  <2>7. Run(c).conn = c BY ReqType DEF Run
  <2>8. Kept /\ \A d \in Conn : cli'[d] = "new" \/ Known(d)
    BY <2>1, <2>5, Zenon DEF Kept, Moves, Known
  <2> QED BY <1>2, <2>4, <2>5, <2>7, <2>8, Zenon DEF KnownStep
<1> QED BY <1>3, <1>4

(* The listeners and a daemon that has left.                               *)
LEMMA ListenKnown ==
  ASSUME StateType, KnownInv, NEW c \in Conn, Cancel(c) \/ Close(c) \/ Hangup(c)
  PROVE  KnownStep
<1>1. ClientType BY DEF StateType
<1>2. CASE Cancel(c)
  <2>1. UNCHANGED <<cli, ask, queues, listener, pf, bound, gen>>
    BY <1>2, Zenon DEF Cancel, clients, binding, prefill
  <2> QED BY <2>1, KnownStill, Zenon DEF Moves
<1>3. CASE Hangup(c)
  <2>1. /\ cli[c] \in {"prefilling", "generating"} /\ Answer(c, "ended")
        /\ UNCHANGED <<ask, queues, listener, pf, bound, gen>>
    BY <1>3, Zenon DEF Hangup, binding, decode, prefill
  <2>2. Known(c) /\ "ended" # "new" BY <2>1 DEF Known
  <2>3. Moves BY <1>1, <2>1, <2>2, AnswerMoves, Zenon
  <2> QED BY <2>1, <2>3, KnownStill, Zenon
<1>4. CASE Close(c)
  <2>1. /\ cli[c] # "new" /\ cli' = [cli EXCEPT ![c] = "closed"]
        /\ bound' = [s \in Slot |-> IF bound[s] = c /\ byConn[c] = s THEN NoConn ELSE bound[s]]
        /\ UNCHANGED <<ask, queues, pf, gen>>
        /\ UNCHANGED listener \/ purge' = Keeps(c)
    <3>1. cli[c] \notin {"new", "closed"} BY <1>4, Zenon DEF Close
    <3> QED BY <1>4, <3>1, Zenon DEF Close, decode, prefill
  <2>2. Moves
    <3>1. "closed" # "new" OBVIOUS
    <3> QED BY <1>1, <2>1, <3>1, Zenon DEF Moves, Known, ClientType
  <2>3. Kept /\ \A d \in Conn : cli'[d] = "new" \/ Known(d)
    BY <2>1, <2>2, Zenon DEF Moves, Kept, Known
  <2>4. \A e \in Request : Waits(purge', e) => Waits(purge, e) \/ Waits(pending, e)
    BY <1>1, <2>1, KeepsWaits, Zenon DEF listener
  <2>5. \A s \in Slot : bound'[s] \in {bound[s], NoConn} BY <2>1, Zenon
  <2> QED BY <2>1, <2>3, <2>4, <2>5, Zenon DEF KnownStep, queues
<1> QED BY <1>2, <1>3, <1>4

(* What a purge writes back was known.                                     *)
LEMMA PurgeKnown == ASSUME KnownInv, Purge PROVE KnownStep
<1>1. pending' = purge /\ purge' = << >> /\ UNCHANGED <<cli, ask, queue, pf, bound, gen>>
  BY Zenon DEF Purge, clients, binding, decode, prefill
<1>2. \A e : ~Waits(<< >>, e) BY DEF Waits
<1> QED BY <1>1, <1>2, Zenon DEF KnownStep, Kept, Known

(* What serving a request comes to.                                        *)
Refused(c) == Answer(c, "ended")
              /\ UNCHANGED <<ask, binding, flags, decode, device, prefill, gcancel, history, troubles>>
Attached(c, s) == ~dirty[s] /\ gen[s] = NoConn /\ Attach(c, s)
Filling(c, s) == s \in PickSlot(c) /\ Bind(c, s)
Restored(c) ==
  /\ \A s \in Slot : ~used[s] /\ gen[s] = NoConn
  /\ rows' = [rows EXCEPT ![0] = RowsOf(conv(c), "whole")]
  /\ convo' = [convo EXCEPT ![0] = conv(c)]
  /\ used' = [used EXCEPT ![0] = TRUE] /\ dirty' = [dirty EXCEPT ![0] = FALSE]
  /\ patched' = patched \ {0}
  /\ Answer(c, "ready")
  /\ UNCHANGED <<ask, byConn, named, bound, newest, stop, decode, boundary, prefill, gcancel, raced, strays>>

(* A generate is refused, or starts on a slot that is free and clean.      *)
LEMMA GenerateIs ==
  ASSUME StateType, NEW c \in Conn, ServeGenerate(c)
  PROVE  Refused(c) \/ \E s \in Slot : Attached(c, s)
<1>1. CASE Refuse(c) BY <1>1, Zenon DEF Refuse, Refused
<1>2. CASE ~(NoPrefill(c) \/ Taken(c) \/ Unfit(c)) /\ Attach(c, byConn[c])
  <2>1. byConn[c] \in Slot BY <1>2, Zenon DEF NoPrefill, StateType, BindType
  <2> QED BY <1>2, <2>1, Zenon DEF Attached, Taken, Unfit
<1> QED BY <1>1, <1>2, Zenon DEF ServeGenerate

(* A request is refused, decoded for, filled in or restored.               *)
LEMMA ServeIs ==
  ASSUME StateType, NEW e \in Request, NEW waiting, Serve(e, waiting)
  PROVE  \/ Refused(e.conn)
         \/ e.what = "generate" /\ \E s \in Slot : Attached(e.conn, s)
         \/ e.what = "prefill" /\ \E s \in Slot : Filling(e.conn, s)
         \/ e.what = "prefill" /\ Restored(e.conn)
<1>1. e.conn \in Conn /\ e.what \in {"prefill", "generate"} BY RequestIs
<1>2. CASE e.what = "generate"
  <2>1. ServeGenerate(e.conn) BY <1>2 DEF Serve
  <2> QED BY <1>1, <1>2, <2>1, GenerateIs
<1>3. CASE e.what = "prefill"
  <2>1. ServePrefill(e.conn) \/ ServeSnapshot(e.conn, waiting) BY <1>3 DEF Serve
  <2>2. CASE Refuse(e.conn) BY <2>2, Zenon DEF Refuse, Refused
  <2>3. CASE ~Refuse(e.conn) /\ ServePrefill(e.conn)
    BY <1>3, <2>3, PickSlotIn, Zenon DEF ServePrefill, Filling
  <2>4. CASE ~Refuse(e.conn) /\ ServeSnapshot(e.conn, waiting)
    BY <1>3, <2>4, Zenon DEF ServeSnapshot, Restored
  <2> QED BY <2>1, <2>2, <2>3, <2>4
<1> QED BY <1>1, <1>2, <1>3

(* Serving moves only the client served.                                   *)
ServedMoves(c) ==
  /\ Moves /\ UNCHANGED ask
  /\ pf' \in {pf, c}
  /\ \A s \in Slot : bound'[s] \in {bound[s], c} /\ gen'[s] \in {gen[s], c}

(* A refusal moves its client alone.                                       *)
LEMMA RefusedMoves ==
  ASSUME StateType, NEW c \in Conn, Known(c), Refused(c) PROVE ServedMoves(c)
<1>1. "ended" # "new" /\ ClientType BY DEF StateType
<1>2. Moves BY <1>1, AnswerMoves, Zenon DEF Refused
<1> QED BY <1>2, Zenon DEF Refused, ServedMoves, prefill, binding, decode

(* A generate that starts moves none.                                      *)
LEMMA AttachedMoves ==
  ASSUME StateType, NEW c \in Conn, NEW s \in Slot, Attached(c, s) PROVE ServedMoves(c)
<1>1. gen' = [gen EXCEPT ![s] = c] /\ UNCHANGED <<clients, binding, prefill>>
  BY Zenon DEF Attached, Attach
<1>2. \A t \in Slot : gen'[t] \in {gen[t], c} BY <1>1, Zenon DEF StateType, DecodeType
<1> QED BY <1>1, <1>2, Zenon DEF ServedMoves, Moves, clients, binding, prefill

(* A prefill that starts moves none.                                       *)
LEMMA FillingMoves ==
  ASSUME StateType, NEW c \in Conn, NEW s \in Slot, Filling(c, s) PROVE ServedMoves(c)
<1>1. bound' = [bound EXCEPT ![s] = c] /\ pf' = c /\ UNCHANGED <<clients, decode>>
  BY Zenon DEF Filling, Bind
<1>2. \A t \in Slot : bound'[t] \in {bound[t], c} BY <1>1, Zenon DEF StateType, BindType
<1> QED BY <1>1, <1>2, Zenon DEF ServedMoves, Moves, clients, decode

(* A snapshot moves its client alone.                                      *)
LEMMA RestoredMoves ==
  ASSUME StateType, NEW c \in Conn, Known(c), Restored(c) PROVE ServedMoves(c)
<1>1. "ready" # "new" /\ ClientType BY DEF StateType
<1>2. Moves BY <1>1, AnswerMoves, Zenon DEF Restored
<1> QED BY <1>2, Zenon DEF Restored, ServedMoves, prefill, decode

(* Whatever is served moves its client alone.                              *)
LEMMA ServeMoves ==
  ASSUME StateType, NEW e \in Request, Known(e.conn), NEW waiting, Serve(e, waiting)
  PROVE  ServedMoves(e.conn)
BY RequestIs, ServeIs, RefusedMoves, AttachedMoves, FillingMoves, RestoredMoves, Zenon

(* A request taken from a queue.                                           *)
LEMMA TakenKnown ==
  ASSUME StateType, KnownInv, NEW c \in Conn, Known(c), ServedMoves(c), UNCHANGED listener,
         \A e \in Request : /\ Waits(queue', e) => Waits(queue, e)
                            /\ Waits(pending', e) => Waits(pending, e)
  PROVE  KnownStep
<1>1. Kept /\ \A d \in Conn : cli'[d] = "new" \/ Known(d)
  BY Zenon DEF ServedMoves, Moves, Kept, Known
<1>2. /\ pf' \in {pf, NoConn} \/ (pf' \in Conn /\ Known(pf'))
      /\ \A s \in Slot : /\ bound'[s] \in {bound[s], NoConn} \/ (bound'[s] \in Conn /\ Known(bound'[s]))
                         /\ gen'[s] \in {gen[s], NoConn} \/ (gen'[s] \in Conn /\ Known(gen'[s]))
  BY Zenon DEF ServedMoves
<1> QED BY <1>1, <1>2, Zenon DEF KnownStep, listener

(* A request from pending or from Q is of a connection that is known.      *)
LEMMA HandleKnown ==
  ASSUME StateType, KnownInv, HandlePending \/ HandleQueue PROVE KnownStep
<1>1. queue \in Seq(Request) /\ pending \in Seq(Request) BY DEF StateType, ClientType
<1>2. CASE HandlePending
  <2>1. /\ pending # << >> /\ pending' = Tail(pending) /\ UNCHANGED <<queue, listener>>
        /\ Serve(Head(pending), Tail(pending))
    BY <1>2, Zenon DEF HandlePending, queues
  <2>2. Head(pending) \in Request /\ Head(pending).conn \in Conn
    BY <1>1, <2>1, QueueTypes, RequestIs
  <2>3. Known(Head(pending).conn) BY <1>1, <2>1, <2>2, WaitsTail, Zenon DEF KnownInv
  <2>4. ServedMoves(Head(pending).conn) BY <2>1, <2>2, <2>3, ServeMoves
  <2> QED BY <1>1, <2>1, <2>2, <2>3, <2>4, WaitsTail, TakenKnown, Zenon
<1>3. CASE HandleQueue
  <2>1. /\ queue # << >> /\ queue' = Tail(queue) /\ UNCHANGED <<pending, listener>>
        /\ Serve(Head(queue), pending)
    BY <1>3, Zenon DEF HandleQueue
  <2>2. Head(queue) \in Request /\ Head(queue).conn \in Conn
    BY <1>1, <2>1, QueueTypes, RequestIs
  <2>3. Known(Head(queue).conn) BY <1>1, <2>1, <2>2, WaitsTail, Zenon DEF KnownInv
  <2>4. ServedMoves(Head(queue).conn) BY <2>1, <2>2, <2>3, ServeMoves
  <2> QED BY <1>1, <2>1, <2>2, <2>3, <2>4, WaitsTail, TakenKnown, Zenon
<1> QED BY <1>2, <1>3

(* Between the chunks of a prefill requests run or are parked.             *)
LEMMA DrainKnown == ASSUME StateType, KnownInv, Drain PROVE KnownStep
<1>1. queue \in Seq(Request) /\ pending \in Seq(Request) /\ ClientType BY DEF StateType, ClientType
<1>2. queue # << >> /\ queue' = Tail(queue) /\ UNCHANGED listener BY Zenon DEF Drain
<1>3. PICK e \in Request : e = Head(queue) BY <1>1, <1>2, QueueTypes
<1>4. Waits(queue, e) /\ \A x \in Request : Waits(queue', x) => Waits(queue, x)
  BY <1>1, <1>2, <1>3, WaitsTail
<1>5. Known(e.conn) /\ e.conn \in Conn BY <1>4, RequestIs, Zenon DEF KnownInv
<1>6. CASE ServeGenerate(e.conn) /\ UNCHANGED pending
  <2>1. ServedMoves(e.conn) BY <1>5, <1>6, GenerateIs, RefusedMoves, AttachedMoves, Zenon
  <2> QED BY <1>2, <1>4, <1>5, <1>6, <2>1, TakenKnown, Zenon
<1>7. CASE e.what = "prefill" /\ Park(e.conn) /\ UNCHANGED <<bound, gen, pf>>
  <2>1. \/ pending' = Append(pending, Fill(e.conn)) /\ UNCHANGED clients
        \/ UNCHANGED <<pending, ask>> /\ Answer(e.conn, "ended")
    BY <1>7, Zenon DEF Park, Fill
  <2>2. Fill(e.conn) = e BY <1>7, RequestIs, Zenon DEF Fill
  <2>3. Moves /\ UNCHANGED ask
    <3>1. "ended" # "new" OBVIOUS
    <3> QED BY <1>1, <1>5, <2>1, <3>1, AnswerMoves, Zenon DEF Moves, clients
  <2>4. \A x \in Request : Waits(pending', x) => Waits(pending, x) \/ x = e
    BY <1>1, <2>1, <2>2, WaitsAppend, Zenon
  <2>5. Kept /\ \A d \in Conn : cli'[d] = "new" \/ Known(d)
    BY <2>3, Zenon DEF Moves, Kept, Known
  <2> QED BY <1>2, <1>4, <1>7, <2>4, <2>5, Zenon DEF KnownStep, listener
<1> QED
  <2>1. e.what \in {"prefill", "generate"} BY RequestIs
  <2>2. IF e.what = "generate" THEN ServeGenerate(e.conn) /\ UNCHANGED pending
        ELSE Park(e.conn) /\ UNCHANGED <<binding, flags, decode, device, prefill, gcancel,
                                         fence, history, troubles>>
    BY <1>3, Zenon DEF Drain
  <2> QED BY <1>6, <1>7, <2>1, <2>2, Zenon DEF binding, decode, prefill

(* A cycle, a chunk and the end of a prefill queue nothing.                *)
LEMMA StepFaultIs ==
  ASSUME NEW ends \in BOOLEAN, NEW goon, StepFault(ends, goon)
  PROVE  /\ \E T \in SUBSET Slot : FinishGen(Stopped, T)
         /\ Stopped \in SUBSET Slot
         /\ rows' = [s \in Slot |-> IF s \in Cycling THEN Disturbed(rows[s]) ELSE rows[s]]
         /\ UNCHANGED <<ask, byConn, convo, named, bound, used, flags, boundary>> /\ dpc' = goon
<1>1. Stopped \in SUBSET Slot /\ Cycling \in SUBSET Slot BY Zenon DEF Stopped, Cycling, Generating
<1>2. FinishGen(Stopped, IF ends THEN Cycling ELSE {}) BY Zenon DEF StepFault
<1>3. \E T \in SUBSET Slot : FinishGen(Stopped, T) BY <1>1, <1>2
<1> QED BY <1>1, <1>3, Zenon DEF StepFault

(* Cycles keep KnownInv.                                                   *)
LEMMA CycleKnown == ASSUME StateType, KnownInv, MainStep \/ DrainStep PROVE KnownStep
<1>1. UNCHANGED <<queues, listener, pf>> BY Zenon DEF MainStep, DrainStep
<1>2. ASSUME NEW S \in SUBSET Slot, NEW T \in SUBSET Slot, FinishGen(S, T), UNCHANGED <<ask, bound>>
      PROVE  KnownStep
  <2>1. Moves BY <1>2, FinishMoves
  <2>2. gen' = [s \in Slot |-> IF s \in S \cup T THEN NoConn ELSE gen[s]] BY <1>2, FinishGenType
  <2>3. \A s \in Slot : gen'[s] \in {gen[s], NoConn} BY <2>2, Zenon
  <2> QED BY <1>1, <1>2, <2>1, <2>3, KnownStill, Zenon
<1>3. ASSUME NEW goon, BatchStep(goon) PROVE KnownStep
  <2>1. PICK own, bad, stopped, done, node \in SUBSET Slot :
          BatchTerms(goon, own, bad, stopped, done, node)
    BY <1>3, BatchStepIs, Zenon
  <2>2. FinishGen(Stopped, done \ Stopped) /\ UNCHANGED <<ask, bound>> BY <2>1, Zenon DEF BatchTerms
  <2>3. Stopped \in SUBSET Slot /\ done \ Stopped \in SUBSET Slot BY DEF Stopped, Generating
  <2> QED BY <1>2, <2>2, <2>3
<1>4. ASSUME NEW ends \in BOOLEAN, NEW goon, StepFault(ends, goon) PROVE KnownStep
  <2>1. UNCHANGED <<ask, bound>> BY <1>4, Zenon DEF StepFault
  <2> QED BY <1>2, <1>4, <2>1, StepFaultIs, Zenon
<1>5. CASE UNCHANGED <<clients, bound, gen>>
  BY <1>1, <1>5, KnownStill, Zenon DEF clients, Moves
<1> QED
  <2>1. TRUE \in BOOLEAN /\ FALSE \in BOOLEAN OBVIOUS
  <2>2. CASE MainStep BY <1>3, <1>4, <2>1, <2>2, Zenon DEF MainStep
  <2>3. CASE DrainStep BY <1>3, <1>4, <1>5, <2>1, <2>3, Zenon DEF DrainStep, binding, decode
  <2> QED BY <2>2, <2>3

(* So do the chunks and the end of a prefill.                              *)
LEMMA FillKnown ==
  ASSUME StateType, KnownInv, Chunk \/ Finish \/ Abort \/ PrefillFault PROVE KnownStep
<1>1. CASE Chunk
  <2>1. UNCHANGED <<cli, ask, queues, listener, pf, bound, gen>>
    BY <1>1, Zenon DEF Chunk, clients, binding, decode
  <2> QED BY <2>1, KnownStill, Zenon DEF Moves
<1>2. CASE EndPrefill("ready") \/ EndPrefill("failed")
  <2>1. PICK to \in {"ready", "failed"} : EndPrefill(to) BY <1>2
  <2>2. /\ Answer(pf, to) /\ pf' = NoConn /\ UNCHANGED <<ask, queues, listener, bound, gen>>
    BY <2>1, Zenon DEF EndPrefill, decode
  <2>3. Moves
    <3>1. CASE pf = NoConn
      <4>1. cli' = [cli EXCEPT ![pf] = IF Dead(pf) THEN @ ELSE to]
        BY <2>2, Zenon DEF Answer, Answered
      <4>2. \A d \in Conn : cli'[d] = cli[d]
        BY <3>1, <4>1, NoneAssumption, Zenon DEF StateType, ClientType
      <4> QED BY <4>2, Zenon DEF Moves
    <3>2. CASE pf # NoConn
      <4>1. pf \in Conn /\ Known(pf) /\ ClientType /\ to # "new"
        BY <3>2 DEF KnownInv, StateType, PrefillType
      <4> QED BY <2>2, <4>1, AnswerMoves
    <3> QED BY <3>1, <3>2
  <2>4. Kept /\ \A d \in Conn : cli'[d] = "new" \/ Known(d)
    BY <2>2, <2>3, Zenon DEF Moves, Kept, Known
  <2> QED BY <2>2, <2>4, Zenon DEF KnownStep, queues, listener
<1> QED BY <1>1, <1>2, Zenon DEF Finish, Abort, PrefillFault

(* Every step keeps KnownInv.                                              *)
LEMMA NextKnown == ASSUME StateType, KnownInv, [Next]_vars PROVE KnownStep
<1>1. CASE UNCHANGED vars
  <2>1. UNCHANGED <<cli, ask, queues, listener, pf, bound, gen>>
    BY <1>1, Zenon DEF vars, queues, listener
  <2> QED BY <2>1, KnownStill, Zenon DEF Moves
<1>2. CASE Purge BY <1>2, PurgeKnown
<1>3. CASE \E c \in Conn : SendPrefill(c) \/ SendGenerate(c) \/ Cancel(c) \/ Close(c) \/ Hangup(c)
  BY <1>3, SendKnown, ListenKnown, Zenon
<1>4. CASE Daemon
  BY <1>4, HandleKnown, CycleKnown, FillKnown, DrainKnown, Zenon DEF Daemon
<1> QED BY <1>1, <1>2, <1>3, <1>4, Zenon DEF Next

(* Rows that may be decoded from.                                          *)
Fed(s) == rows[s].how # "parked" /\ (rows[s].how = "part" => s \in patched)

(* What the slot under the barrier is being filled with, and for whom.     *)
PrefillInv ==
  pf # NoConn => /\ used[pslot] /\ bound[pslot] \in {pf, NoConn} /\ rows[pslot].of = conv(pf)
                 /\ dpc = "tail" /\ rows[pslot].how = "part" => pslot \in patched

(* A slot never used is bound to nobody and holds nothing; one in use      *)
(* holds the rows of its conversation, and of the connection it is bound   *)
(* to, but for a prefill under way and one that failed.  Its boundary is   *)
(* its rows' own, but for those and for rows fed on while dirty.  Only     *)
(* such slots hold rows fed in part.                                       *)
UnusedInv(s) == ~used[s] => bound[s] = NoConn /\ convo[s] = NoConv /\ boundary[s] = NoConv
HeldInv(s) == convo[s] # NoConv => rows[s].of = convo[s]
BoundInv(s) == bound[s] # NoConn /\ s # pslot /\ ~dirty[s] => rows[s].of = conv(bound[s])
ChainInv(s) == \/ boundary[s] \in {NoConv, rows[s].of} \/ s \in patched \/ dirty[s]
               \/ s = pslot /\ dpc # "tail"
FedInv(s) == /\ rows[s].how = "parked" => rows[s].of = NoConv
             /\ rows[s].how = "part" => dirty[s] \/ s = pslot \/ s \in patched

SlotInv(s) == UnusedInv(s) /\ HeldInv(s) /\ BoundInv(s) /\ ChainInv(s) /\ FedInv(s)

RowsInv == \A s \in Slot : SlotInv(s)

(* What the slots hold, as values.                                         *)
LEMMA SlotTypes ==
  ASSUME StateType
  PROVE  /\ \A s \in Slot : /\ bound[s] \in Conn \cup {NoConn} /\ gen[s] \in Conn \cup {NoConn}
                            /\ dirty[s] \in BOOLEAN /\ used[s] \in BOOLEAN
                            /\ rows[s] \in Rows
         /\ pf \in Conn \cup {NoConn} /\ pslot \in Slot \cup {NoSlot}
         /\ pf = NoConn <=> pslot = NoSlot
         /\ pf # NoConn => pf \in Conn /\ pslot \in Slot
         /\ NoSlot \notin Slot
<1>1. NoSlot \notin Slot BY DEF Slot, NoSlot
<1> QED BY <1>1, NoneAssumption, Zenon DEF StateType, BindType, DecodeType, DeviceType, PrefillType, Barrier

(* A step that leaves a slot alone, or unbinds it.                         *)
LEMMA SlotStill ==
  ASSUME StateType, KnownInv, Kept, NEW s \in Slot,
         SlotInv(s),
         convo'[s] = convo[s], used'[s] = used[s], dirty'[s] = dirty[s], rows'[s] = rows[s],
         boundary'[s] = boundary[s], bound'[s] \in {bound[s], NoConn},
         s \in patched' <=> s \in patched,
         s = pslot' <=> s = pslot, s = pslot' /\ dpc' = "tail" => dpc = "tail"
  PROVE  SlotInv(s)'
<1>1. bound[s] # NoConn => bound[s] \in Conn /\ ask'[bound[s]] = ask[bound[s]]
  BY SlotTypes, Zenon DEF KnownInv, Kept
<1>2. bound'[s] # NoConn => bound'[s] = bound[s] OBVIOUS
<1>3. BoundInv(s)' BY <1>1, <1>2, Zenon DEF SlotInv, BoundInv, conv
<1>4. UnusedInv(s)' BY <1>2, Zenon DEF SlotInv, UnusedInv
<1>5. HeldInv(s)' BY Zenon DEF SlotInv, HeldInv
<1>6. ChainInv(s)' BY Zenon DEF SlotInv, ChainInv
<1>7. FedInv(s)' BY Zenon DEF SlotInv, FedInv
<1> QED BY <1>3, <1>4, <1>5, <1>6, <1>7 DEF SlotInv

(* A step that leaves every slot alone, or unbinds it.                     *)
LEMMA SlotsStill ==
  ASSUME StateType, KnownInv, Kept, PrefillInv, RowsInv,
         UNCHANGED <<convo, used, dirty, rows, boundary, patched, dpc, pf, pslot>>,
         \A s \in Slot : bound'[s] \in {bound[s], NoConn}
  PROVE  PrefillInv' /\ RowsInv'
<1>1. RowsInv'
  <2> SUFFICES ASSUME NEW s \in Slot
               PROVE  SlotInv(s)'
    BY Zenon DEF RowsInv
  <2>1. SlotInv(s) BY Zenon DEF RowsInv
  <2>2. s = pslot' <=> s = pslot OBVIOUS
  <2> QED BY <2>1, <2>2, SlotStill
<1>2. PrefillInv'
  <2>1. pf # NoConn => pf \in Conn /\ pslot \in Slot /\ ask'[pf] = ask[pf]
    BY SlotTypes, Zenon DEF KnownInv, Kept
  <2>2. pf # NoConn => bound'[pslot] \in {pf, NoConn}
    BY <2>1, Zenon DEF PrefillInv
  <2> QED BY <2>1, <2>2, Zenon DEF PrefillInv, conv
<1> QED BY <1>1, <1>2

(* The steps of the clients and the listeners, a request that is refused,  *)
(* parked or decoded for.                                                  *)
LEMMA ClientSlots ==
  ASSUME StateType, KnownInv, PrefillInv, RowsInv, Kept,
         Purge \/ UNCHANGED vars
         \/ \E c \in Conn : SendPrefill(c) \/ SendGenerate(c) \/ Cancel(c) \/ Close(c) \/ Hangup(c)
  PROVE  PrefillInv' /\ RowsInv'
<1>1. UNCHANGED <<convo, used, dirty, rows, boundary, patched, dpc, pf, pslot>>
  BY Zenon DEF Purge, vars, SendPrefill, SendGenerate, Cancel, Close, Hangup, binding, flags, device,
               prefill, history
<1>2. \A s \in Slot : bound'[s] \in {bound[s], NoConn}
  <2>1. CASE UNCHANGED bound BY <2>1
  <2>2. ASSUME NEW c, Close(c) PROVE \A s \in Slot : bound'[s] \in {bound[s], NoConn}
    <3>1. bound' = [s \in Slot |-> IF bound[s] = c /\ byConn[c] = s THEN NoConn ELSE bound[s]]
      BY <2>2, Zenon DEF Close
    <3> QED BY <3>1, Zenon
  <2>3. UNCHANGED bound \/ \E c : Close(c)
    BY Zenon DEF Purge, vars, SendPrefill, SendGenerate, Cancel, Hangup, binding
  <2> QED BY <2>1, <2>2, <2>3
<1> QED BY <1>1, <1>2, SlotsStill

(* A refusal leaves the slots alone.                                       *)
LEMMA RefusedSlots ==
  ASSUME StateType, KnownInv, PrefillInv, RowsInv, Kept, NEW c, Refused(c)
  PROVE  PrefillInv' /\ RowsInv'
<1>1. UNCHANGED <<convo, used, dirty, rows, boundary, patched, dpc, pf, pslot, bound>>
  BY Zenon DEF Refused, binding, flags, device, prefill, history
<1> QED BY <1>1, SlotsStill, Zenon

(* A generate that starts leaves them alone.                               *)
LEMMA AttachedSlots ==
  ASSUME StateType, KnownInv, PrefillInv, RowsInv, Kept, NEW c, NEW s, Attached(c, s)
  PROVE  PrefillInv' /\ RowsInv'
<1>1. UNCHANGED <<convo, used, dirty, rows, boundary, patched, dpc, pf, pslot, bound>>
  BY Zenon DEF Attached, Attach, binding, flags, device, prefill
<1> QED BY <1>1, SlotsStill, Zenon

(* A request that is parked leaves them alone.                             *)
LEMMA ParkSlots ==
  ASSUME StateType, KnownInv, PrefillInv, RowsInv, Kept,
         UNCHANGED <<binding, flags, device, prefill, history>>
  PROVE  PrefillInv' /\ RowsInv'
<1>1. UNCHANGED <<convo, used, dirty, rows, boundary, patched, dpc, pf, pslot, bound>>
  BY Zenon DEF binding, flags, device, prefill, history
<1> QED BY <1>1, SlotsStill, Zenon

(* A slot that a prefill has been given.                                   *)
LEMMA FillingSlots ==
  ASSUME StateType, KnownInv, PrefillInv, RowsInv, Kept, dpc = "main",
         NEW c \in Conn, Known(c), NEW s \in Slot, Filling(c, s)
  PROVE  PrefillInv' /\ RowsInv'
<1>1. /\ convo' = [convo EXCEPT ![s] = conv(c)]
      /\ bound' = [bound EXCEPT ![s] = c]
      /\ used' = [used EXCEPT ![s] = TRUE] /\ dirty' = [dirty EXCEPT ![s] = FALSE]
      /\ pf' = c /\ pslot' = s /\ UNCHANGED ask
      /\ patched' = IF ask[c].mode = "FOLLOW_UP" /\ dirty[s] THEN patched \cup {s}
                    ELSE IF ask[c].mode = "FRESH" THEN patched \ {s} ELSE patched
  BY Zenon DEF Filling, Bind, clients
<1>2. \/ /\ rows' = [rows EXCEPT ![s] = RowsOf(conv(c), "part")] /\ UNCHANGED boundary
         /\ FenceBeforePrefill("chunk")
      \/ /\ rows' = [rows EXCEPT ![s] = RowsOf(conv(c), "whole")]
         /\ boundary' = [boundary EXCEPT ![s] = conv(c)]
      \/ /\ ask[c].mode = "FOLLOW_UP" /\ UNCHANGED <<rows, boundary>>
  BY Zenon DEF Filling, Bind, device
<1>3. pf = NoConn /\ pslot = NoSlot /\ s # NoSlot
  BY SlotTypes, Zenon DEF StateType, PrefillType, Barrier
<1>4. /\ convo \in [Slot -> Conv \cup {NoConv}] /\ bound \in [Slot -> Conn \cup {NoConn}]
      /\ used \in [Slot -> BOOLEAN] /\ dirty \in [Slot -> BOOLEAN]
      /\ rows \in [Slot -> Rows] /\ boundary \in [Slot -> Conv \cup {NoConv}]
  BY DEF StateType, BindType, DeviceType
<1>5. conv(c) # NoConv /\ conv(c) \in Conv \cup {NoConv} BY ConvType DEF KnownInv, StateType
<1>6. /\ convo'[s] = conv(c) /\ bound'[s] = c /\ used'[s] /\ ~dirty'[s]
      /\ \A t \in Slot \ {s} : /\ convo'[t] = convo[t] /\ bound'[t] = bound[t] /\ used'[t] = used[t]
                               /\ dirty'[t] = dirty[t] /\ rows'[t] = rows[t] /\ boundary'[t] = boundary[t]
                               /\ (t \in patched' <=> t \in patched)
  BY <1>1, <1>2, <1>4, Zenon
<1>7. /\ rows'[s].of = conv(c)
      /\ \/ rows'[s].how = "part" /\ dpc' # "tail"
         \/ rows'[s].how = "whole" /\ boundary'[s] = conv(c)
         \/ /\ rows'[s] = rows[s] /\ boundary'[s] = boundary[s]
            /\ s \in patched' <=> dirty[s] \/ s \in patched
  <2>1. /\ RowsOf(conv(c), "part").of = conv(c) /\ RowsOf(conv(c), "part").how = "part"
        /\ RowsOf(conv(c), "whole").of = conv(c) /\ RowsOf(conv(c), "whole").how = "whole"
    BY <1>5, RowsType
  <2>2. CASE rows' = [rows EXCEPT ![s] = RowsOf(conv(c), "part")] /\ FenceBeforePrefill("chunk")
    <3>1. rows'[s] = RowsOf(conv(c), "part") BY <1>4, <2>2, Zenon
    <3>2. dpc' # "tail" BY <2>2 DEF FenceBeforePrefill, Fence, NoFence
    <3> QED BY <2>1, <3>1, <3>2, Zenon
  <2>3. CASE /\ rows' = [rows EXCEPT ![s] = RowsOf(conv(c), "whole")]
             /\ boundary' = [boundary EXCEPT ![s] = conv(c)]
    <3>1. rows'[s] = RowsOf(conv(c), "whole") /\ boundary'[s] = conv(c) BY <1>4, <2>3, Zenon
    <3> QED BY <2>1, <3>1, Zenon
  <2>4. CASE ask[c].mode = "FOLLOW_UP" /\ UNCHANGED <<rows, boundary>>
    <3>1. s \in Mine(c) BY <2>4, Zenon DEF Filling, PickSlot, First
    <3>2. convo[s] = conv(c) BY <3>1, Zenon DEF Mine
    <3>3. rows[s].of = conv(c) BY <1>5, <3>2, Zenon DEF RowsInv, SlotInv, HeldInv
    <3>4. s \in patched' <=> dirty[s] \/ s \in patched BY <1>1, <2>4
    <3> QED BY <2>4, <3>3, <3>4, Zenon
  <2> QED BY <1>2, <2>2, <2>3, <2>4
<1>8. SlotInv(s) BY DEF RowsInv
<1>9. PrefillInv'
  <2>1. used'[pslot'] /\ bound'[pslot'] = pf' /\ rows'[pslot'].of = ask'[pf'].conv
    BY <1>1, <1>6, <1>7, Zenon DEF conv
  <2>2. dpc' = "tail" /\ rows'[s].how = "part" => s \in patched'
    <3>1. CASE rows'[s].how = "whole" BY <3>1
    <3>2. CASE rows'[s] = rows[s] /\ (s \in patched' <=> dirty[s] \/ s \in patched)
      BY <1>3, <1>8, <3>2, Zenon DEF SlotInv, FedInv
    <3> QED BY <1>7, <3>1, <3>2, Zenon
  <2> QED BY <1>1, <2>1, <2>2, Zenon DEF PrefillInv, conv
<1>10. RowsInv'
  <2> SUFFICES ASSUME NEW t \in Slot PROVE SlotInv(t)'
    BY Zenon DEF RowsInv
  <2>1. SlotInv(t) BY Zenon DEF RowsInv
  <2>2. CASE t = s
    <3>1. UnusedInv(s)' BY <1>6, Zenon DEF UnusedInv
    <3>2. HeldInv(s)' BY <1>6, <1>7, Zenon DEF HeldInv
    <3>3. BoundInv(s)' BY <1>1, Zenon DEF BoundInv
    <3>4. ChainInv(s)'
      <4>1. CASE rows'[s].how = "part" /\ dpc' # "tail" BY <1>1, <4>1, Zenon DEF ChainInv
      <4>2. CASE boundary'[s] = conv(c) BY <1>7, <4>2, Zenon DEF ChainInv
      <4>3. CASE /\ rows'[s] = rows[s] /\ boundary'[s] = boundary[s]
                 /\ s \in patched' <=> dirty[s] \/ s \in patched
        BY <1>3, <1>8, <4>3, Zenon DEF SlotInv, ChainInv
      <4> QED BY <1>7, <4>1, <4>2, <4>3, Zenon
    <3>5. FedInv(s)'
      <4>1. rows'[s].how # "parked"
        <5>1. CASE rows'[s].how \in {"part", "whole"} BY <5>1
        <5>2. CASE rows'[s] = rows[s] BY <1>5, <1>7, <1>8, <5>2, Zenon DEF SlotInv, FedInv
        <5> QED BY <1>7, <5>1, <5>2
      <4> QED BY <1>1, <4>1, Zenon DEF FedInv
    <3> QED BY <2>2, <3>1, <3>2, <3>3, <3>4, <3>5, Zenon DEF SlotInv
  <2>3. CASE t # s
    <3>1. /\ convo'[t] = convo[t] /\ used'[t] = used[t] /\ dirty'[t] = dirty[t] /\ rows'[t] = rows[t]
          /\ boundary'[t] = boundary[t] /\ bound'[t] \in {bound[t], NoConn}
          /\ (t \in patched' <=> t \in patched)
          /\ (t = pslot' <=> t = pslot) /\ t # pslot'
      BY <1>1, <1>3, <1>6, <2>3, SlotTypes, Zenon
    <3> QED BY <2>1, <3>1, SlotStill
  <2> QED BY <2>2, <2>3
<1> QED BY <1>9, <1>10

(* A snapshot's slot.                                                      *)
LEMMA RestoredSlots ==
  ASSUME StateType, KnownInv, PrefillInv, RowsInv, Kept, dpc = "main",
         NEW c \in Conn, Known(c), Restored(c)
  PROVE  PrefillInv' /\ RowsInv'
<1>1. /\ \A s \in Slot : ~used[s]
      /\ rows' = [rows EXCEPT ![0] = RowsOf(conv(c), "whole")]
      /\ convo' = [convo EXCEPT ![0] = conv(c)]
      /\ used' = [used EXCEPT ![0] = TRUE] /\ dirty' = [dirty EXCEPT ![0] = FALSE]
      /\ patched' = patched \ {0}
      /\ UNCHANGED <<bound, boundary, pf, pslot>>
  BY Zenon DEF Restored, prefill
<1>2. pf = NoConn /\ 0 \in Slot BY DEF StateType, PrefillType, Barrier, Slot
<1>3. PrefillInv' BY <1>1, <1>2, Zenon DEF PrefillInv
<1>4. \A s \in Slot : /\ bound[s] = NoConn /\ convo[s] = NoConv /\ boundary[s] = NoConv
                      /\ FedInv(s)
  BY <1>1, Zenon DEF RowsInv, SlotInv, UnusedInv
<1>5. conv(c) \in Conv \cup {NoConv} BY ConvType DEF StateType
<1>6. RowsInv'
  <2> SUFFICES ASSUME NEW t \in Slot PROVE SlotInv(t)'
    BY Zenon DEF RowsInv
  <2>1. bound'[t] = NoConn /\ boundary'[t] = NoConv BY <1>1, <1>4, Zenon
  <2>2. UnusedInv(t)' /\ HeldInv(t)' /\ FedInv(t)'
    <3>1. /\ convo \in [Slot -> Conv \cup {NoConv}] /\ used \in [Slot -> BOOLEAN] /\ rows \in [Slot -> Rows]
          /\ dirty \in [Slot -> BOOLEAN]
      BY DEF StateType, BindType, DeviceType
    <3>2. CASE t = 0
      <4>1. convo'[t] = conv(c) /\ used'[t] /\ rows'[t] = RowsOf(conv(c), "whole")
        BY <1>1, <3>1, <3>2, Zenon
      <4>2. rows'[t].of = conv(c) /\ rows'[t].how = "whole" BY <1>5, <4>1, RowsType
      <4>3. FedInv(t)' BY <4>2 DEF FedInv
      <4> QED BY <4>1, <4>2, <4>3, Zenon DEF UnusedInv, HeldInv
    <3>3. CASE t # 0
      <4>1. /\ convo'[t] = NoConv /\ rows'[t] = rows[t] /\ dirty'[t] = dirty[t]
            /\ (t \in patched' <=> t \in patched)
        BY <1>1, <1>4, <3>1, <3>3, Zenon
      <4>2. FedInv(t)' BY <1>1, <1>4, <4>1, Zenon DEF FedInv
      <4> QED BY <2>1, <4>1, <4>2, Zenon DEF UnusedInv, HeldInv
    <3> QED BY <3>2, <3>3
  <2> QED BY <2>1, <2>2, Zenon DEF SlotInv, BoundInv, ChainInv
<1> QED BY <1>3, <1>6

(* A cycle may disturb a slot, leave it dirty and move its boundary to the *)
(* end of its own rows.                                                    *)
Cycled(s) ==
  /\ rows'[s] \in {rows[s], Disturbed(rows[s])}
  /\ dirty[s] => dirty'[s]
  /\ boundary'[s] = boundary[s] \/ (boundary'[s] = rows[s].of /\ bound[s] # NoConn)

(* Cycles keep what is known of the rows.                                  *)
LEMMA CycledSlots ==
  ASSUME StateType, KnownInv, PrefillInv, RowsInv,
         \A s \in Slot : Cycled(s),
         UNCHANGED <<ask, convo, bound, used, patched, pf, pslot>>, dpc' # "tail"
  PROVE  PrefillInv' /\ RowsInv'
<1>1. \A s \in Slot : rows'[s].of = rows[s].of /\ rows'[s].how \in {rows[s].how, "disturbed"}
  <2> SUFFICES ASSUME NEW s \in Slot
               PROVE  rows'[s].of = rows[s].of /\ rows'[s].how \in {rows[s].how, "disturbed"}
    OBVIOUS
  <2>1. rows[s] \in Rows BY SlotTypes
  <2>2. rows'[s] \in {rows[s], Disturbed(rows[s])} BY DEF Cycled
  <2>3. /\ Disturbed(rows[s]).of = rows[s].of
        /\ Disturbed(rows[s]).how = "disturbed"
    BY <2>1, DisturbedType
  <2> QED BY <2>2, <2>3
<1>2. PrefillInv'
  <2>1. pf # NoConn => pslot \in Slot BY SlotTypes
  <2>2. pf # NoConn => rows'[pslot].of = rows[pslot].of
    BY <1>1, <2>1
  <2> QED BY <2>2, Zenon DEF PrefillInv, conv
<1>3. RowsInv'
  <2> SUFFICES ASSUME NEW s \in Slot
               PROVE  SlotInv(s)'
    BY Zenon DEF RowsInv
  <2>1. UnusedInv(s) /\ HeldInv(s) /\ BoundInv(s) /\ ChainInv(s) /\ FedInv(s) /\ Cycled(s)
    BY Zenon DEF RowsInv, SlotInv
  <2>2. UnusedInv(s)' BY <2>1, Zenon DEF UnusedInv, Cycled
  <2>3. HeldInv(s)' BY <1>1, <2>1, Zenon DEF HeldInv
  <2>4. BoundInv(s)' BY <1>1, <2>1, Zenon DEF BoundInv, Cycled, conv
  <2>5. ChainInv(s)'
    <3>1. rows'[s].of = rows[s].of BY <1>1
    <3>2. CASE boundary'[s] = rows[s].of BY <3>1, <3>2, Zenon DEF ChainInv
    <3>3. CASE boundary'[s] = boundary[s]
      BY <2>1, <3>1, <3>3, Zenon DEF ChainInv, Cycled
    <3> QED BY <2>1, <3>2, <3>3, Zenon DEF Cycled
  <2>6. FedInv(s)'
    <3>1. /\ rows'[s].how = "parked" => rows[s].how = "parked" /\ rows'[s].of = rows[s].of
          /\ rows'[s].how = "part" => rows[s].how = "part"
      BY <1>1
    <3> QED BY <2>1, <3>1, Zenon DEF FedInv, Cycled
  <2> QED BY <2>2, <2>3, <2>4, <2>5, <2>6 DEF SlotInv
<1> QED BY <1>2, <1>3

(* That is what a batch step and one that raises do.                       *)
LEMMA BatchCycled ==
  ASSUME StateType, NEW goon, NEW own \in SUBSET Slot, NEW bad \in SUBSET Slot,
         NEW stopped \in SUBSET Slot, NEW done \in SUBSET Slot, NEW node \in SUBSET Slot,
         BatchTerms(goon, own, bad, stopped, done, node)
  PROVE  \A s \in Slot : Cycled(s)
<1> SUFFICES ASSUME NEW s \in Slot PROVE Cycled(s)
  OBVIOUS
<1>1. /\ rows' = [t \in Slot |-> IF t \in Cycling /\ gen[t] \in strays
                                 THEN Disturbed(rows[t]) ELSE rows[t]]
      /\ dirty' = [t \in Slot |-> dirty[t] \/ t \in bad]
      /\ boundary' = [t \in Slot |-> IF t \in node THEN rows[t].of ELSE boundary[t]]
  BY Zenon DEF BatchTerms
<1>2. s \in node => bound[s] # NoConn
  <2>1. s \in node => s \in Cycling /\ bound[s] = gen[s] BY DEF BatchTerms
  <2> QED BY <2>1, Zenon DEF Cycling, Generating
<1> QED BY <1>1, <1>2, Zenon DEF Cycled

(* A step that raises disturbs what it was decoding from.                  *)
LEMMA FaultCycled ==
  ASSUME NEW ends \in BOOLEAN, NEW goon, StepFault(ends, goon) PROVE \A s \in Slot : Cycled(s)
<1>1. /\ rows' = [s \in Slot |-> IF s \in Cycling THEN Disturbed(rows[s]) ELSE rows[s]]
      /\ UNCHANGED <<flags, boundary>>
  BY StepFaultIs, Zenon
<1> QED BY <1>1, Zenon DEF Cycled, flags

(* The steps of the loop that run cycles keep what is known of the rows.   *)
LEMMA CycleSlots ==
  ASSUME StateType, KnownInv, PrefillInv, RowsInv, Kept, MainStep \/ DrainStep
  PROVE  PrefillInv' /\ RowsInv'
<1>1. UNCHANGED <<pf, pslot, patched>> BY Zenon DEF MainStep, DrainStep, history
<1>2. CASE dpc' = "chunk" /\ UNCHANGED <<clients, binding, flags, device>>
  <2>1. \A s \in Slot : Cycled(s) BY <1>2, Zenon DEF Cycled, flags, device
  <2>2. UNCHANGED <<ask, convo, bound, used>> BY <1>2, Zenon DEF clients, binding
  <2> QED BY <1>1, <1>2, <2>1, <2>2, CycledSlots
<1>3. ASSUME NEW goon, BatchStep(goon), goon \in {"main", "chunk"}
      PROVE  PrefillInv' /\ RowsInv'
  <2>1. PICK own, bad, stopped, done, node \in SUBSET Slot :
          BatchTerms(goon, own, bad, stopped, done, node)
    BY <1>3, BatchStepIs, Zenon
  <2>2. UNCHANGED <<ask, convo, bound, used>> /\ dpc' \in {goon, "exit"}
    BY <2>1, Zenon DEF BatchTerms
  <2>3. \A s \in Slot : Cycled(s) BY <2>1, BatchCycled
  <2>4. dpc' # "tail" BY <1>3, <2>2
  <2> QED BY <1>1, <2>2, <2>3, <2>4, CycledSlots
<1>4. ASSUME NEW ends \in BOOLEAN, NEW goon, StepFault(ends, goon), goon \in {"main", "chunk"}
      PROVE  PrefillInv' /\ RowsInv'
  <2>1. \A s \in Slot : Cycled(s) BY <1>4, FaultCycled
  <2>2. UNCHANGED <<ask, convo, bound, used>> /\ dpc' = goon BY <1>4, StepFaultIs
  <2>3. dpc' # "tail" BY <1>4, <2>2
  <2> QED BY <1>1, <2>1, <2>2, <2>3, CycledSlots
<1>5. CASE MainStep
  <2>1. BatchStep("main") \/ StepFault(TRUE, "main") BY <1>5, Zenon DEF MainStep
  <2>2. "main" \in {"main", "chunk"} /\ TRUE \in BOOLEAN OBVIOUS
  <2> QED BY <1>3, <1>4, <2>1, <2>2
<1>6. CASE DrainStep
  <2>1. \/ BatchStep("chunk") \/ StepFault(FALSE, "chunk")
        \/ dpc' = "chunk" /\ UNCHANGED <<clients, binding, flags, device>>
    BY <1>6, Zenon DEF DrainStep
  <2>2. "chunk" \in {"main", "chunk"} /\ FALSE \in BOOLEAN OBVIOUS
  <2> QED BY <1>2, <1>3, <1>4, <2>1, <2>2
<1> QED BY <1>5, <1>6

(* The chunks of a prefill.                                                *)
LEMMA ChunkSlots ==
  ASSUME StateType, KnownInv, PrefillInv, RowsInv, Kept, Chunk
  PROVE  PrefillInv' /\ RowsInv'
<1>1. /\ dpc = "chunk" /\ dpc' = "drain"
      /\ boundary' \in {boundary, [boundary EXCEPT ![pslot] = conv(pf)]}
      /\ UNCHANGED <<ask, convo, bound, used, dirty, rows, patched, pf, pslot>>
  BY Zenon DEF Chunk, clients, binding, flags, history
<1>2. pf # NoConn BY <1>1 DEF StateType, PrefillType, Barrier
<1>3. used[pslot] /\ bound[pslot] \in {pf, NoConn} /\ rows[pslot].of = conv(pf)
  BY <1>1, <1>2 DEF PrefillInv
<1>4. PrefillInv' BY <1>1, <1>2, <1>3, Zenon DEF PrefillInv, conv
<1>5. RowsInv'
  <2> SUFFICES ASSUME NEW s \in Slot
               PROVE  SlotInv(s)'
    BY Zenon DEF RowsInv
  <2>1. SlotInv(s) BY Zenon DEF RowsInv
  <2>2. boundary'[s] = boundary[s] \/ (s = pslot /\ boundary'[s] = conv(pf))
    BY <1>1, Zenon DEF StateType, DeviceType
  <2>3. CASE boundary'[s] = boundary[s]
    <3>1. /\ convo'[s] = convo[s] /\ used'[s] = used[s] /\ dirty'[s] = dirty[s] /\ rows'[s] = rows[s]
          /\ bound'[s] \in {bound[s], NoConn} /\ (s = pslot' <=> s = pslot) /\ dpc' # "tail"
          /\ (s \in patched' <=> s \in patched)
      BY <1>1, Zenon
    <3> QED BY <2>1, <2>3, <3>1, SlotStill
  <2>4. CASE s = pslot /\ boundary'[s] = conv(pf)
    <3>2. UnusedInv(s)' BY <1>1, <1>3, <2>4, Zenon DEF UnusedInv
    <3>3. HeldInv(s)' BY <1>1, <2>1, Zenon DEF SlotInv, HeldInv
    <3>4. BoundInv(s)' BY <1>1, <2>4, Zenon DEF BoundInv
    <3>5. ChainInv(s)' BY <1>1, <1>3, <2>4, Zenon DEF ChainInv
    <3>6. FedInv(s)' BY <1>1, <2>1, Zenon DEF SlotInv, FedInv
    <3> QED BY <3>2, <3>3, <3>4, <3>5, <3>6 DEF SlotInv
  <2> QED BY <2>2, <2>3, <2>4
<1> QED BY <1>4, <1>5

(* The end of a prefill: the slot it leaves.                               *)
Ended(s) ==
  /\ convo'[s] \in {convo[s], NoConv} /\ rows'[s].of = rows[s].of
  /\ \/ dirty'[s] /\ rows'[s].how = "part" /\ boundary'[s] = boundary[s]
     \/ /\ dirty'[s] = dirty[s] /\ rows'[s].how # "parked"
        /\ rows'[s].how = "part" => s \in patched
        /\ \/ boundary'[s] \in {NoConv, conv(pf)}
           \/ boundary'[s] = boundary[s] /\ dpc = "tail"

(* The slot left behind is whole, dirty or fed on while dirty.             *)
LEMMA EndedSlots ==
  ASSUME StateType, KnownInv, PrefillInv, RowsInv, Kept, pf # NoConn, pf' = NoConn, pslot' = NoSlot,
         UNCHANGED <<ask, bound, used, patched>>, Ended(pslot),
         \A s \in Slot \ {pslot} : /\ convo'[s] = convo[s] /\ dirty'[s] = dirty[s]
                                   /\ rows'[s] = rows[s] /\ boundary'[s] = boundary[s]
  PROVE  PrefillInv' /\ RowsInv'
<1>1. PrefillInv' BY Zenon DEF PrefillInv
<1>2. /\ used[pslot] /\ bound[pslot] \in {pf, NoConn} /\ rows[pslot].of = conv(pf) /\ pslot \in Slot
      /\ conv(pf) # NoConv
  BY SlotTypes, Zenon DEF PrefillInv, KnownInv
<1>3. RowsInv'
  <2> SUFFICES ASSUME NEW s \in Slot
               PROVE  SlotInv(s)'
    BY Zenon DEF RowsInv
  <2>1. SlotInv(s) BY Zenon DEF RowsInv
  <2>2. CASE s # pslot
    <3>1. /\ convo'[s] = convo[s] /\ used'[s] = used[s] /\ dirty'[s] = dirty[s] /\ rows'[s] = rows[s]
          /\ boundary'[s] = boundary[s] /\ bound'[s] \in {bound[s], NoConn}
          /\ (s = pslot' <=> s = pslot) /\ s # pslot'
      BY <2>2, SlotTypes, Zenon
    <3> QED BY <2>1, <3>1, SlotStill
  <2>3. CASE s = pslot
    <3>1. Ended(s) /\ HeldInv(s) /\ ChainInv(s) /\ FedInv(s) BY <2>1, <2>3 DEF SlotInv
    <3>2. rows'[s].of = rows[s].of /\ rows[s].of = conv(pf) BY <1>2, <2>3, <3>1, Zenon DEF Ended
    <3>3. UnusedInv(s)' BY <1>2, <2>3, Zenon DEF UnusedInv
    <3>4. HeldInv(s)' BY <3>1, Zenon DEF HeldInv, Ended
    <3>5. BoundInv(s)' BY <1>2, <2>3, <3>1, Zenon DEF BoundInv, Ended, conv
    <3>6. ChainInv(s)'
      <4>1. CASE dirty'[s] BY <4>1 DEF ChainInv
      <4>2. CASE boundary'[s] \in {NoConv, conv(pf)} BY <3>2, <4>2, Zenon DEF ChainInv
      <4>3. CASE boundary'[s] = boundary[s] /\ dpc = "tail" /\ dirty'[s] = dirty[s]
        BY <3>1, <3>2, <4>3, Zenon DEF ChainInv
      <4> QED BY <3>1, <4>1, <4>2, <4>3, Zenon DEF Ended
    <3>7. FedInv(s)'
      <4>1. rows'[s].how = "part" => dirty'[s] \/ s \in patched' BY <3>1, Zenon DEF Ended
      <4>2. rows'[s].how # "parked" BY <3>1 DEF Ended
      <4> QED BY <4>1, <4>2, Zenon DEF FedInv
    <3> QED BY <3>3, <3>4, <3>5, <3>6, <3>7 DEF SlotInv
  <2> QED BY <2>2, <2>3
<1> QED BY <1>1, <1>3

(* What ended a prefill, in these terms.                                   *)
LEMMA FinishIs ==
  ASSUME StateType, KnownInv, PrefillInv, RowsInv, Finish
  PROVE  /\ pf # NoConn /\ pf' = NoConn /\ pslot' = NoSlot /\ UNCHANGED <<ask, bound, used, gen, patched>>
         /\ Ended(pslot)
         /\ \A s \in Slot \ {pslot} : /\ convo'[s] = convo[s] /\ dirty'[s] = dirty[s]
                                      /\ rows'[s] = rows[s] /\ boundary'[s] = boundary[s]
<1>1. /\ pf' = NoConn /\ pslot' = NoSlot /\ UNCHANGED <<ask, bound, used, gen, patched, convo, dirty>>
      /\ rows' = [rows EXCEPT ![pslot] = RowsOf(@.of, Filled(@))]
      /\ dpc \in {"chunk", "tail"}
      /\ \/ dpc = "chunk" /\ FreshBoundary
         \/ dpc = "tail" /\ UNCHANGED boundary
  BY DEF Finish, EndPrefill, decode, history
<1>2. pf # NoConn BY <1>1 DEF StateType, PrefillType, Barrier
<1>3. pslot \in Slot /\ rows[pslot] \in Rows BY <1>2, SlotTypes
<1>4. /\ rows[pslot].how # "parked"
      /\ dpc = "tail" /\ rows[pslot].how = "part" => pslot \in patched
  <2>1. rows[pslot].of = conv(pf) /\ conv(pf) # NoConv
    BY <1>2, SlotTypes, Zenon DEF PrefillInv, KnownInv
  <2>2. FedInv(pslot) BY <1>3 DEF RowsInv, SlotInv
  <2> QED BY <1>2, <2>1, <2>2, Zenon DEF PrefillInv, FedInv
<1>5. rows'[pslot] = RowsOf(rows[pslot].of, Filled(rows[pslot]))
      /\ \A s \in Slot \ {pslot} : rows'[s] = rows[s]
  BY <1>1, <1>3, Zenon DEF StateType, DeviceType
<1>6. Filled(rows[pslot]) # "parked" /\ (Filled(rows[pslot]) = "part" => pslot \in patched)
  BY <1>1, <1>4 DEF Filled
<1>7. rows'[pslot].of = rows[pslot].of /\ rows'[pslot].how = Filled(rows[pslot])
  BY <1>5 DEF RowsOf
<1>8. /\ dpc = "chunk" => boundary'[pslot] \in {NoConv, conv(pf)}
      /\ \A s \in Slot \ {pslot} : boundary'[s] = boundary[s]
      /\ dpc = "tail" => boundary'[pslot] = boundary[pslot]
  <2>1. CASE dpc = "tail" /\ UNCHANGED boundary BY <2>1
  <2>2. CASE dpc = "chunk" /\ FreshBoundary
    <3>1. PICK v \in {NoConv, conv(pf)} : boundary' = [boundary EXCEPT ![pslot] = v]
      BY <2>2, Zenon DEF FreshBoundary
    <3>2. boundary'[pslot] = v /\ \A s \in Slot \ {pslot} : boundary'[s] = boundary[s]
      BY <1>3, <3>1, Zenon DEF StateType, DeviceType
    <3> QED BY <2>2, <3>1, <3>2
  <2> QED BY <1>1, <2>1, <2>2
<1>9. Ended(pslot)
  <2>1. convo'[pslot] = convo[pslot] /\ dirty'[pslot] = dirty[pslot] BY <1>1
  <2>2. CASE dpc = "chunk" BY <1>6, <1>7, <1>8, <2>1, <2>2, Zenon DEF Ended
  <2>3. CASE dpc = "tail" BY <1>6, <1>7, <1>8, <2>1, <2>3, Zenon DEF Ended
  <2> QED BY <1>1, <2>2, <2>3
<1> QED BY <1>1, <1>2, <1>5, <1>8, <1>9

(* A prefill that is cancelled or raises leaves its slot dirty.            *)
LEMMA AbortIs ==
  ASSUME StateType, PrefillInv, Abort \/ PrefillFault
  PROVE  /\ pf # NoConn /\ pf' = NoConn /\ pslot' = NoSlot /\ UNCHANGED <<ask, bound, used, gen, patched>>
         /\ Ended(pslot) /\ boundary' = boundary
         /\ \A s \in Slot \ {pslot} : /\ convo'[s] = convo[s] /\ dirty'[s] = dirty[s]
                                      /\ rows'[s] = rows[s] /\ boundary'[s] = boundary[s]
<1>1. /\ pf' = NoConn /\ pslot' = NoSlot /\ UNCHANGED <<ask, bound, used, gen, patched, boundary>>
      /\ rows' = [rows EXCEPT ![pslot].how = "part"] /\ dirty' = [dirty EXCEPT ![pslot] = TRUE]
      /\ convo' = convo \/ convo' = [convo EXCEPT ![pslot] = NoConv]
      /\ Feeding
  BY Zenon DEF Abort, PrefillFault, EndPrefill, decode, history
<1>2. pf # NoConn BY <1>1 DEF Feeding, StateType, PrefillType, Barrier
<1>3. pslot \in Slot /\ rows[pslot] \in Rows BY <1>2, SlotTypes
<1>4. /\ convo \in [Slot -> Conv \cup {NoConv}] /\ dirty \in [Slot -> BOOLEAN]
      /\ rows \in [Slot -> Rows]
  BY DEF StateType, BindType, DeviceType
<1>5. /\ rows'[pslot] = [rows[pslot] EXCEPT !.how = "part"] /\ dirty'[pslot]
      /\ convo'[pslot] \in {convo[pslot], NoConv}
      /\ \A s \in Slot \ {pslot} : /\ convo'[s] = convo[s] /\ dirty'[s] = dirty[s] /\ rows'[s] = rows[s]
  BY <1>1, <1>3, <1>4, Zenon
<1>6. rows'[pslot].of = rows[pslot].of /\ rows'[pslot].how = "part"
  BY <1>3, <1>5 DEF Rows
<1> QED BY <1>1, <1>2, <1>5, <1>6, Zenon DEF Ended

(* The end of a prefill keeps what is known of the rows.                   *)
LEMMA EndSlots ==
  ASSUME StateType, KnownInv, PrefillInv, RowsInv, Kept, Finish \/ Abort \/ PrefillFault
  PROVE  PrefillInv' /\ RowsInv'
<1>1. CASE Finish BY <1>1, FinishIs, EndedSlots
<1>2. CASE Abort \/ PrefillFault BY <1>2, AbortIs, EndedSlots
<1> QED BY <1>1, <1>2

(* Every step.                                                             *)
LEMMA ServeSlots ==
  ASSUME StateType, KnownInv, PrefillInv, RowsInv, Kept, dpc = "main",
         NEW e \in Request, Known(e.conn), NEW waiting, Serve(e, waiting)
  PROVE  PrefillInv' /\ RowsInv'
BY RequestIs, ServeIs, RefusedSlots, AttachedSlots, FillingSlots, RestoredSlots, Zenon

(* Every step keeps what is known of the rows.                             *)
LEMMA NextSlots ==
  ASSUME StateType, KnownInv, PrefillInv, RowsInv, [Next]_vars PROVE PrefillInv' /\ RowsInv'
<1>1. Kept BY NextKnown DEF KnownStep
<1>2. queue \in Seq(Request) /\ pending \in Seq(Request) BY DEF StateType, ClientType
<1>3. CASE HandlePending \/ HandleQueue
  <2>1. dpc = "main" BY <1>3, Zenon DEF HandlePending, HandleQueue
  <2>2. \E e \in Request : \E waiting : Known(e.conn) /\ Serve(e, waiting)
    <3>1. CASE HandlePending
      <4>1. pending # << >> /\ Serve(Head(pending), Tail(pending)) BY <3>1, Zenon DEF HandlePending
      <4>2. Head(pending) \in Request BY <1>2, <4>1, QueueTypes
      <4>3. Known(Head(pending).conn) BY <1>2, <4>1, <4>2, WaitsTail, Zenon DEF KnownInv
      <4> QED BY <4>1, <4>2, <4>3
    <3>2. CASE HandleQueue
      <4>1. queue # << >> /\ Serve(Head(queue), pending) BY <3>2, Zenon DEF HandleQueue
      <4>2. Head(queue) \in Request BY <1>2, <4>1, QueueTypes
      <4>3. Known(Head(queue).conn) BY <1>2, <4>1, <4>2, WaitsTail, Zenon DEF KnownInv
      <4> QED BY <4>1, <4>2, <4>3
    <3> QED BY <1>3, <3>1, <3>2
  <2> QED BY <1>1, <2>1, <2>2, ServeSlots
<1>4. CASE Drain
  <2>1. queue # << >> BY <1>4, Zenon DEF Drain
  <2>2. Head(queue).conn \in Conn BY <1>2, <2>1, QueueTypes, RequestIs
  <2>3. ServeGenerate(Head(queue).conn) \/ UNCHANGED <<binding, flags, device, prefill, history>>
    BY <1>4, Zenon DEF Drain
  <2> QED BY <1>1, <2>2, <2>3, GenerateIs, RefusedSlots, AttachedSlots, ParkSlots, Zenon
<1>5. CASE MainStep \/ DrainStep BY <1>1, <1>5, CycleSlots
<1>6. CASE Chunk BY <1>1, <1>6, ChunkSlots
<1>7. CASE Finish \/ Abort \/ PrefillFault BY <1>1, <1>7, EndSlots
<1>8. CASE \/ Purge \/ UNCHANGED vars
           \/ \E c \in Conn : SendPrefill(c) \/ SendGenerate(c) \/ Cancel(c) \/ Close(c) \/ Hangup(c)
  BY <1>1, <1>8, ClientSlots
<1> QED BY <1>3, <1>4, <1>5, <1>6, <1>7, <1>8, Zenon DEF Next, Daemon

(* A connection's prefill is in one place at most, and nowhere by the time *)
(* its generate may run.                                                   *)
OnceFor(c) ==
  /\ Once(queue, Fill(c)) /\ Once(pending, Fill(c))
  /\ Waits(pending, Fill(c)) => ~Waits(queue, Fill(c))
  /\ pf = c => ~Waits(queue, Fill(c)) /\ ~Waits(pending, Fill(c))
  /\ Waits(queue, Run(c)) \/ cli[c] \in {"ready", "failed"} => ~Owed(c)

OnceInv == \A c \in Conn : OnceFor(c)

(* The two requests of a connection.                                       *)
LEMMA TheirRequests ==
  ASSUME NEW c \in Conn
  PROVE  /\ Fill(c) \in Request /\ Run(c) \in Request
         /\ \A d \in Conn : /\ Fill(c) # Run(d) /\ (Fill(c) = Fill(d) => c = d)
                            /\ (Run(c) = Run(d) => c = d)
         /\ \A e \in Request : /\ e.conn = c /\ e.what = "prefill" => e = Fill(c)
                               /\ e.conn = c /\ e.what = "generate" => e = Run(c)
<1>1. /\ Fill(c) \in Request /\ Fill(c).conn = c /\ Fill(c).what = "prefill"
      /\ Run(c) \in Request /\ Run(c).conn = c /\ Run(c).what = "generate"
  BY ReqType DEF Fill, Run
<1>2. ASSUME NEW d \in Conn
      PROVE  Fill(d).conn = d /\ Run(d).conn = d /\ Run(d).what = "generate"
  BY ReqType DEF Fill, Run
<1>3. \A d \in Conn : /\ Fill(c) # Run(d) /\ (Fill(c) = Fill(d) => c = d)
                      /\ (Run(c) = Run(d) => c = d)
  <2>1. "prefill" # "generate" OBVIOUS
  <2> QED BY <1>1, <1>2, <2>1, Zenon
<1>4. \A e \in Request : /\ e.conn = c /\ e.what = "prefill" => e = Fill(c)
                         /\ e.conn = c /\ e.what = "generate" => e = Run(c)
  BY RequestIs, Zenon DEF Fill, Run
<1> QED BY <1>1, <1>3, <1>4

(* Nothing comes in, and the client does not go on to its generate.        *)
OnceStill(c) ==
  /\ Once(queue, Fill(c)) => Once(queue', Fill(c))
  /\ Once(pending, Fill(c)) => Once(pending', Fill(c))
  /\ Waits(queue', Fill(c)) => Waits(queue, Fill(c))
  /\ Waits(queue', Run(c)) => Waits(queue, Run(c))
  /\ Waits(pending', Fill(c)) => Waits(pending, Fill(c))
  /\ pf' = c => pf = c
  /\ cli'[c] = cli[c] \/ cli'[c] \notin {"ready", "failed"}

(* Then a connection's requests are where they were, or gone.              *)
LEMMA OnceGoesOn == ASSUME NEW c, OnceFor(c), OnceStill(c) PROVE OnceFor(c)'
BY DEF OnceFor, OnceStill, Owed

(* Nor do they move when the queues and the barrier do not.                *)
LEMMA OnceSame ==
  ASSUME NEW c, OnceFor(c), UNCHANGED <<queue, pending, pf>>,
         cli'[c] = cli[c] \/ cli'[c] \notin {"ready", "failed"}
  PROVE  OnceFor(c)'
BY OnceGoesOn, Zenon DEF OnceStill

(* A prefill is the first thing a connection asks for.                     *)
LEMMA SendOnce ==
  ASSUME StateType, KnownInv, OnceInv, NEW c \in Conn, SendPrefill(c) \/ SendGenerate(c)
  PROVE  OnceInv'
<1>1. ClientType BY DEF StateType
<1>2. UNCHANGED <<pending, pf>> BY Zenon DEF SendPrefill, SendGenerate, prefill
<1>3. PICK w \in {"prefill", "generate"}, to \in {"prefilling", "generating"} :
        /\ Submit(c, w, to)
        /\ w = "prefill" => ~Known(c)
        /\ w = "generate" => cli[c] \in {"ready", "failed"}
  <2>1. CASE SendPrefill(c) BY <2>1 DEF SendPrefill, Known
  <2>2. CASE SendGenerate(c) BY <2>2 DEF SendGenerate
  <2> QED BY <2>1, <2>2
<1>4. /\ \A d \in Conn : cli'[d] = cli[d] \/ (d = c /\ cli'[d] \in {to, "ended"})
      /\ \A e \in Request : Waits(queue', e) => Waits(queue, e) \/ e = Req(c, w)
      /\ \A e \in Request : Once(queue, e) /\ (e = Req(c, w) => ~Waits(queue, e)) => Once(queue', e)
  BY <1>1, <1>3, SubmitMoves
<1>5. \A d \in Conn : cli'[d] = cli[d] \/ cli'[d] \notin {"ready", "failed"}
  BY <1>4
<1> SUFFICES ASSUME NEW d \in Conn PROVE OnceFor(d)'
  BY Zenon DEF OnceInv
<1>6. OnceFor(d) /\ Fill(d) \in Request /\ Run(d) \in Request
  BY TheirRequests DEF OnceInv
<1>7. CASE w = "prefill"
  <2>1. Req(c, w) = Fill(c) BY <1>7 DEF Fill
  <2>2. CASE d = c
    <3>1. ~Waits(queue, Fill(c)) /\ ~Waits(queue, Run(c)) /\ ~Waits(pending, Fill(c)) /\ pf # c
      <4>1. Fill(c).conn = c /\ Run(c).conn = c BY ReqType DEF Fill, Run
      <4>2. c # NoConn BY NoneAssumption
      <4> QED BY <1>3, <1>6, <1>7, <2>2, <4>1, <4>2, Zenon DEF KnownInv
    <3>2. ~Waits(queue', Run(c))
      <4>1. Run(c) # Fill(c) BY TheirRequests
      <4> QED BY <1>4, <1>6, <2>1, <2>2, <3>1, <4>1, Zenon
    <3>3. Once(queue', Fill(c)) BY <1>4, <1>6, <2>2, <3>1, Zenon DEF OnceFor
    <3>4. cli'[c] \notin {"ready", "failed"}
      <4>1. cli[c] = "new" BY <1>3, <1>7 DEF Known
      <4> QED BY <1>5, <4>1
    <3> QED BY <1>2, <1>6, <2>2, <3>1, <3>2, <3>3, <3>4, Zenon DEF OnceFor
  <2>3. CASE d # c
    <3>1. Fill(d) # Fill(c) /\ Run(d) # Fill(c) BY <2>3, TheirRequests
    <3>2. OnceStill(d) BY <1>2, <1>4, <1>5, <1>6, <2>1, <3>1, Zenon DEF OnceStill
    <3> QED BY <1>6, <3>2, OnceGoesOn
  <2> QED BY <2>2, <2>3
<1>8. CASE w = "generate"
  <2>1. Req(c, w) = Run(c) BY <1>8 DEF Run
  <2>2. Fill(d) # Run(c) BY TheirRequests
  <2>3. CASE d = c
    <3>1. ~Owed(c) BY <1>3, <1>6, <1>8, <2>3, Zenon DEF OnceFor
    <3>2. Waits(queue', Fill(c)) => Waits(queue, Fill(c)) BY <1>4, <1>6, <2>1, <2>2, <2>3, Zenon
    <3>3. ~Owed(c)' BY <1>2, <3>1, <3>2, Zenon DEF Owed
    <3>4. Once(queue', Fill(c)) BY <1>4, <1>6, <2>1, <2>2, <2>3, Zenon DEF OnceFor
    <3> QED BY <1>2, <1>6, <2>3, <3>2, <3>3, <3>4, Zenon DEF OnceFor
  <2>4. CASE d # c
    <3>1. Run(d) # Run(c) BY <2>4, TheirRequests
    <3>2. OnceStill(d) BY <1>2, <1>4, <1>5, <1>6, <2>1, <2>2, <3>1, Zenon DEF OnceStill
    <3> QED BY <1>6, <3>2, OnceGoesOn
  <2> QED BY <2>3, <2>4
<1> QED BY <1>7, <1>8

(* The listeners, a daemon that has left, a chunk and a cycle.             *)
LEMMA ListenOnce ==
  ASSUME StateType, OnceInv, NEW c \in Conn, Cancel(c) \/ Close(c) \/ Hangup(c)
  PROVE  OnceInv'
<1>1. UNCHANGED <<queue, pending, pf>> BY Zenon DEF Cancel, Close, Hangup, queues, prefill
<1>2. \A d \in Conn : cli'[d] = cli[d] \/ cli'[d] \notin {"ready", "failed"}
  <2>1. CASE Cancel(c) BY <2>1, Zenon DEF Cancel, clients
  <2>2. CASE Close(c)
    <3>1. cli' = [cli EXCEPT ![c] = "closed"] BY <2>2, Zenon DEF Close
    <3> QED BY <3>1 DEF StateType, ClientType
  <2>3. CASE Hangup(c)
    <3>1. Answer(c, "ended") /\ ClientType /\ "ended" # "new" BY <2>3 DEF Hangup, StateType
    <3>2. \A d \in Conn : cli'[d] = cli[d] \/ (d = c /\ cli'[d] = "ended")
      BY <3>1, AnswerMoves
    <3> QED BY <3>2
  <2> QED BY <2>1, <2>2, <2>3
<1> QED BY <1>1, <1>2, OnceSame, Zenon DEF OnceInv

(* Cycles and chunks move no request.                                      *)
LEMMA CycleOnce ==
  ASSUME StateType, KnownInv, OnceInv, MainStep \/ DrainStep \/ Chunk PROVE OnceInv'
<1>1. UNCHANGED <<queue, pending, pf>> BY Zenon DEF MainStep, DrainStep, Chunk, queues
<1>2. ASSUME NEW S \in SUBSET Slot, NEW T \in SUBSET Slot, FinishGen(S, T)
      PROVE  \A d \in Conn : cli'[d] = cli[d] \/ cli'[d] \notin {"ready", "failed"}
  <2>1. \A d \in Conn : cli'[d] = cli[d] \/ cli'[d] = "ended" BY <1>2, FinishMoves
  <2> QED BY <2>1
<1>3. ASSUME NEW goon, BatchStep(goon)
      PROVE  \A d \in Conn : cli'[d] = cli[d] \/ cli'[d] \notin {"ready", "failed"}
  <2>1. PICK own, bad, stopped, done, node \in SUBSET Slot :
          BatchTerms(goon, own, bad, stopped, done, node)
    BY <1>3, BatchStepIs, Zenon
  <2>2. FinishGen(Stopped, done \ Stopped) BY <2>1, Zenon DEF BatchTerms
  <2>3. Stopped \in SUBSET Slot /\ done \ Stopped \in SUBSET Slot BY DEF Stopped, Generating
  <2> QED BY <1>2, <2>2, <2>3
<1>4. ASSUME NEW ends \in BOOLEAN, NEW goon, StepFault(ends, goon)
      PROVE  \A d \in Conn : cli'[d] = cli[d] \/ cli'[d] \notin {"ready", "failed"}
  BY <1>2, <1>4, StepFaultIs
<1>5. \/ \E goon : BatchStep(goon) \/ \E ends \in BOOLEAN : StepFault(ends, goon)
      \/ UNCHANGED clients
  <2>1. TRUE \in BOOLEAN /\ FALSE \in BOOLEAN OBVIOUS
  <2> QED BY <2>1, Zenon DEF MainStep, DrainStep, Chunk
<1>6. \A d \in Conn : cli'[d] = cli[d] \/ cli'[d] \notin {"ready", "failed"}
  BY <1>3, <1>4, <1>5 DEF clients
<1> QED BY <1>1, <1>6, OnceSame, Zenon DEF OnceInv

(* A purge that does not race the daemon leaves some of what waited.       *)
LEMMA PurgeOnce ==
  ASSUME StateType, KnownInv, OnceInv, Purge, ~raced' PROVE OnceInv'
<1>1. pending' = Keeps(purging) /\ UNCHANGED <<cli, queue, pf>>
  <2>1. pending' = purge /\ raced' = (raced \/ purge # Keeps(purging)) /\ UNCHANGED <<cli, queue, pf>>
    BY Zenon DEF Purge, clients, prefill
  <2> QED BY <2>1
<1>2. ClientType BY DEF StateType
<1>3. \A e : Once(pending, e)
  <2> SUFFICES ASSUME NEW e PROVE Once(pending, e)
    OBVIOUS
  <2>1. CASE Waits(pending, e)
    <3>1. e \in Request BY <1>2, <2>1, ElementOfSeq DEF Waits, ClientType
    <3>2. e.what = "prefill" /\ e.conn \in Conn BY <2>1, <3>1, RequestIs, Zenon DEF KnownInv
    <3>3. e = Fill(e.conn) BY <3>1, <3>2, TheirRequests
    <3> QED BY <3>2, <3>3, Zenon DEF OnceInv, OnceFor
  <2>2. CASE ~Waits(pending, e) BY <2>2, Zenon DEF Waits, Once
  <2> QED BY <2>1, <2>2
<1>4. \A e : Once(Keeps(purging), e) /\ (Waits(Keeps(purging), e) => Waits(pending, e))
  BY <1>2, <1>3, KeepsOnce, KeepsWaits
<1> SUFFICES ASSUME NEW c \in Conn PROVE OnceFor(c)'
  BY Zenon DEF OnceInv
<1>5. OnceStill(c)
  BY <1>1, <1>4, Zenon DEF OnceStill
<1> QED BY <1>5, OnceGoesOn, Zenon DEF OnceInv

(* The end of a prefill: its client may ask for the generate.              *)
LEMMA EndOnce ==
  ASSUME StateType, PrefillInv, OnceInv, Finish \/ Abort \/ PrefillFault PROVE OnceInv'
<1>1. PICK to \in {"ready", "failed"} : EndPrefill(to)
  BY Zenon DEF Finish, Abort, PrefillFault
<1>2. /\ Answer(pf, to) /\ pf' = NoConn /\ UNCHANGED <<queue, pending>> /\ ClientType /\ to # "new"
  BY <1>1 DEF EndPrefill, queues, StateType
<1>3. pf \in Conn
  <2>1. dpc \in {"chunk", "tail"} BY DEF Finish, Abort, PrefillFault, Feeding
  <2>2. pf # NoConn BY <2>1 DEF StateType, PrefillType, Barrier
  <2> QED BY <2>2, SlotTypes
<1>4. \A d \in Conn : cli'[d] = cli[d] \/ (d = pf /\ cli'[d] = to)
  BY <1>2, <1>3, AnswerMoves
<1> SUFFICES ASSUME NEW d \in Conn PROVE OnceFor(d)'
  BY Zenon DEF OnceInv
<1>5. OnceFor(d) /\ d # NoConn BY NoneAssumption DEF OnceInv
<1>6. CASE d = pf
  <2>1. ~Waits(queue, Fill(d)) /\ ~Waits(pending, Fill(d)) BY <1>5, <1>6, Zenon DEF OnceFor
  <2>2. ~Owed(d)' BY <1>2, <1>5, <2>1, Zenon DEF Owed
  <2> QED BY <1>2, <1>5, <2>1, <2>2, Zenon DEF OnceFor
<1>7. CASE d # pf
  <2>1. OnceStill(d) BY <1>2, <1>4, <1>5, <1>7, Zenon DEF OnceStill
  <2> QED BY <1>5, <2>1, OnceGoesOn
<1> QED BY <1>6, <1>7

(* What is taken from a queue is in it no more.                            *)
Took(e) ==
  /\ \A x \in Request : /\ Once(queue, x) => Once(queue', x)
                        /\ Once(pending, x) => Once(pending', x)
                        /\ Waits(queue', x) => Waits(queue, x)
                        /\ Waits(pending', x) => Waits(pending, x)
  /\ Waits(queue, e) \/ (Waits(pending, e) /\ e.what = "prefill")
  /\ e.what = "prefill" => ~Waits(queue', e) /\ ~Waits(pending', e)

(* A queue's first request, taken off it.                                  *)
LEMMA HeadTook ==
  ASSUME StateType, KnownInv, OnceInv, NEW e \in Request,
         \/ pending # << >> /\ e = Head(pending) /\ pending' = Tail(pending) /\ UNCHANGED queue
         \/ queue # << >> /\ e = Head(queue) /\ queue' = Tail(queue) /\ UNCHANGED pending
  PROVE  Took(e)
<1>1. queue \in Seq(Request) /\ pending \in Seq(Request) BY DEF StateType, ClientType
<1>2. e.conn \in Conn BY RequestIs
<1>3. OnceFor(e.conn) BY <1>2 DEF OnceInv
<1>4. e.what = "prefill" => e = Fill(e.conn) BY <1>2, TheirRequests
<1>5. CASE pending # << >> /\ e = Head(pending) /\ pending' = Tail(pending) /\ UNCHANGED queue
  <2>1. \A x \in Request : /\ Once(pending, x) => Once(pending', x)
                           /\ Waits(pending', x) => Waits(pending, x)
    BY <1>1, <1>5, WaitsTail, Zenon
  <2>2. Waits(pending, e) BY <1>1, <1>5, WaitsTail
  <2>3. e.what = "prefill" BY <2>2, Zenon DEF KnownInv
  <2>4. Once(pending, e) => ~Waits(pending', e) BY <1>1, <1>5, WaitsTail
  <2>5. ~Waits(pending', e) /\ ~Waits(queue, e)
    BY <1>3, <1>4, <2>2, <2>3, <2>4, Zenon DEF OnceFor
  <2> QED BY <1>5, <2>1, <2>2, <2>3, <2>5, Zenon DEF Took
<1>6. CASE queue # << >> /\ e = Head(queue) /\ queue' = Tail(queue) /\ UNCHANGED pending
  <2>1. \A x \in Request : /\ Once(queue, x) => Once(queue', x)
                           /\ Waits(queue', x) => Waits(queue, x)
    BY <1>1, <1>6, WaitsTail, Zenon
  <2>2. Waits(queue, e) BY <1>1, <1>6, WaitsTail
  <2>4. Once(queue, e) => ~Waits(queue', e) BY <1>1, <1>6, WaitsTail
  <2>5. e.what = "prefill" => ~Waits(queue', e) /\ ~Waits(pending, e)
    BY <1>3, <1>4, <2>2, <2>4, Zenon DEF OnceFor
  <2> QED BY <1>6, <2>1, <2>2, <2>5, Zenon DEF Took
<1> QED BY <1>5, <1>6

(* A request that is refused or decoded for; another that is refused.      *)
LEMMA TookStill ==
  ASSUME NEW e \in Request, Took(e), NEW d \in Conn, OnceFor(d), pf' = d => pf = d,
         cli'[d] = cli[d] \/ cli'[d] \notin {"ready", "failed"}
  PROVE  OnceFor(d)'
<1>1. Fill(d) \in Request /\ Run(d) \in Request BY TheirRequests
<1>2. OnceStill(d) BY <1>1, Zenon DEF Took, OnceStill
<1> QED BY <1>2, OnceGoesOn

(* A refusal sends its client to the end.                                  *)
LEMMA RefusedOnce ==
  ASSUME StateType, OnceInv, NEW e \in Request, Took(e), Refused(e.conn) PROVE OnceInv'
<1>1. e.conn \in Conn /\ ClientType /\ "ended" # "new" BY RequestIs DEF StateType
<1>2. Answer(e.conn, "ended") /\ UNCHANGED pf BY Zenon DEF Refused, prefill
<1>3. \A d \in Conn : cli'[d] = cli[d] \/ (d = e.conn /\ cli'[d] = "ended")
  BY <1>1, <1>2, AnswerMoves
<1>4. \A d \in Conn : cli'[d] = cli[d] \/ cli'[d] \notin {"ready", "failed"} BY <1>3
<1> QED BY <1>2, <1>4, TookStill, Zenon DEF OnceInv

(* A generate that starts moves no request.                                *)
LEMMA AttachedOnce ==
  ASSUME OnceInv, NEW e \in Request, Took(e), NEW s, Attached(e.conn, s) PROVE OnceInv'
<1>1. UNCHANGED <<cli, pf>> BY Zenon DEF Attached, Attach, clients, prefill
<1> QED BY <1>1, TookStill, Zenon DEF OnceInv

(* A prefill that takes the barrier, and a snapshot that is answered.      *)
LEMMA FillingOnce ==
  ASSUME StateType, OnceInv, NEW e \in Request, e.what = "prefill", Took(e), dpc = "main",
         NEW s, Filling(e.conn, s)
  PROVE  OnceInv'
<1>1. UNCHANGED cli /\ pf' = e.conn BY Zenon DEF Filling, Bind, clients
<1> SUFFICES ASSUME NEW d \in Conn PROVE OnceFor(d)'
  BY Zenon DEF OnceInv
<1>2. OnceFor(d) BY DEF OnceInv
<1>3. CASE d # e.conn BY <1>1, <1>2, <1>3, TookStill
<1>4. CASE d = e.conn
  <2>1. e = Fill(d) /\ Run(d) \in Request BY <1>4, TheirRequests
  <2>2. Owed(d) BY <2>1, Zenon DEF Took, Owed
  <2>3. ~Waits(queue, Run(d)) /\ cli[d] \notin {"ready", "failed"} BY <1>2, <2>2, Zenon DEF OnceFor
  <2>4. ~Waits(queue', Run(d)) BY <2>1, <2>3, Zenon DEF Took
  <2>5. /\ Once(queue', Fill(d)) /\ Once(pending', Fill(d))
        /\ ~Waits(queue', Fill(d)) /\ ~Waits(pending', Fill(d))
    BY <1>2, <2>1, Zenon DEF Took, OnceFor
  <2> QED BY <1>1, <2>3, <2>4, <2>5, Zenon DEF OnceFor
<1> QED BY <1>3, <1>4

(* A snapshot's client may ask for its generate.                           *)
LEMMA RestoredOnce ==
  ASSUME StateType, OnceInv, NEW e \in Request, e.what = "prefill", Took(e), dpc = "main",
         Restored(e.conn)
  PROVE  OnceInv'
<1>1. Answer(e.conn, "ready") /\ UNCHANGED pf BY Zenon DEF Restored, prefill
<1>2. e.conn \in Conn /\ ClientType /\ "ready" # "new" BY RequestIs DEF StateType
<1>3. \A d \in Conn : cli'[d] = cli[d] \/ (d = e.conn /\ cli'[d] = "ready")
  BY <1>1, <1>2, AnswerMoves
<1>4. pf = NoConn BY DEF StateType, PrefillType, Barrier
<1> SUFFICES ASSUME NEW d \in Conn PROVE OnceFor(d)'
  BY Zenon DEF OnceInv
<1>5. OnceFor(d) /\ d # NoConn BY NoneAssumption DEF OnceInv
<1>6. CASE d # e.conn BY <1>1, <1>3, <1>5, <1>6, TookStill
<1>7. CASE d = e.conn
  <2>1. e = Fill(d) BY <1>7, TheirRequests
  <2>2. /\ Once(queue', Fill(d)) /\ Once(pending', Fill(d))
        /\ ~Waits(queue', Fill(d)) /\ ~Waits(pending', Fill(d))
    BY <1>5, <2>1, Zenon DEF Took, OnceFor
  <2>3. ~Owed(d)' BY <1>1, <1>4, <1>5, <2>2, Zenon DEF Owed
  <2> QED BY <1>1, <1>4, <1>5, <2>2, <2>3, Zenon DEF OnceFor
<1> QED BY <1>6, <1>7

(* Whatever is served, no prefill is doubled.                              *)
LEMMA ServeOnce ==
  ASSUME StateType, OnceInv, NEW e \in Request, Took(e), dpc = "main", NEW waiting, Serve(e, waiting)
  PROVE  OnceInv'
BY ServeIs, RefusedOnce, AttachedOnce, FillingOnce, RestoredOnce, Zenon

(* A prefill that has to wait for another goes from Q to pending.          *)
LEMMA ParkOnce ==
  ASSUME StateType, OnceInv, NEW e \in Request, e.what = "prefill", Park(e.conn), UNCHANGED pf,
         queue # << >>, e = Head(queue), queue' = Tail(queue)
  PROVE  OnceInv'
<1>1. /\ queue \in Seq(Request) /\ pending \in Seq(Request) /\ ClientType /\ "ended" # "new"
      /\ e.conn \in Conn
  BY RequestIs DEF StateType, ClientType
<1>2. e = Fill(e.conn) BY <1>1, TheirRequests
<1>3. \/ pending' = Append(pending, e) /\ UNCHANGED clients
      \/ UNCHANGED pending /\ Answer(e.conn, "ended")
  BY <1>2, Zenon DEF Park, Fill
<1>4. \A d \in Conn : cli'[d] = cli[d] \/ cli'[d] \notin {"ready", "failed"}
  <2>1. CASE UNCHANGED clients BY <2>1 DEF clients
  <2>2. CASE Answer(e.conn, "ended")
    <3>1. \A d \in Conn : cli'[d] = cli[d] \/ (d = e.conn /\ cli'[d] = "ended")
      BY <1>1, <2>2, AnswerMoves
    <3> QED BY <3>1
  <2> QED BY <1>3, <2>1, <2>2
<1>5. \A x \in Request : /\ Once(queue, x) => Once(queue', x)
                         /\ Waits(queue', x) => Waits(queue, x)
  BY <1>1, WaitsTail, Zenon
<1>6. Waits(queue, e) /\ (Once(queue, e) => ~Waits(queue', e)) BY <1>1, WaitsTail
<1>7. \A x \in Request : /\ Waits(pending', x) => Waits(pending, x) \/ x = e
                         /\ Once(pending, x) /\ (x = e => ~Waits(pending, x)) => Once(pending', x)
  <2>1. CASE UNCHANGED pending BY <2>1
  <2>2. CASE pending' = Append(pending, e) BY <1>1, <2>2, WaitsAppend
  <2> QED BY <1>3, <2>1, <2>2
<1> SUFFICES ASSUME NEW d \in Conn PROVE OnceFor(d)'
  BY Zenon DEF OnceInv
<1>8. OnceFor(d) /\ Fill(d) \in Request /\ Run(d) \in Request BY TheirRequests DEF OnceInv
<1>9. CASE d # e.conn
  <2>1. Fill(d) # e BY <1>1, <1>2, <1>9, TheirRequests
  <2>2. OnceStill(d) BY <1>4, <1>5, <1>7, <1>8, <2>1, Zenon DEF OnceStill
  <2> QED BY <1>8, <2>2, OnceGoesOn
<1>10. CASE d = e.conn
  <2>1. ~Waits(pending, Fill(d)) /\ Once(queue, Fill(d)) /\ Once(pending, Fill(d)) /\ pf # d
    BY <1>2, <1>6, <1>8, <1>10, Zenon DEF OnceFor
  <2>2. ~Waits(queue, Run(d)) /\ cli[d] \notin {"ready", "failed"}
    BY <1>2, <1>6, <1>8, <1>10, Zenon DEF OnceFor, Owed
  <2>3. ~Waits(queue', Run(d)) /\ cli'[d] \notin {"ready", "failed"}
    BY <1>4, <1>5, <1>8, <2>2, Zenon
  <2>4. Once(queue', Fill(d)) /\ Once(pending', Fill(d)) /\ ~Waits(queue', Fill(d))
    BY <1>2, <1>5, <1>6, <1>7, <1>8, <1>10, <2>1, Zenon
  <2> QED BY <2>1, <2>3, <2>4, Zenon DEF OnceFor
<1> QED BY <1>9, <1>10

(* Every step, as long as no purge has raced the daemon.                   *)
LEMMA DrainOnce ==
  ASSUME StateType, KnownInv, OnceInv, Drain PROVE OnceInv'
<1>1. queue # << >> /\ queue' = Tail(queue) BY Zenon DEF Drain
<1>2. PICK e \in Request : e = Head(queue) BY <1>1, QueueTypes DEF StateType, ClientType
<1>3. e.conn \in Conn /\ e.what \in {"prefill", "generate"} BY RequestIs
<1>4. CASE ServeGenerate(e.conn) /\ UNCHANGED pending
  <2>1. Took(e) BY <1>1, <1>2, <1>4, HeadTook
  <2> QED BY <1>3, <1>4, <2>1, GenerateIs, RefusedOnce, AttachedOnce
<1>5. CASE e.what = "prefill" /\ Park(e.conn) /\ UNCHANGED prefill
  <2>1. UNCHANGED pf BY <1>5, Zenon DEF prefill
  <2> QED BY <1>1, <1>2, <1>5, <2>1, ParkOnce
<1> QED BY <1>2, <1>3, <1>4, <1>5, Zenon DEF Drain

(* Nor by a request from pending or from Q.                                *)
LEMMA HandleOnce ==
  ASSUME StateType, KnownInv, OnceInv, HandlePending \/ HandleQueue PROVE OnceInv'
<1>1. queue \in Seq(Request) /\ pending \in Seq(Request) BY DEF StateType, ClientType
<1>2. dpc = "main" BY Zenon DEF HandlePending, HandleQueue
<1>3. CASE HandlePending
  <2>1. /\ pending # << >> /\ pending' = Tail(pending) /\ UNCHANGED queue
        /\ Serve(Head(pending), Tail(pending))
    BY <1>3, Zenon DEF HandlePending
  <2>2. Head(pending) \in Request BY <1>1, <2>1, QueueTypes
  <2>3. Took(Head(pending)) BY <2>1, <2>2, HeadTook
  <2> QED BY <1>2, <2>1, <2>2, <2>3, ServeOnce
<1>4. CASE HandleQueue
  <2>1. /\ queue # << >> /\ queue' = Tail(queue) /\ UNCHANGED pending
        /\ Serve(Head(queue), pending)
    BY <1>4, Zenon DEF HandleQueue
  <2>2. Head(queue) \in Request BY <1>1, <2>1, QueueTypes
  <2>3. Took(Head(queue)) BY <2>1, <2>2, HeadTook
  <2> QED BY <1>2, <2>1, <2>2, <2>3, ServeOnce
<1> QED BY <1>3, <1>4

(* Nor by any step, unless a purge races the daemon.                       *)
LEMMA NextOnce ==
  ASSUME StateType, KnownInv, PrefillInv, OnceInv, [Next]_vars, ~raced' PROVE OnceInv'
<1>1. CASE UNCHANGED vars
  <2>1. UNCHANGED <<queue, pending, pf, cli>> BY <1>1, Zenon DEF vars
  <2> QED BY <2>1, OnceSame, Zenon DEF OnceInv
<1>2. CASE Purge BY <1>2, PurgeOnce
<1>3. CASE \E c \in Conn : SendPrefill(c) \/ SendGenerate(c) \/ Cancel(c) \/ Close(c) \/ Hangup(c)
  BY <1>3, SendOnce, ListenOnce, Zenon
<1>4. CASE Daemon
  BY <1>4, HandleOnce, CycleOnce, EndOnce, DrainOnce, Zenon DEF Daemon
<1> QED BY <1>1, <1>2, <1>3, <1>4, Zenon DEF Next

(* A generate runs on a slot that no prefill has and no fault has left     *)
(* dirty, unless it has strayed there; what its connection hears comes     *)
(* from its own rows.                                                      *)
GenFor(s) ==
  gen[s] # NoConn =>
    /\ gen[s] \in strays \/ (s # pslot /\ ~dirty[s])
    /\ bound[s] = gen[s] => s # pslot /\ rows[s].of = conv(gen[s]) /\ Fed(s)

GenInv == \A s \in Slot : GenFor(s)

(* What a step may do to a slot that goes on generating.                   *)
GenStill(s) ==
  gen'[s] # NoConn =>
    /\ gen'[s] = gen[s] /\ bound'[s] \in {bound[s], NoConn}
    /\ \/ s = pslot
       \/ /\ s # pslot' /\ dirty'[s] = dirty[s] /\ rows'[s] \in {rows[s], Disturbed(rows[s])}
          /\ s \in patched' <=> s \in patched

(* A slot so treated goes on honestly.                                     *)
LEMMA GenGoesOn ==
  ASSUME StateType, KnownInv, Kept, strays \subseteq strays', NEW s \in Slot, GenFor(s), GenStill(s)
  PROVE  GenFor(s)'
<1> SUFFICES ASSUME gen'[s] # NoConn
             PROVE  /\ gen'[s] \in strays' \/ (s # pslot' /\ ~dirty'[s])
                    /\ bound'[s] = gen'[s] => /\ s # pslot' /\ rows'[s].of = ask'[gen'[s]].conv
                                              /\ Fed(s)'
  BY Zenon DEF GenFor, conv
<1>1. gen'[s] = gen[s] /\ bound'[s] \in {bound[s], NoConn} BY DEF GenStill
<1>2. gen[s] \in Conn /\ ask'[gen[s]] = ask[gen[s]] BY <1>1, SlotTypes, Zenon DEF KnownInv, Kept
<1>3. /\ gen[s] \in strays \/ (s # pslot /\ ~dirty[s])
      /\ bound[s] = gen[s] => s # pslot /\ rows[s].of = conv(gen[s]) /\ Fed(s)
  BY <1>1, Zenon DEF GenFor
<1>4. CASE s = pslot BY <1>1, <1>3, <1>4
<1>5. CASE /\ s # pslot' /\ dirty'[s] = dirty[s] /\ rows'[s] \in {rows[s], Disturbed(rows[s])}
           /\ s \in patched' <=> s \in patched
  <2>1. rows'[s].of = rows[s].of /\ (Fed(s) => Fed(s)')
    <3>1. rows[s] \in Rows BY SlotTypes
    <3>2. /\ Disturbed(rows[s]).of = rows[s].of
          /\ Disturbed(rows[s]).how = "disturbed"
      BY <3>1, DisturbedType
    <3> QED BY <1>5, <3>2 DEF Fed
  <2>2. gen'[s] \in strays' \/ (s # pslot' /\ ~dirty'[s]) BY <1>1, <1>3, <1>5
  <2>3. bound'[s] = gen'[s] => bound[s] = gen[s] BY <1>1
  <2> QED BY <1>1, <1>2, <1>3, <1>5, <2>1, <2>2, <2>3, Zenon DEF conv
<1> QED BY <1>4, <1>5, Zenon DEF GenStill

(* The steps of the clients and the listeners.                             *)
LEMMA ClientGen ==
  ASSUME StateType, KnownInv, GenInv, Kept,
         Purge \/ UNCHANGED vars
         \/ \E c \in Conn : SendPrefill(c) \/ SendGenerate(c) \/ Cancel(c) \/ Close(c) \/ Hangup(c)
  PROVE  GenInv'
<1>1. UNCHANGED <<gen, strays, patched, dirty, rows, pslot>>
  BY Zenon DEF Purge, vars, SendPrefill, SendGenerate, Cancel, Close, Hangup, flags, decode, device,
               prefill, history
<1>2. \A s \in Slot : bound'[s] \in {bound[s], NoConn}
  <2>1. CASE UNCHANGED bound BY <2>1
  <2>2. ASSUME NEW c, Close(c) PROVE \A s \in Slot : bound'[s] \in {bound[s], NoConn}
    <3>1. bound' = [s \in Slot |-> IF bound[s] = c /\ byConn[c] = s THEN NoConn ELSE bound[s]]
      BY <2>2, Zenon DEF Close
    <3> QED BY <3>1, Zenon
  <2>3. UNCHANGED bound \/ \E c : Close(c)
    BY Zenon DEF Purge, vars, SendPrefill, SendGenerate, Cancel, Hangup, binding
  <2> QED BY <2>1, <2>2, <2>3
<1>3. \A s \in Slot : GenStill(s) BY <1>1, <1>2, Zenon DEF GenStill
<1> QED BY <1>1, <1>3, GenGoesOn, Zenon DEF GenInv

(* Steps that leave the slots alone.                                       *)
LEMMA StillGen ==
  ASSUME StateType, KnownInv, GenInv, Kept,
         UNCHANGED <<gen, strays, patched, dirty, rows, pslot, bound>>
  PROVE  GenInv'
<1>1. \A s \in Slot : GenStill(s) BY Zenon DEF GenStill
<1> QED BY <1>1, GenGoesOn, Zenon DEF GenInv

(* A generate that is attached finds rows of its own, or has strayed.      *)
LEMMA AttachedGen ==
  ASSUME StateType, KnownInv, PrefillInv, RowsInv, OnceInv, GenInv, Kept,
         NEW c \in Conn, NEW s \in Slot, Attached(c, s), Waits(queue, Run(c))
  PROVE  GenInv'
<1>1. /\ ~dirty[s] /\ gen[s] = NoConn /\ gen' = [gen EXCEPT ![s] = c]
      /\ strays' = IF bound[s] = c THEN strays ELSE strays \cup {c}
      /\ UNCHANGED <<ask, bound, dirty, rows, patched, pslot>>
  BY Zenon DEF Attached, Attach, clients, binding, flags, device, prefill
<1>2. strays \subseteq strays' BY <1>1
<1>3. gen'[s] = c /\ \A t \in Slot \ {s} : gen'[t] = gen[t]
  BY <1>1, Zenon DEF StateType, DecodeType
<1>4. pf # c BY Zenon DEF OnceInv, OnceFor, Owed
<1>5. bound[s] = c => s # pslot
  <2>1. s = pslot => pf # NoConn BY SlotTypes
  <2>2. c # NoConn BY NoneAssumption
  <2> QED BY <1>4, <2>1, <2>2 DEF PrefillInv
<1> SUFFICES ASSUME NEW t \in Slot PROVE GenFor(t)'
  BY Zenon DEF GenInv
<1>6. CASE t = s
  <2>1. bound[s] = c => rows[s].of = conv(c) /\ Fed(s)
    <3>1. BoundInv(s) /\ FedInv(s) /\ c # NoConn BY NoneAssumption DEF RowsInv, SlotInv
    <3>2. bound[s] = c => conv(c) # NoConv BY <3>1, Zenon DEF KnownInv
    <3> QED BY <1>1, <1>5, <3>1, <3>2, Zenon DEF BoundInv, FedInv, Fed
  <2>2. c \in strays' \/ (s # pslot' /\ ~dirty'[s]) BY <1>1, <1>5
  <2>3. bound'[s] = c => s # pslot' /\ rows'[s].of = ask'[c].conv /\ Fed(s)'
    BY <1>1, <1>5, <2>1, Zenon DEF conv, Fed
  <2> QED BY <1>3, <1>6, <2>2, <2>3, Zenon DEF GenFor, conv
<1>7. CASE t # s
  <2>1. GenStill(t) BY <1>1, <1>3, <1>7, Zenon DEF GenStill
  <2> QED BY <1>2, <2>1, GenGoesOn, Zenon DEF GenInv
<1> QED BY <1>6, <1>7

(* A prefill is given an idle slot, a snapshot while both are.             *)
LEMMA FillingGen ==
  ASSUME StateType, KnownInv, GenInv, Kept, dpc = "main", NEW c \in Conn, NEW s \in Slot, Filling(c, s)
  PROVE  GenInv'
<1>1. /\ bound' = [bound EXCEPT ![s] = c] /\ dirty' = [dirty EXCEPT ![s] = FALSE] /\ pslot' = s
      /\ UNCHANGED <<gen, strays>> /\ s \in PickSlot(c)
      /\ rows' = rows \/ \E r : rows' = [rows EXCEPT ![s] = r]
      /\ patched' \in {patched \cup {s}, patched \ {s}, patched}
  BY Zenon DEF Filling, Bind, decode, device
<1>2. gen[s] = NoConn BY <1>1, PickSlotIn
<1>3. \A t \in Slot \ {s} : /\ bound'[t] = bound[t] /\ dirty'[t] = dirty[t] /\ rows'[t] = rows[t]
                            /\ t \in patched' <=> t \in patched
  BY <1>1, Zenon DEF StateType, BindType, DeviceType
<1>4. \A t \in Slot : GenStill(t) BY <1>1, <1>2, <1>3, Zenon DEF GenStill
<1> QED BY <1>1, <1>4, GenGoesOn, Zenon DEF GenInv

(* A snapshot is restored while nobody generates.                          *)
LEMMA RestoredGen ==
  ASSUME NEW c, Restored(c) PROVE GenInv'
BY Zenon DEF Restored, decode, GenInv, GenFor

(* Whatever is served keeps the generates honest.                          *)
LEMMA ServeGen ==
  ASSUME StateType, KnownInv, PrefillInv, RowsInv, OnceInv, GenInv, Kept, dpc = "main",
         NEW e \in Request, Waits(queue, e) \/ e.what = "prefill", NEW waiting, Serve(e, waiting)
  PROVE  GenInv'
<1>1. e.conn \in Conn BY RequestIs
<1>2. CASE Refused(e.conn)
  <2>1. UNCHANGED <<gen, strays, patched, dirty, rows, pslot, bound>>
    BY <1>2, Zenon DEF Refused, decode, history, flags, device, prefill, binding
  <2> QED BY <2>1, StillGen
<1>3. ASSUME e.what = "generate", NEW s \in Slot, Attached(e.conn, s) PROVE GenInv'
  <2>1. e = Run(e.conn) BY <1>1, <1>3, TheirRequests
  <2>2. Waits(queue, Run(e.conn))
    <3>1. e.what # "prefill" BY <1>3
    <3> QED BY <2>1, <3>1, Zenon
  <2> QED BY <1>1, <1>3, <2>2, AttachedGen
<1> QED BY <1>1, <1>2, <1>3, ServeIs, FillingGen, RestoredGen, Zenon

(* So does a request from pending or from Q.                               *)
LEMMA HandleGen ==
  ASSUME StateType, KnownInv, PrefillInv, RowsInv, OnceInv, GenInv, Kept, HandlePending \/ HandleQueue
  PROVE  GenInv'
<1>1. queue \in Seq(Request) /\ pending \in Seq(Request) BY DEF StateType, ClientType
<1>2. dpc = "main" BY Zenon DEF HandlePending, HandleQueue
<1>3. CASE HandlePending
  <2>1. pending # << >> /\ Serve(Head(pending), Tail(pending)) BY <1>3, Zenon DEF HandlePending
  <2>2. Head(pending) \in Request BY <1>1, <2>1, QueueTypes
  <2>3. Head(pending).what = "prefill" BY <1>1, <2>1, <2>2, WaitsTail, Zenon DEF KnownInv
  <2> QED BY <1>2, <2>1, <2>2, <2>3, ServeGen
<1>4. CASE HandleQueue
  <2>1. queue # << >> /\ Serve(Head(queue), pending) BY <1>4, Zenon DEF HandleQueue
  <2>2. Head(queue) \in Request BY <1>1, <2>1, QueueTypes
  <2>3. Waits(queue, Head(queue)) BY <1>1, <2>1, <2>2, WaitsTail
  <2> QED BY <1>2, <2>1, <2>2, <2>3, ServeGen
<1> QED BY <1>3, <1>4

(* And a generate served between the chunks of a prefill.                  *)
LEMMA DrainGen ==
  ASSUME StateType, KnownInv, PrefillInv, RowsInv, OnceInv, GenInv, Kept, Drain PROVE GenInv'
<1>1. queue # << >> /\ queue \in Seq(Request) BY DEF Drain, StateType, ClientType
<1>2. PICK e \in Request : e = Head(queue) BY <1>1, QueueTypes
<1>3. e.conn \in Conn /\ Waits(queue, e) BY <1>1, <1>2, RequestIs, WaitsTail
<1>4. CASE e.what = "generate" /\ ServeGenerate(e.conn)
  <2>1. e = Run(e.conn) BY <1>3, <1>4, TheirRequests
  <2>2. CASE Refused(e.conn)
    <3>1. UNCHANGED <<gen, strays, patched, dirty, rows, pslot, bound>>
      BY <2>2, Zenon DEF Refused, decode, history, flags, device, prefill, binding
    <3> QED BY <3>1, StillGen
  <2>3. ASSUME NEW s \in Slot, Attached(e.conn, s) PROVE GenInv'
    <3>1. Waits(queue, Run(e.conn)) BY <1>3, <2>1
    <3> QED BY <1>3, <2>3, <3>1, AttachedGen
  <2> QED BY <1>3, <1>4, <2>2, <2>3, GenerateIs
<1>5. CASE UNCHANGED <<binding, flags, decode, device, prefill, history>>
  <2>1. UNCHANGED <<gen, strays, patched, dirty, rows, pslot, bound>>
    BY <1>5, Zenon DEF decode, history, flags, device, prefill, binding
  <2> QED BY <2>1, StillGen
<1> QED BY <1>2, <1>4, <1>5, Zenon DEF Drain

(* A cycle: what it leaves dirty it has finished.                          *)
LEMMA CycleGen ==
  ASSUME StateType, KnownInv, GenInv, Kept, MainStep \/ DrainStep PROVE GenInv'
<1>1. UNCHANGED <<pslot, strays, patched>> BY Zenon DEF MainStep, DrainStep, history
<1>2. ASSUME NEW goon, BatchStep(goon) PROVE \A s \in Slot : GenStill(s)
  <2>1. PICK own, bad, stopped, done, node \in SUBSET Slot :
          BatchTerms(goon, own, bad, stopped, done, node)
    BY <1>2, BatchStepIs, Zenon
  <2>2. /\ Stopped \subseteq done /\ bad \subseteq done /\ FinishGen(Stopped, done \ Stopped)
        /\ UNCHANGED bound
        /\ dirty' = [s \in Slot |-> dirty[s] \/ s \in bad]
        /\ rows' = [s \in Slot |-> IF s \in Cycling /\ gen[s] \in strays
                                   THEN Disturbed(rows[s]) ELSE rows[s]]
    BY <2>1, Zenon DEF BatchTerms
  <2>3. gen' = [s \in Slot |-> IF s \in done THEN NoConn ELSE gen[s]]
    <3> DEFINE then == done \ Stopped
               both == Stopped \cup then
    <3>1. Stopped \in SUBSET Slot /\ then \in SUBSET Slot /\ both = done
      BY <2>2 DEF Stopped, Generating
    <3>2. FinishGen(Stopped, then) BY <2>2
    <3> HIDE DEF then
    <3>3. gen' = [s \in Slot |-> IF s \in both THEN NoConn ELSE gen[s]]
      BY <3>1, <3>2, FinishGenType
    <3> HIDE DEF both
    <3> QED BY <3>1, <3>3
  <2> SUFFICES ASSUME NEW s \in Slot, gen'[s] # NoConn
               PROVE  /\ gen'[s] = gen[s] /\ bound'[s] \in {bound[s], NoConn}
                      /\ s # pslot => /\ s # pslot' /\ dirty'[s] = dirty[s]
                                      /\ rows'[s] \in {rows[s], Disturbed(rows[s])}
                                      /\ s \in patched' <=> s \in patched
    BY Zenon DEF GenStill
  <2>4. s \notin done /\ gen'[s] = gen[s] BY <2>3, Zenon
  <2>5. dirty'[s] = dirty[s]
    <3>1. dirty'[s] = (dirty[s] \/ s \in bad) /\ s \notin bad BY <2>2, <2>4
    <3> QED BY <3>1, SlotTypes
  <2>6. rows'[s] \in {rows[s], Disturbed(rows[s])} BY <2>2, Zenon
  <2> QED BY <1>1, <2>2, <2>4, <2>5, <2>6
<1>3. ASSUME NEW ends \in BOOLEAN, NEW goon, StepFault(ends, goon) PROVE \A s \in Slot : GenStill(s)
  <2>1. /\ rows' = [s \in Slot |-> IF s \in Cycling THEN Disturbed(rows[s]) ELSE rows[s]]
        /\ UNCHANGED <<bound, dirty>>
    BY <1>3, StepFaultIs, Zenon DEF flags
  <2>2. PICK T \in SUBSET Slot : FinishGen(Stopped, T) BY <1>3, StepFaultIs
  <2>3. gen' = [s \in Slot |-> IF s \in Stopped \cup T THEN NoConn ELSE gen[s]]
    <3>1. Stopped \in SUBSET Slot BY <1>3, StepFaultIs
    <3> QED BY <2>2, <3>1, FinishGenType
  <2> QED BY <1>1, <2>1, <2>3, Zenon DEF GenStill
<1>4. CASE UNCHANGED <<binding, flags, decode, device>>
  BY <1>1, <1>4, StillGen, Zenon DEF binding, flags, decode, device
<1>5. \/ \E goon : BatchStep(goon) \/ \E ends \in BOOLEAN : StepFault(ends, goon)
      \/ UNCHANGED <<binding, flags, decode, device>>
  <2>1. TRUE \in BOOLEAN /\ FALSE \in BOOLEAN OBVIOUS
  <2> QED BY <2>1, Zenon DEF MainStep, DrainStep
<1>6. CASE \A s \in Slot : GenStill(s) BY <1>1, <1>6, GenGoesOn, Zenon DEF GenInv
<1> QED BY <1>2, <1>3, <1>4, <1>5, <1>6

(* What ends a prefill touches the slot under the barrier alone.           *)
LEMMA FillGen ==
  ASSUME StateType, KnownInv, PrefillInv, RowsInv, GenInv, Kept, Chunk \/ Finish \/ Abort \/ PrefillFault
  PROVE  GenInv'
<1>1. CASE Chunk
  <2>1. UNCHANGED <<gen, strays, patched, dirty, rows, pslot, bound>>
    BY <1>1, Zenon DEF Chunk, decode, history, flags, binding
  <2> QED BY <2>1, StillGen
<1>2. CASE Finish \/ Abort \/ PrefillFault
  <2>1. /\ UNCHANGED <<bound, gen, patched>> /\ pslot' = NoSlot
        /\ \A s \in Slot \ {pslot} : dirty'[s] = dirty[s] /\ rows'[s] = rows[s]
    BY <1>2, FinishIs, AbortIs
  <2>2. UNCHANGED strays BY <1>2, Zenon DEF Finish, Abort, PrefillFault, EndPrefill, history
  <2>3. \A s \in Slot : GenStill(s) BY <2>1, SlotTypes, Zenon DEF GenStill
  <2> QED BY <2>2, <2>3, GenGoesOn, Zenon DEF GenInv
<1> QED BY <1>1, <1>2

(* Every step keeps the generates honest.                                  *)
LEMMA NextGen ==
  ASSUME StateType, KnownInv, PrefillInv, RowsInv, OnceInv, GenInv, [Next]_vars PROVE GenInv'
<1>1. Kept BY NextKnown DEF KnownStep
<1>2. CASE \/ Purge \/ UNCHANGED vars
           \/ \E c \in Conn : SendPrefill(c) \/ SendGenerate(c) \/ Cancel(c) \/ Close(c) \/ Hangup(c)
  BY <1>1, <1>2, ClientGen
<1>3. CASE Daemon
  BY <1>1, <1>3, HandleGen, DrainGen, CycleGen, FillGen, Zenon DEF Daemon
<1> QED BY <1>2, <1>3, Zenon DEF Next

(* The invariant, all of it.                                               *)
BatchInv ==
  /\ StateType /\ KnownInv /\ PrefillInv /\ RowsInv
  /\ raced \/ (OnceInv /\ GenInv)

(* It holds at the start.                                                  *)
LEMMA InitBatch == Init => BatchInv
<1> SUFFICES ASSUME Init PROVE BatchInv
  OBVIOUS
<1>1. StateType BY InitType
<1>2. \A e : ~Waits(<< >>, e) /\ Once(<< >>, e) BY DEF Waits, Once
<1>3. /\ queue = << >> /\ pending = << >> /\ purge = << >> /\ pf = NoConn
      /\ \A c \in Conn : cli[c] = "new"
      /\ \A s \in Slot : /\ gen[s] = NoConn /\ bound[s] = NoConn /\ convo[s] = NoConv
                         /\ boundary[s] = NoConv
  BY Zenon DEF Init
<1>4. KnownInv BY <1>2, <1>3, Zenon DEF KnownInv, Known
<1>5. PrefillInv BY <1>3, Zenon DEF PrefillInv
<1>6. RowsInv
  <2>1. \A s \in Slot : rows[s] = RowsOf(NoConv, "parked") BY Zenon DEF Init
  <2>2. \A s \in Slot : rows[s].of = NoConv /\ rows[s].how = "parked" BY <2>1 DEF RowsOf
  <2>3. \A s \in Slot : FedInv(s) BY <2>2 DEF FedInv
  <2> QED BY <1>3, <2>3, Zenon DEF RowsInv, SlotInv, UnusedInv, HeldInv, BoundInv, ChainInv
<1>7. OnceInv
  <2>1. \A c \in Conn : cli[c] \notin {"ready", "failed"} BY <1>3
  <2>2. \A c \in Conn : pf # c BY <1>3, NoneAssumption
  <2> QED BY <1>2, <1>3, <2>1, <2>2, Zenon DEF OnceInv, OnceFor
<1>8. GenInv BY <1>3, Zenon DEF GenInv, GenFor
<1> QED BY <1>1, <1>4, <1>5, <1>6, <1>7, <1>8 DEF BatchInv

(* And every step keeps it.                                                *)
LEMMA StepBatch == ASSUME BatchInv, [Next]_vars PROVE BatchInv'
<1>1. StateType' BY StepType DEF BatchInv
<1>2. KnownInv' BY NextKnown, KnownGoesOn DEF BatchInv
<1>3. PrefillInv' /\ RowsInv' BY NextSlots DEF BatchInv
<1>4. raced => raced'
  <2>1. raced' = raced \/ Purge
    BY Zenon DEF Next, vars, Daemon, SendPrefill, SendGenerate, Cancel, Close, Hangup, HandlePending,
       HandleQueue, MainStep, Chunk, Drain, DrainStep, Finish, Abort, PrefillFault, EndPrefill,
       Serve, ServeGenerate, ServePrefill, ServeSnapshot, Refuse, Attach, Bind, history
  <2> QED BY <2>1 DEF Purge
<1>5. ~raced' => OnceInv' /\ GenInv' BY <1>4, NextOnce, NextGen DEF BatchInv
<1> QED BY <1>1, <1>2, <1>3, <1>5 DEF BatchInv

(* What a connection is about to hear is decoded from the rows of its own  *)
(* conversation, never from another's (HonestStreams), across evictions,   *)
(* cancels, failed prefills and cycles in the middle of another prefill;   *)
(* from rows fed in part only where a FOLLOW_UP was fed to a slot that was *)
(* dirty.  The other exceptions are those of HonestStreams: rows that a    *)
(* stray generate or a step that raised has gone over, a raced purge.      *)
THEOREM StreamsHonest == Spec => []HonestStreams
<1>1. BatchInv => HonestStreams
  <2> SUFFICES ASSUME BatchInv, ~raced, NEW s \in Slot, gen[s] # NoConn, bound[s] = gen[s]
               PROVE  /\ rows[s].of = conv(gen[s])
                      /\ \/ rows[s].how = "whole" \/ rows[s].how = "disturbed"
                         \/ rows[s].how = "part" /\ s \in patched
    BY Zenon DEF HonestStreams, Generating
  <2>1. rows[s].of = conv(gen[s]) /\ Fed(s) BY Zenon DEF BatchInv, GenInv, GenFor
  <2>2. rows[s].how \in {"parked", "part", "whole", "disturbed"} BY SlotTypes DEF BatchInv, Rows
  <2> QED BY <2>1, <2>2 DEF Fed
<1> QED BY <1>1, InitBatch, StepBatch, PTL DEF Spec

(* What serving a request does to the boundary of a slot that decodes:     *)
(* nothing, for a prefill is given an idle slot.                           *)
LEMMA ServeBoundary ==
  ASSUME StateType, NEW e \in Request, NEW waiting, Serve(e, waiting), NEW s \in Slot, gen[s] # NoConn
  PROVE  boundary'[s] = boundary[s]
<1>1. UNCHANGED boundary
      \/ \E c, t : t \in PickSlot(c) /\ boundary' = [boundary EXCEPT ![t] = conv(c)]
  <2>1. \/ Refused(e.conn) \/ Restored(e.conn)
        \/ \E t \in Slot : Attached(e.conn, t) \/ Filling(e.conn, t)
    BY ServeIs, Zenon
  <2> QED BY <2>1, Zenon DEF Refused, Restored, Attached, Attach, Filling, Bind, device
<1>2. ASSUME NEW c, NEW t \in PickSlot(c), boundary' = [boundary EXCEPT ![t] = conv(c)]
      PROVE  boundary'[s] = boundary[s]
  <2>1. t # s BY PickSlotIn
  <2> QED BY <1>2, <2>1, Zenon DEF StateType, DeviceType
<1> QED BY <1>1, <1>2

(* A node cached at the end of a turn continues no other conversation's    *)
(* chain (TurnEndOwnChain), although a slot that is filled anew keeps the  *)
(* old boundary until its prefill ends, unless the slot took a FOLLOW_UP   *)
(* while dirty, the generate found its slot bound to another or a purge of *)
(* pending has brought a request back.                                     *)
THEOREM TurnEndsOwnChain == Spec => TurnEndOwnChain
<1> DEFINE Own(s) == ~raced /\ gen[s] # NoConn /\ boundary'[s] # boundary[s]
                      => boundary[s] = NoConv \/ s \in patched \/ gen[s] \in strays
<1>1. ASSUME BatchInv, Next PROVE \A s \in Slot : Own(s)
  <2> SUFFICES ASSUME NEW s \in Slot, ~raced, gen[s] # NoConn, boundary'[s] # boundary[s]
               PROVE  boundary[s] = NoConv \/ s \in patched \/ gen[s] \in strays
    OBVIOUS
  <2>0. StateType /\ KnownInv /\ PrefillInv /\ RowsInv BY <1>1 DEF BatchInv
  <2>1. /\ gen[s] \in strays \/ (s # pslot /\ ~dirty[s])
        /\ ChainInv(s)
    BY <1>1, Zenon DEF BatchInv, GenInv, GenFor, RowsInv, SlotInv
  <2>2. queue \in Seq(Request) /\ pending \in Seq(Request) BY <2>0 DEF StateType, ClientType
  <2>3. CASE s = pslot BY <2>1, <2>3
  <2>4. CASE s # pslot
    <3>1. CASE Chunk
      <4>1. boundary' \in {boundary, [boundary EXCEPT ![pslot] = conv(pf)]} BY <3>1, Zenon DEF Chunk
      <4> QED BY <2>0, <2>4, <4>1, Zenon DEF StateType, DeviceType
    <3>2. CASE Finish \/ Abort \/ PrefillFault BY <2>0, <2>4, <3>2, FinishIs, AbortIs
    <3>3. CASE HandlePending
      <4>1. pending # << >> /\ Serve(Head(pending), Tail(pending)) BY <3>3, Zenon DEF HandlePending
      <4>2. Head(pending) \in Request BY <2>2, <4>1, QueueTypes
      <4> QED BY <2>0, <4>1, <4>2, ServeBoundary
    <3>4. CASE HandleQueue
      <4>1. queue # << >> /\ Serve(Head(queue), pending) BY <3>4, Zenon DEF HandleQueue
      <4>2. Head(queue) \in Request BY <2>2, <4>1, QueueTypes
      <4> QED BY <2>0, <4>1, <4>2, ServeBoundary
    <3>5. CASE MainStep \/ DrainStep
      <4>1. CASE \E goon : BatchStep(goon)
        <5>1. PICK goon : BatchStep(goon) BY <4>1
        <5>2. PICK own, bad, stopped, done, node \in SUBSET Slot :
                BatchTerms(goon, own, bad, stopped, done, node)
          BY <5>1, BatchStepIs, Zenon
        <5>3. \A t \in Slot : Cycled(t) BY <2>0, <5>2, BatchCycled
        <5>4. boundary'[s] = rows[s].of BY <5>3, Zenon DEF Cycled
        <5> QED BY <2>1, <2>4, <5>4 DEF ChainInv
      <4>2. UNCHANGED boundary \/ \E goon : BatchStep(goon)
        BY <3>5, Zenon DEF MainStep, DrainStep, StepFault, device
      <4> QED BY <4>1, <4>2
    <3>6. CASE Drain
      <4>1. UNCHANGED boundary
        BY <3>6, Zenon DEF Drain, ServeGenerate, Refuse, Attach, device
      <4> QED BY <4>1
    <3>7. CASE \/ Purge
               \/ \E c \in Conn : SendPrefill(c) \/ SendGenerate(c) \/ Cancel(c) \/ Close(c) \/ Hangup(c)
      <4>1. UNCHANGED boundary
        BY <3>7, Zenon DEF Purge, SendPrefill, SendGenerate, Cancel, Close, Hangup, device
      <4> QED BY <4>1
    <3> QED BY <1>1, <3>1, <3>2, <3>3, <3>4, <3>5, <3>6, <3>7, Zenon DEF Next, Daemon
  <2> QED BY <2>3, <2>4
<1>2. BatchInv /\ [Next]_vars => [\A s \in Slot : Own(s)]_vars BY <1>1
<1>3. Spec => [][\A s \in Slot : Own(s)]_vars BY <1>2, InitBatch, StepBatch, PTL DEF Spec
<1> QED BY <1>3 DEF TurnEndOwnChain
=============================================================================
