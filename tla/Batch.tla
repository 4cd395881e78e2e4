-------------------------------- MODULE Batch --------------------------------
(***************************************************************************)
(* The batch daemon of the engine (engine/serve.py, _batch_main): two      *)
(* decode slots, the requests of several connections, one prefill at a     *)
(* time that gives way to the other slot's decode cycles between chunks.   *)
(*                                                                         *)
(* One daemon thread takes requests from Q (or from pending, the requests  *)
(* that waited for a prefill to end) and runs them; each connection has a  *)
(* listener thread, which fills Q, arms cancels and unbinds the connection *)
(* when it closes.  An action of the daemon is one request, one chunk of a *)
(* prefill or one batch step; the listener threads act in between.         *)
(*                                                                         *)
(* A request without a conversation id is one with an id nobody shares.    *)
(* Clients follow the API's session: prefill, wait for the answer,         *)
(* generate, read to the terminal event, close.  What is on the device is  *)
(* kept as whose rows a slot holds and what has happened to them.          *)
(***************************************************************************)
EXTENDS Integers, Sequences, FiniteSets, SequencesExt

CONSTANTS
  Conn,         \* connections, one session each
  NoConn,
  Conv,         \* conversation ids
  NoConv,       \* None
  Asks,         \* the prefills the client of a connection may ask for
  Cached,       \* conversations whose prompts the prefix cache may hold
  Chunks,       \* chunks of a FRESH prefill
  Cycles,       \* max_cycles of a generate
  QMax,         \* TLX_ENGINE_Q_MAX
  MaxPending,   \* TLX_PENDING_MAX
  RebuildEvery, \* BATCH_REBUILD_EVERY
  FailLimit,    \* failed fences in a row before the daemon gives up
  MaxTroubles   \* bound: cancels, connections closed early, prefills and steps that raise

ASSUME NoneAssumption == NoConn \notin Conn /\ NoConv \notin Conv
ASSUME AsksAssumption ==
  Asks \in [Conn -> SUBSET [conv : Conv, mode : {"FRESH", "FOLLOW_UP", "SNAPSHOT"}]]
ASSUME CachedAssumption == Cached \subseteq Conv
ASSUME SizesAssumption == /\ {Chunks, Cycles, RebuildEvery, FailLimit} \subseteq Nat \ {0}
                          /\ {QMax, MaxPending, MaxTroubles} \subseteq Nat

Slot == {0, 1}
NoSlot == 2

VARIABLES
  cli,      \* a client: see Stages
  ask,      \* the prefill it asked for
  queue,    \* Q
  pending,  \* the deque of requests parked behind a prefill
  purge,    \* what a closing connection's listener will leave in pending, or << >>
  purging,  \* the closing connection between its look at pending and its rewrite
  byConn,   \* by_conn
  convo,    \* st.convo_id
  named,    \* st.model_id is the one every prefill of the API carries, not None
  bound,    \* st.conn
  used,     \* st.used
  dirty,    \* st.dirty
  stop,     \* st.cancel_req
  gen,      \* the connection of st.gen, or NoConn
  gstop,    \* st.gen["cancel"]
  left,     \* st.gen["k_left"]
  newest,   \* the slot with the later last_used
  boundary, \* st.pc_last_hkey: whose prompt the last cached node of the slot ends
  rows,     \* what the slot's banks hold
  dpc,      \* the daemon: "main" | "chunk" | "drain" | "tail" | "exit"
  pf,       \* the connection whose prefill holds the barrier, or NoConn
  pslot,    \* ST._pf_stream: the slot it fills
  todo,     \* chunks it has still to feed
  gcancel,  \* ST.cancel
  cycles,   \* ST.cycles_since_rebuild
  spent,    \* history: cycles the device has run since its graphs were last rebuilt
  slips,    \* history: those of them in a step that raised, so that no fence was tested
  fails,    \* ST.rebuild_fails
  patched,  \* history: slots a FOLLOW_UP was fed to although they were dirty
  raced,    \* history: pending changed under a listener that was purging it
  strays,   \* history: connections whose generate found its slot bound to another
  troubles  \* the bound's counter

clients  == <<cli, ask>>
queues   == <<queue, pending>>
listener == <<purge, purging>>
binding  == <<byConn, convo, named, bound, used, newest>>
flags    == <<dirty, stop>>
decode   == <<gen, gstop, left>>
device   == <<rows, boundary>>
prefill  == <<dpc, pf, pslot, todo>>
fence    == <<cycles, spent, slips, fails>>
history  == <<patched, raced, strays>>
vars == <<cli, ask, queue, pending, purge, purging, byConn, convo, named, bound, used,
          dirty, stop, gen, gstop, left, newest, boundary, rows, dpc, pf, pslot, todo,
          gcancel, cycles, spent, slips, fails, patched, raced, strays, troubles>>

(* Whose rows, and how they came about: fed in part, whole, or disturbed   *)
(* by cycles of another connection or of a step that raised.               *)
Rows == [of : Conv \cup {NoConv}, how : {"parked", "part", "whole", "disturbed"}]
RowsOf(v, h) == [of |-> v, how |-> h]

Disturbed(r) == RowsOf(r.of, "disturbed")

Ask == [conv : Conv \cup {NoConv}, mode : {"none", "FRESH", "FOLLOW_UP", "SNAPSHOT"}]
conv(c) == ask[c].conv

(* A client whose prefill failed may still ask for a generate.             *)
Stages == {"new", "prefilling", "ready", "failed", "generating", "ended", "closed"}

Request == [conn : Conn, what : {"prefill", "generate"}]
Req(c, w) == [conn |-> c, what |-> w]

Other(s) == 1 - s
Dead(c) == cli[c] = "closed"
Generating == {s \in Slot : gen[s] # NoConn}
Up == dpc # "exit"

(* A reply moves a client on, unless it is gone.                           *)
Answered(c, to) == [cli EXCEPT ![c] = IF Dead(c) THEN @ ELSE to]
Answer(c, to) == cli' = Answered(c, to)

----------------------------------------------------------------------------
(* The clients and their listener threads.                                 *)

(* Fault: Q takes any number of requests.                                  *)
SubmitUncapped(c, what, to) == queue' = Append(queue, Req(c, what)) /\ Answer(c, to)

(* A request is queued, or refused when Q is full.                         *)
Submit(c, what, to) ==
  IF Len(queue) < QMax
  THEN queue' = Append(queue, Req(c, what)) /\ Answer(c, to)
  ELSE UNCHANGED queue /\ Answer(c, "ended")

SendPrefill(c) ==
  /\ Up /\ cli[c] = "new"
  /\ \E a \in Asks[c] : ask' = [ask EXCEPT ![c] = a]
  /\ Submit(c, "prefill", "prefilling")
  /\ UNCHANGED <<pending, listener, binding, flags, decode, device, prefill, gcancel,
                 fence, history, troubles>>

SendGenerate(c) ==
  /\ Up /\ cli[c] \in {"ready", "failed"}
  /\ Submit(c, "generate", "generating")
  /\ UNCHANGED <<ask, pending, listener, binding, flags, decode, device, prefill,
                 gcancel, fence, history, troubles>>

(* _cancel_hook: the cancel goes to the slot the connection was bound to,  *)
(* or to the daemon's flag when it was bound to none.                      *)
Cancel(c) ==
  /\ Up /\ cli[c] \in {"prefilling", "generating", "ended"} /\ troubles < MaxTroubles
  /\ troubles' = troubles + 1
  /\ IF byConn[c] = NoSlot
     THEN gcancel' = TRUE /\ UNCHANGED <<stop, gstop>>
     ELSE /\ stop' = [stop EXCEPT ![byConn[c]] = TRUE]
          /\ gstop' = [gstop EXCEPT ![byConn[c]] = gen[byConn[c]] # NoConn]
          /\ UNCHANGED gcancel
  /\ UNCHANGED <<clients, queues, listener, binding, dirty, gen, left, device, prefill,
                 fence, history>>

(* _unbind_hook, when the socket is closed: the binding goes, and the      *)
(* connection's requests leave pending (but not Q), which is looked at     *)
(* first and rewritten after.                                              *)
Keeps(c) ==
  FlattenSeq([i \in 1 .. Len(pending) |->
                IF pending[i].conn = c THEN << >> ELSE <<pending[i]>>])

Close(c) ==
  /\ Up /\ cli[c] \notin {"new", "closed"} /\ purging = NoConn
  /\ troubles' = IF cli[c] \in {"failed", "ended"} THEN troubles ELSE troubles + 1
  /\ troubles' <= MaxTroubles
  /\ cli' = [cli EXCEPT ![c] = "closed"]
  /\ byConn' = [byConn EXCEPT ![c] = NoSlot]
  /\ bound' = [s \in Slot |-> IF bound[s] = c /\ byConn[c] = s THEN NoConn ELSE bound[s]]
  /\ IF Keeps(c) = pending THEN UNCHANGED listener
     ELSE purging' = c /\ purge' = Keeps(c)
  /\ UNCHANGED <<ask, queues, convo, named, used, newest, flags, decode, device, prefill,
                 gcancel, fence, history>>

Purge ==
  /\ purging # NoConn
  /\ pending' = purge /\ purging' = NoConn /\ purge' = << >>
  /\ raced' = (raced \/ purge # Keeps(purging))
  /\ UNCHANGED <<clients, queue, binding, flags, decode, device, prefill, gcancel,
                 fence, patched, strays, troubles>>

----------------------------------------------------------------------------
(* The fence: graphs are rebuilt before the device's cycle budget is       *)
(* spent.  The count of cycles starts again only when a rebuild succeeds;  *)
(* FailLimit failures in a row end the daemon.                             *)

(* Fault: the count starts again whatever came of the rebuild.             *)
FenceForgetful(ran, goon) ==
  /\ cycles' = 0 /\ dpc' = goon
  /\ \/ spent' = 0 /\ slips' = 0 /\ fails' = 0
     \/ spent' = spent + ran /\ UNCHANGED <<slips, fails>>

(* _fence_all_rebuild after ran more cycles, in the daemon state to go on. *)
Fence(ran, goon) ==
  \/ cycles' = 0 /\ spent' = 0 /\ slips' = 0 /\ fails' = 0 /\ dpc' = goon
  \/ /\ cycles' = cycles + ran /\ spent' = spent + ran /\ fails' = fails + 1
     /\ dpc' = IF fails' >= FailLimit THEN "exit" ELSE goon
     /\ UNCHANGED slips

NoFence(ran, goon) ==
  cycles' = cycles + ran /\ spent' = spent + ran /\ dpc' = goon /\ UNCHANGED <<slips, fails>>

(* After a cycle the fence comes when it is due; the chunks of prefills    *)
(* spend submits too, so a prefill may find it due before.                 *)
FenceAfterCycle(goon) ==
  IF cycles + 1 >= RebuildEvery THEN Fence(1, goon) ELSE NoFence(1, goon)
FenceBeforePrefill(goon) ==
  NoFence(0, goon) \/ (cycles > 0 /\ Fence(0, goon))

(* A step that raises has submitted nothing, or its graphs, and has been   *)
(* counted or not; the fence is not tested.                                *)
FenceSkipped ==
  \/ UNCHANGED fence
  \/ /\ cycles' \in {cycles, cycles + 1}
     /\ spent' = spent + 1 /\ slips' = slips + 1
     /\ UNCHANGED fails

----------------------------------------------------------------------------
(* One batch step for the slots that generate.                             *)

(* Slots whose generate is cancelled before the cycle is submitted.        *)
Stopped == {s \in Generating : gstop[s] \/ stop[s]}
Cycling == Generating \ Stopped

(* What a cycle can come to: one more, a stop token, or a position that    *)
(* does not follow, when the slot has been filled anew since or a cycle    *)
(* was lost.                                                               *)
Outcomes(s) ==
  {"go", "stop"} \cup IF gen[s] \in strays \/ rows[s].how = "disturbed" THEN {"bad"} ELSE {}

(* _finish_gen: only a connection that is still bound hears of the end.    *)
Told(S) == {gen[s] : s \in {t \in S : bound[t] = gen[t]}}
Tell(S) == [c \in Conn |-> IF c \in Told(S) /\ ~Dead(c) THEN "ended" ELSE cli[c]]

(* The slots of first finish before those of then.                         *)
FinishGen(first, then) ==
  LET last == IF then = {} THEN first ELSE then IN
  /\ gen' = [s \in Slot |-> IF s \in first \cup then THEN NoConn ELSE gen[s]]
  /\ cli' = Tell(first \cup then)
  /\ newest' = IF last = {} THEN newest ELSE CHOOSE s \in last : \A t \in last : t <= s

(* The step of the generating slots, then the fence.  A cycle whose        *)
(* connection no longer owns the slot is not delivered and arms a cancel;  *)
(* a stop token ends the turn with a cached node, where the length allows. *)
BatchStep(goon) ==
  /\ Generating # {}
  /\ \E out \in [Slot -> {"go", "stop", "bad"}], node \in SUBSET Slot :
       LET own     == {s \in Cycling : bound[s] = gen[s] /\ out[s] # "bad"}
           bad     == {s \in Cycling : out[s] = "bad"}
           stopped == {s \in own : out[s] = "stop"}
           done    == Stopped \cup bad \cup stopped \cup {s \in own : left[s] = 1}
       IN /\ \A s \in Slot : out[s] \in IF s \in Cycling THEN Outcomes(s) ELSE {"go"}
          /\ node \subseteq stopped
          /\ FinishGen(Stopped, done \ Stopped)
          /\ gstop' = [s \in Slot |-> CASE s \in done -> FALSE
                                        [] s \in Cycling \ own -> TRUE
                                        [] OTHER -> gstop[s] \/ (s \in own /\ Dead(gen[s]))]
          /\ left' = [s \in Slot |-> CASE s \in done -> 0
                                       [] s \in Cycling \ done -> left[s] - 1
                                       [] OTHER -> left[s]]
          /\ dirty' = [s \in Slot |-> dirty[s] \/ s \in bad]
          /\ boundary' = [s \in Slot |-> IF s \in node THEN rows[s].of ELSE boundary[s]]
          /\ rows' = [s \in Slot |-> IF s \in Cycling /\ gen[s] \in strays
                                     THEN Disturbed(rows[s]) ELSE rows[s]]
  /\ IF Cycling = {} THEN dpc' = goon /\ UNCHANGED fence
     ELSE FenceAfterCycle(goon)
  /\ UNCHANGED <<ask, byConn, convo, named, bound, used, stop>>

(* A step that raises: the main loop ends every generate, the loop between *)
(* the chunks of a prefill only logs it.                                   *)
StepFault(ends, goon) ==
  /\ Cycling # {} /\ troubles < MaxTroubles
  /\ troubles' = troubles + 1
  /\ FinishGen(Stopped, IF ends THEN Cycling ELSE {})
  /\ gstop' = [s \in Slot |-> gstop[s] /\ gen'[s] # NoConn]
  /\ left' = [s \in Slot |-> IF gen'[s] = NoConn THEN 0 ELSE left[s]]
  /\ rows' = [s \in Slot |-> IF s \in Cycling THEN Disturbed(rows[s]) ELSE rows[s]]
  /\ FenceSkipped /\ dpc' = goon
  /\ UNCHANGED <<ask, byConn, convo, named, bound, used, flags, boundary>>

----------------------------------------------------------------------------
(* One request of a connection.                                            *)

(* The engine's belt: a conversation that is generating stays where it is. *)
Busy(c) == \E s \in Generating : convo[s] = conv(c)

Idle == Slot \ Generating
First(S) == {s \in S : \A t \in S : s <= t}
Mine(c) == {s \in Idle : convo[s] = conv(c) /\ named[s]}
Unused == {s \in Idle : ~used[s]}
Oldest == IF Idle = Slot THEN {Other(newest)} ELSE Idle

(* Fault: a prefill takes a slot whatever the slots hold of its own.       *)
PickSlotAnywhere(c) == IF Unused # {} THEN First(Unused) ELSE Oldest

(* _pick_slot: the slot of the conversation under the API's model id, one  *)
(* never used, the older.                                                  *)
PickSlot(c) ==
  IF ask[c].mode = "FOLLOW_UP" \/ Mine(c) # {} THEN First(Mine(c))
  ELSE IF Unused # {} THEN First(Unused) ELSE Oldest

(* _b_prefill up to the first chunk: the slot is bound and the barrier     *)
(* raised; a hit in the prefix cache restores the banks instead.  Whether  *)
(* the slot is dirty is not asked, not even for a FOLLOW_UP.               *)
Bind(c, s) ==
  /\ convo' = [convo EXCEPT ![s] = conv(c)] /\ named' = [named EXCEPT ![s] = TRUE]
  /\ bound' = [bound EXCEPT ![s] = c] /\ byConn' = [byConn EXCEPT ![c] = s]
  /\ used' = [used EXCEPT ![s] = TRUE] /\ newest' = s
  /\ stop' = [stop EXCEPT ![s] = FALSE] /\ dirty' = [dirty EXCEPT ![s] = FALSE]
  /\ gcancel' = FALSE
  /\ pf' = c /\ pslot' = s
  /\ patched' = IF ask[c].mode = "FOLLOW_UP" /\ dirty[s] THEN patched \cup {s}
                ELSE IF ask[c].mode = "FRESH" THEN patched \ {s} ELSE patched
  /\ \/ /\ ask[c].mode = "FRESH"
        /\ todo' = Chunks /\ rows' = [rows EXCEPT ![s] = RowsOf(conv(c), "part")]
        /\ FenceBeforePrefill("chunk")
        /\ UNCHANGED boundary
     \/ /\ ask[c].mode = "FRESH" /\ conv(c) \in Cached
        /\ todo' = 0 /\ rows' = [rows EXCEPT ![s] = RowsOf(conv(c), "whole")]
        /\ boundary' = [boundary EXCEPT ![s] = conv(c)]
        /\ FenceBeforePrefill("tail")
     \/ /\ ask[c].mode = "FOLLOW_UP"
        /\ FenceBeforePrefill("tail")
        /\ UNCHANGED <<todo, device>>
  /\ UNCHANGED <<clients, decode, raced, strays, troubles>>

Refuse(c) ==
  /\ Answer(c, "ended")
  /\ UNCHANGED <<ask, binding, flags, decode, device, prefill, gcancel, fence,
                 history, troubles>>

ServePrefill(c) ==
  /\ ask[c].mode # "SNAPSHOT"
  /\ \/ (Busy(c) \/ PickSlot(c) = {}) /\ Refuse(c)
     \/ ~Busy(c) /\ \E s \in PickSlot(c) : Bind(c, s)

(* A snapshot is restored to slot 0 only while no slot was ever used and   *)
(* nothing else waits.  It binds no connection and sets no model id.       *)
ServeSnapshot(c, waiting) ==
  /\ ask[c].mode = "SNAPSHOT"
  /\ IF waiting # << >> \/ (\E s \in Slot : used[s] \/ gen[s] # NoConn) THEN Refuse(c)
     ELSE /\ rows' = [rows EXCEPT ![0] = RowsOf(conv(c), "whole")]
          /\ convo' = [convo EXCEPT ![0] = conv(c)]
          /\ used' = [used EXCEPT ![0] = TRUE] /\ dirty' = [dirty EXCEPT ![0] = FALSE]
          /\ patched' = patched \ {0}
          /\ Answer(c, "ready")
          /\ UNCHANGED <<ask, byConn, named, bound, newest, stop, decode, boundary,
                         prefill, gcancel, fence, raced, strays, troubles>>

(* What the generate of connection c finds.                                *)
NoPrefill(c) == byConn[c] = NoSlot
Taken(c) == ~NoPrefill(c) /\ gen[byConn[c]] # NoConn
Unfit(c) == ~NoPrefill(c) /\ dirty[byConn[c]]

Attach(c, s) ==
  /\ gen' = [gen EXCEPT ![s] = c]
  /\ gstop' = [gstop EXCEPT ![s] = FALSE] /\ left' = [left EXCEPT ![s] = Cycles]
  /\ strays' = IF bound[s] = c THEN strays ELSE strays \cup {c}
  /\ UNCHANGED <<clients, binding, flags, device, prefill, gcancel, fence, patched, raced,
                 troubles>>

(* Fault: what a failed prefill left on the slot is no obstacle.           *)
ServeGenerateDirty(c) ==
  IF NoPrefill(c) \/ Taken(c) THEN Refuse(c) ELSE Attach(c, byConn[c])

ServeGenerate(c) ==
  IF NoPrefill(c) \/ Taken(c) \/ Unfit(c) THEN Refuse(c) ELSE Attach(c, byConn[c])

(* b_handle, with no prefill under way.                                    *)
Serve(e, waiting) ==
  CASE e.what = "generate" -> ServeGenerate(e.conn)
    [] OTHER -> ServePrefill(e.conn) \/ ServeSnapshot(e.conn, waiting)

----------------------------------------------------------------------------
(* The daemon's loop: what waited for a prefill first, then Q, then a step *)
(* of the slots that generate.                                             *)

HandlePending ==
  /\ dpc = "main" /\ pending # << >>
  /\ pending' = Tail(pending)
  /\ Serve(Head(pending), Tail(pending))
  /\ UNCHANGED <<queue, listener>>

HandleQueue ==
  /\ dpc = "main" /\ pending = << >> /\ queue # << >>
  /\ queue' = Tail(queue)
  /\ Serve(Head(queue), pending)
  /\ UNCHANGED <<pending, listener>>

MainStep ==
  /\ dpc = "main" /\ pending = << >> /\ queue = << >>
  /\ \/ BatchStep("main") /\ UNCHANGED troubles
     \/ StepFault(TRUE, "main")
  /\ UNCHANGED <<queues, listener, pf, pslot, todo, gcancel, history>>

(* A chunk of the prefill, and the node cached at its end, if any.         *)
Chunk ==
  /\ dpc = "chunk" /\ todo > 0 /\ ~stop[pslot] /\ ~gcancel
  /\ todo' = todo - 1 /\ dpc' = "drain"
  /\ boundary' \in {boundary, [boundary EXCEPT ![pslot] = conv(pf)]}
  /\ UNCHANGED <<clients, queues, listener, binding, flags, decode, rows, pf, pslot,
                 gcancel, fence, history, troubles>>

(* Fault: a request that finds pending full is dropped without a word.     *)
ParkQuietly(c) ==
  IF Len(pending) < MaxPending
  THEN pending' = Append(pending, Req(c, "prefill")) /\ UNCHANGED clients
  ELSE UNCHANGED <<pending, clients>>

(* _interleave: requests are served between chunks, but another prefill or *)
(* snapshot waits in pending.                                              *)
Park(c) ==
  IF Len(pending) < MaxPending
  THEN pending' = Append(pending, Req(c, "prefill")) /\ UNCHANGED clients
  ELSE UNCHANGED <<pending, ask>> /\ Answer(c, "ended")

Drain ==
  /\ dpc = "drain" /\ queue # << >>
  /\ queue' = Tail(queue)
  /\ LET e == Head(queue) IN
       IF e.what = "generate" THEN ServeGenerate(e.conn) /\ UNCHANGED pending
       ELSE Park(e.conn) /\ UNCHANGED <<binding, flags, decode, device, prefill, gcancel,
                                        fence, history, troubles>>
  /\ UNCHANGED listener

DrainStep ==
  /\ dpc = "drain" /\ queue = << >>
  /\ \/ BatchStep("chunk") /\ UNCHANGED troubles
     \/ StepFault(FALSE, "chunk")
     \/ /\ Generating = {} /\ dpc' = "chunk"
        /\ UNCHANGED <<clients, binding, flags, decode, device, fence, troubles>>
  /\ UNCHANGED <<queues, listener, pf, pslot, todo, gcancel, history>>

(* The end of a prefill, however it ends: the barrier goes.                *)
EndPrefill(to) ==
  /\ Answer(pf, to)
  /\ pf' = NoConn /\ pslot' = NoSlot /\ todo' = 0
  /\ UNCHANGED <<ask, queues, listener, byConn, named, bound, used, newest, stop,
                 decode, gcancel, fence, history>>

(* Fault: the boundary of the conversation before stays.                   *)
FreshBoundaryKept == boundary' \in {boundary, [boundary EXCEPT ![pslot] = conv(pf)]}

(* The boundary starts again, with a last node or with none.               *)
FreshBoundary == \E v \in {NoConv, conv(pf)} : boundary' = [boundary EXCEPT ![pslot] = v]

(* A FRESH prefill makes whole what it began; a FOLLOW_UP feeds on from    *)
(* what is there, and what was fed in part stays in part.                  *)
Filled(r) == IF dpc = "chunk" /\ r.how = "part" THEN "whole" ELSE r.how

Finish ==
  /\ \/ dpc = "chunk" /\ todo = 0 /\ FreshBoundary
     \/ dpc = "tail" /\ UNCHANGED boundary
  /\ rows' = [rows EXCEPT ![pslot] = RowsOf(@.of, Filled(@))]
  /\ dpc' = "main"
  /\ EndPrefill("ready")
  /\ UNCHANGED <<convo, dirty, troubles>>

Feeding == dpc = "tail" \/ (dpc = "chunk" /\ todo > 0)

(* A cancel, or a client that is gone, ends the prefill at a checkpoint.   *)
Abort ==
  /\ Feeding /\ (stop[pslot] \/ gcancel \/ Dead(pf))
  /\ convo' = [convo EXCEPT ![pslot] = NoConv]
  /\ dirty' = [dirty EXCEPT ![pslot] = TRUE]
  /\ rows' = [rows EXCEPT ![pslot].how = "part"]
  /\ dpc' = "main"
  /\ EndPrefill("failed")
  /\ UNCHANGED <<boundary, troubles>>

PrefillFault ==
  /\ Feeding /\ troubles < MaxTroubles
  /\ troubles' = troubles + 1
  /\ dirty' = [dirty EXCEPT ![pslot] = TRUE]
  /\ rows' = [rows EXCEPT ![pslot].how = "part"]
  /\ dpc' \in {"main", "exit"}
  /\ EndPrefill("failed")
  /\ UNCHANGED <<convo, boundary>>

(* A daemon that has left closes every connection.                         *)
Hangup(c) ==
  /\ dpc = "exit" /\ cli[c] \in {"prefilling", "generating"}
  /\ Answer(c, "ended")
  /\ UNCHANGED <<ask, queues, listener, binding, flags, decode, device, prefill,
                 gcancel, fence, history, troubles>>

----------------------------------------------------------------------------
NothingAsked == [conv |-> NoConv, mode |-> "none"]

Init ==
  /\ cli = [c \in Conn |-> "new"] /\ ask = [c \in Conn |-> NothingAsked]
  /\ queue = << >> /\ pending = << >> /\ purge = << >> /\ purging = NoConn
  /\ byConn = [c \in Conn |-> NoSlot]
  /\ convo = [s \in Slot |-> NoConv] /\ bound = [s \in Slot |-> NoConn]
  /\ named = [s \in Slot |-> FALSE]
  /\ used = [s \in Slot |-> FALSE] /\ newest = 1
  /\ dirty = [s \in Slot |-> FALSE] /\ stop = [s \in Slot |-> FALSE]
  /\ gen = [s \in Slot |-> NoConn] /\ gstop = [s \in Slot |-> FALSE]
  /\ left = [s \in Slot |-> 0]
  /\ rows = [s \in Slot |-> RowsOf(NoConv, "parked")]
  /\ boundary = [s \in Slot |-> NoConv]
  /\ dpc = "main" /\ pf = NoConn /\ pslot = NoSlot /\ todo = 0
  /\ gcancel = FALSE /\ cycles = 0 /\ spent = 0 /\ slips = 0 /\ fails = 0
  /\ patched = {} /\ raced = FALSE /\ strays = {} /\ troubles = 0

Daemon == \/ HandlePending \/ HandleQueue \/ MainStep
          \/ Chunk \/ Drain \/ DrainStep
          \/ Finish \/ Abort \/ PrefillFault

Next ==
  \/ \E c \in Conn : SendPrefill(c) \/ SendGenerate(c) \/ Cancel(c) \/ Close(c) \/ Hangup(c)
  \/ Purge
  \/ Daemon

(* The daemon's thread runs on, a listener's purge ends, a daemon that has *)
(* left is noticed; clients may stop anywhere.                             *)
Fairness == WF_vars(Daemon) /\ WF_vars(Purge) /\ WF_vars(\E c \in Conn : Hangup(c))

Spec == Init /\ [][Next]_vars /\ Fairness

----------------------------------------------------------------------------
(* Every variable keeps its type.                                          *)
TypeOK ==
  /\ cli \in [Conn -> Stages] /\ ask \in [Conn -> Ask]
  /\ queue \in Seq(Request) /\ pending \in Seq(Request) /\ purge \in Seq(Request)
  /\ Len(queue) <= QMax /\ purging \in Conn \cup {NoConn}
  /\ byConn \in [Conn -> Slot \cup {NoSlot}]
  /\ convo \in [Slot -> Conv \cup {NoConv}] /\ bound \in [Slot -> Conn \cup {NoConn}]
  /\ named \in [Slot -> BOOLEAN] /\ used \in [Slot -> BOOLEAN] /\ newest \in Slot
  /\ dirty \in [Slot -> BOOLEAN] /\ stop \in [Slot -> BOOLEAN]
  /\ gen \in [Slot -> Conn \cup {NoConn}] /\ gstop \in [Slot -> BOOLEAN]
  /\ left \in [Slot -> 0 .. Cycles]
  /\ rows \in [Slot -> Rows] /\ boundary \in [Slot -> Conv \cup {NoConv}]
  /\ dpc \in {"main", "chunk", "drain", "tail", "exit"}
  /\ pf \in Conn \cup {NoConn} /\ pslot \in Slot \cup {NoSlot} /\ todo \in 0 .. Chunks
  /\ gcancel \in BOOLEAN /\ cycles \in Nat /\ spent \in Nat /\ slips \in Nat
  /\ fails \in 0 .. FailLimit /\ patched \subseteq Slot
  /\ raced \in BOOLEAN /\ strays \subseteq Conn
  /\ troubles \in 0 .. MaxTroubles

(* What a connection is about to hear is decoded from the rows of its own  *)
(* conversation, never from another's, and these were fed whole, across    *)
(* evictions, cancels, failed prefills and cycles in the middle of another *)
(* prefill (_b_generate's guards, _process_emit's test of the connection). *)
(* Rows fed in part are heard only on a slot that was dirty and took a     *)
(* FOLLOW_UP all the same, which single-stream serving refuses and         *)
(* _b_prefill does not; the code leaves two more ways for rows that were   *)
(* whole: the cycles of a generate that found its slot bound to another,   *)
(* and a step that raised, have gone over them (disturbed).  And no purge  *)
(* of pending has raced the daemon.                                        *)
HonestStreams ==
  raced \/ \A s \in Generating : bound[s] = gen[s] =>
    /\ rows[s].of = conv(gen[s])
    /\ rows[s].how = "whole" \/ rows[s].how = "disturbed" \/ (rows[s].how = "part" /\ s \in patched)

(* No conversation is resident on both slots under the API's model id:     *)
(* _pick_slot finds its slot, the belt of _b_prefill refuses while that    *)
(* slot generates.  A snapshot's slot has no model id, so a prefill of its *)
(* conversation does not find it and takes another.                        *)
ConvOnOneSlot == convo[0] = convo[1] => convo[0] = NoConv \/ ~(named[0] /\ named[1])

(* The device never runs more cycles without a rebuild than the fence's    *)
(* period and the failures it tolerates allow, over any mix of generates,  *)
(* prefills and failed fences (_fence_all_rebuild counts again only on     *)
(* success), and one more for every step that raised after its graphs were *)
(* submitted, for such a step may go uncounted and comes to no fence.      *)
RebuildBudget == spent < RebuildEvery + FailLimit + slips

(* A node cached at the end of a turn continues no other conversation's    *)
(* chain, although a slot that is filled anew keeps the old boundary until *)
(* its prefill ends (_b_fresh, _pc_turn_end_st), unless the slot took a    *)
(* FOLLOW_UP while dirty, the generate found its slot bound to another, or *)
(* a purge of pending has brought a request back.                          *)
TurnEndOwnChain ==
  [][\A s \in Slot : ~raced /\ gen[s] # NoConn /\ boundary'[s] # boundary[s]
                      => boundary[s] = NoConv \/ s \in patched \/ gen[s] \in strays]_vars

(* No client waits for ever: every prefill is answered and every generate  *)
(* comes to an end its client hears of, whether it was served, parked,     *)
(* aborted or failed (_b_prefill, _finish_gen), unless its generate found  *)
(* the slot bound to another or a purge of pending raced the daemon.       *)
EveryoneAnswered ==
  \A c \in Conn : []<>(cli[c] \notin {"prefilling", "generating"} \/ c \in strays \/ raced)
=============================================================================
