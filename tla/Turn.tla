-------------------------------- MODULE Turn --------------------------------
(***************************************************************************)
(* The turns of one conversation, as the API serves them                   *)
(* (engine/api_server.py): the claim of the idempotency key, the choice    *)
(* between FOLLOW_UP and FRESH, the engine session in an executor thread   *)
(* with the mirror of what the engine was fed, the events of the stream    *)
(* and the release.                                                        *)
(*                                                                         *)
(* The sessions of the conversation are taken one at a time: the permits   *)
(* and the conversation lock are module Admission's, which also shows      *)
(* where they fail.  The engine is the slot that holds the conversation,   *)
(* as the API sees it through status and the replies of an RPC.  Lengths   *)
(* count a prompt, a turn's delta and a cycle's tokens as one each.        *)
(***************************************************************************)
EXTENDS Integers, Sequences, FiniteSets, SequencesExt

CONSTANTS
  Req,        \* requests, one turn each
  NoReq,
  Streams,    \* the requests with stream = true
  Keys,       \* idempotency keys
  NoKey,
  KeyOf,      \* the key of a request, or NoKey
  EvqMax,     \* EVQ_MAX
  MaxCycles,  \* bound: cycles of a session the API reads
  MaxFaults   \* bound: engine faults, steps that raise, displacements, lost drains

ASSUME NoneAssumption == NoReq \notin Req /\ NoKey \notin Keys
ASSUME RequestAssumption == Streams \subseteq Req /\ KeyOf \in [Req -> Keys \cup {NoKey}]
ASSUME SizesAssumption == EvqMax \in Nat \ {0} /\ {MaxCycles, MaxFaults} \subseteq Nat

VARIABLES
  pc,       \* a request: "new" | "waiting" | "running" | "refused" | "done" | "failed"
  knows,    \* the turn whose reply the client's history ends with
  idem,     \* _IDEMP: the claim on a key
  aged,     \* history: a claim outlived its TTL while its request was under way
  now,      \* the request whose session runs
  phase,    \* its thread: see Phases
  mode,     \* "FRESH" | "FOLLOW_UP"
  after,    \* where the thread goes on once its event is queued
  base,     \* len(ids2)
  read,     \* cycles it has read
  end,      \* how the session ends: "open" | "length" | "stop" | "cancelled" | "error"
  mirror,   \* RESIDENTS: the turn recorded, the length of fed, reusable
  eng,      \* the slot: the turn whose rows it holds, their length, dirty, and
            \* what they hold that the turn's client was not shown: see Tails
  late,     \* a generate the API no longer reads has not ended
  outrun,   \* history: it has changed the slot since the decision for FOLLOW_UP
  evq,      \* the stream's queue of events
  kind,     \* the kind of the event the thread is queueing
  pend,     \* text and reasoning that wait to be queued
  stalls, dead,
  cancel,   \* cancel_flag
  gone,     \* history: the client has disconnected
  gpc,      \* the generator: "off" | "queue" | "dead" | "done" | "cancel" | "await" | its end
  made,     \* history: events of each kind made
  got,      \* history: what the client received of each kind
  faults    \* the bound's counter

requests == <<pc, knows>>
claims   == <<idem, aged>>
engine   == <<eng, late, outrun>>
session  == <<now, phase, mode, after, base, read, end>>
events   == <<evq, kind, pend, stalls, dead, made>>
client   == <<gone, gpc, got>>
vars == <<pc, knows, idem, aged, now, phase, mode, after, base, read, end, mirror, eng, late,
          outrun, evq, kind, pend, stalls, dead, cancel, gone, gpc, made, got, faults>>

(* "first" is the send of the generate and the prefill's own token, "bail" *)
(* the drain that token may lead to, before the try of the event loop.     *)
Phases == {"none", "prefill", "first", "decode", "put", "check", "drain", "bail", "over"}

(* Nothing; tokens past the cap of a turn that ended at it; tokens past a  *)
(* stop, a cancel or a fault; a cycle that raised and nobody has counted.  *)
Tails == {"none", "cap", "stop", "torn"}

Kind == {"text", "reasoning"}
Piece == 1 .. MaxCycles + 1
Ends == {"finished", "errored", "closed", "left"}

NoClaim == [state |-> "free", by |-> NoReq, old |-> FALSE]
NoMirror == [of |-> NoReq, fed |-> 0, reusable |-> FALSE]
NoSlot == [of |-> NoReq, len |-> 0, dirty |-> FALSE, tail |-> "none"]
Nothing == [k \in Kind |-> << >>]

Active(r) == pc[r] \in {"waiting", "running"}
Fault == faults < MaxFaults /\ faults' = faults + 1

----------------------------------------------------------------------------
(* The idempotency key.                                                    *)

(* Fault: the age of a claim is not looked at, nor is its state.           *)
ClaimableAlways(k) == TRUE

(* _idemp_claim refuses a key that is in flight and not older than its TTL.*)
Claimable(k) == idem[k].state # "in_flight" \/ idem[k].old

Claim(r) == idem' = [idem EXCEPT ![KeyOf[r]] = [state |-> "in_flight", by |-> r, old |-> FALSE]]

(* _idemp_done, whoever holds the claim by now.                            *)
Settled(r) ==
  IF KeyOf[r] = NoKey THEN idem
  ELSE [idem EXCEPT ![KeyOf[r]] = [state |-> "done", by |-> r, old |-> FALSE]]

(* TTL seconds pass.                                                       *)
Age(k) ==
  /\ idem[k].state # "free" /\ ~idem[k].old
  /\ idem' = [idem EXCEPT ![k].old = TRUE]
  /\ aged' = (aged \/ (idem[k].state = "in_flight" /\ Active(idem[k].by)))
  /\ UNCHANGED <<requests, session, mirror, engine, events, cancel, client, faults>>

(* A request arrives with a history that ends with some turn's reply.      *)
Arrive(r) ==
  /\ pc[r] = "new"
  /\ \E q \in {q \in Req : pc[q] \in {"done", "failed"}} \cup {NoReq} :
       knows' = [knows EXCEPT ![r] = q]
  /\ \/ /\ KeyOf[r] = NoKey
        /\ pc' = [pc EXCEPT ![r] = "waiting"] /\ UNCHANGED idem
     \/ /\ KeyOf[r] # NoKey /\ Claimable(KeyOf[r])
        /\ pc' = [pc EXCEPT ![r] = "waiting"] /\ Claim(r)
     \/ /\ KeyOf[r] # NoKey /\ ~Claimable(KeyOf[r])
        /\ pc' = [pc EXCEPT ![r] = "refused"] /\ UNCHANGED idem
  /\ UNCHANGED <<aged, session, mirror, engine, events, cancel, client, faults>>

(* A queue or lock timeout, an engine that is down, a prompt too long: the *)
(* request fails, its claim stays.                                         *)
GiveUp(r) ==
  /\ pc[r] = "waiting" /\ Fault
  /\ pc' = [pc EXCEPT ![r] = "failed"]
  /\ UNCHANGED <<knows, claims, session, mirror, engine, events, cancel, client>>

----------------------------------------------------------------------------
(* The prefix decision and the prefill.                                    *)

(* The mirror is reusable, the client's history goes on from it, and the   *)
(* slot is there and has fed as much.                                      *)
Matches(r) ==
  /\ eng.of # NoReq /\ eng.len = mirror.fed
  /\ mirror.reusable /\ mirror.of = knows[r] /\ mirror.fed > 0

(* Fault: what a failed session left on the slot is no obstacle.           *)
FollowsDirty(r) == Matches(r)

(* _decide_prefix: and the slot is clean.                                  *)
Follows(r) == Matches(r) /\ ~eng.dirty

Begin(r) ==
  /\ pc[r] = "waiting" /\ now = NoReq
  /\ pc' = [pc EXCEPT ![r] = "running"]
  /\ now' = r /\ phase' = "prefill" /\ end' = "open" /\ read' = 0 /\ after' = "decode"
  /\ mode' = IF Follows(r) THEN "FOLLOW_UP" ELSE "FRESH"
  /\ base' = IF Follows(r) THEN mirror.fed + 1 ELSE 1
  /\ mirror' = [mirror EXCEPT !.reusable = FALSE]
  /\ evq' = << >> /\ kind' = "text" /\ pend' = Nothing /\ stalls' = 0 /\ dead' = FALSE /\ made' = [k \in Kind |-> 0]
  /\ cancel' = FALSE /\ gone' = FALSE /\ got' = Nothing
  /\ gpc' = IF r \in Streams THEN "queue" ELSE "off"
  /\ UNCHANGED <<knows, claims, engine, faults>>

(* The prefill is done: the mirror follows the engine.  A generate that    *)
(* still runs on the slot is in the way.                                   *)
PrefillOk ==
  /\ phase = "prefill" /\ ~late /\ (mode = "FOLLOW_UP" => eng.of # NoReq)
  /\ phase' = "first"
  /\ eng' = IF mode = "FOLLOW_UP"
            THEN [of |-> now, len |-> eng.len + 1, dirty |-> FALSE,
                  tail |-> IF eng.tail = "torn" THEN "torn" ELSE "none"]
            ELSE [of |-> now, len |-> 1, dirty |-> FALSE, tail |-> "none"]
  /\ mirror' = [of |-> now, fed |-> base, reusable |-> TRUE]
  /\ UNCHANGED <<requests, claims, now, mode, after, base, read, end, late, outrun, events,
                 cancel, client, faults>>

(* The slot was taken between the decision and the prefill: once more,     *)
(* FRESH.                                                                  *)
PrefillRefused ==
  /\ phase = "prefill" /\ mode = "FOLLOW_UP" /\ eng.of = NoReq
  /\ mirror' = NoMirror
  /\ mode' = "FRESH" /\ base' = 1
  /\ UNCHANGED <<requests, claims, now, phase, after, read, end, engine, events, cancel, client,
                 faults>>

(* The prefill fails: the slot is dirty, or unbound, the mirror reset; or  *)
(* it is refused because a generate still runs there.                      *)
PrefillFails ==
  /\ phase = "prefill"
  /\ \/ late /\ UNCHANGED <<eng, faults>>
     \/ /\ Fault
        /\ eng' \in {NoSlot, [of |-> now, len |-> 1, dirty |-> TRUE, tail |-> "none"],
                     IF eng.of = NoReq THEN NoSlot ELSE [eng EXCEPT !.dirty = TRUE]}
  /\ mirror' = NoMirror
  /\ phase' = "over" /\ end' = "error"
  /\ UNCHANGED <<requests, claims, now, mode, after, base, read, late, outrun, events, cancel,
                 client>>

(* Another conversation takes the slot, or the daemon restarts.            *)
Displace ==
  /\ Fault /\ eng.of # NoReq /\ phase \in {"none", "prefill", "over"}
  /\ eng' = NoSlot /\ late' = FALSE
  /\ UNCHANGED <<requests, claims, session, mirror, outrun, events, cancel, client>>

(* RESIDENTS is full and the conversation is the one used longest ago.     *)
EvictMirror ==
  /\ now = NoReq /\ mirror # NoMirror
  /\ mirror' = NoMirror
  /\ UNCHANGED <<requests, claims, session, engine, events, cancel, client, faults>>

----------------------------------------------------------------------------
(* The generate: cycles, and what the API makes of each.                   *)

(* The mirror's messages end with the reply, if the turn may be followed.  *)
Recorded(fed, reusable) ==
  [of |-> IF reusable THEN now ELSE NoReq, fed |-> fed, reusable |-> reusable]

(* What tokens come to: more to come; tokens past the visible cap,         *)
(* mirrored a second time; a stop past the cap; a stop before it, after    *)
(* which the engine has fed what the client will not show; the cap itself. *)
Outcome == {"on", "overflow", "past", "stop", "cap"}

ReusableAfter(how) == how # "stop"

EndAfter(how) == CASE how = "on" -> "open" [] how = "stop" -> "stop" [] OTHER -> "length"

(* The slot once n more tokens were fed, the last past the cap.            *)
PastCap(n) ==
  [eng EXCEPT !.len = @ + n, !.tail = IF n > 0 /\ @ = "none" THEN "cap" ELSE @]

(* The event of the cycle, if its tokens make one: it is queued before the *)
(* thread goes on, and dropped once the stream is dead.                    *)
Make(k, next) ==
  IF k = "none" \/ now \notin Streams \/ dead
  THEN phase' = next /\ UNCHANGED <<kind, pend, made, after>>
  ELSE /\ phase' = "put" /\ after' = next /\ kind' = k
       /\ made' = [made EXCEPT ![k] = @ + 1]
       /\ pend' = [pend EXCEPT ![k] = Append(@, made[k] + 1)]

(* The generate is sent and the prefill's own token shown, which may be a  *)
(* stop or all the cap allows: the turn then ends in terminal_drain.       *)
First ==
  /\ phase = "first"
  /\ \E how \in {"on", "stop", "cap"}, k \in Kind \cup {"none"} :
       /\ how = "cap" => k = "text"
       /\ end' = EndAfter(how)
       /\ mirror' = [mirror EXCEPT !.reusable = ReusableAfter(how)]
       /\ eng' = IF how = "stop" THEN [eng EXCEPT !.tail = "stop"] ELSE eng
       /\ Make(k, IF how = "on" THEN "decode" ELSE "bail")
  /\ UNCHANGED <<requests, claims, now, mode, base, read, late, outrun, evq, stalls, dead, cancel,
                 client, faults>>

Cycle ==
  /\ phase = "decode" /\ read < MaxCycles
  /\ read' = read + 1
  /\ \E how \in Outcome, k \in Kind \cup {"none"} :
       /\ k = "reasoning" => made["text"] = 0
       /\ eng' = CASE how = "stop" -> [eng EXCEPT !.len = @ + 1, !.tail = "stop"]
                   [] how \in {"overflow", "past"} -> PastCap(1)
                   [] OTHER -> [eng EXCEPT !.len = @ + 1]
       /\ mirror' = [mirror EXCEPT !.fed = @ + 1 + (IF how = "overflow" THEN 1 ELSE 0),
                                   !.reusable = ReusableAfter(how)]
       /\ end' = EndAfter(how)
       /\ Make(k, IF how = "on" THEN "check" ELSE "drain")
  /\ UNCHANGED <<requests, claims, now, mode, base, late, outrun, evq, stalls, dead, cancel, client,
                 faults>>

(* cancel_check, after the events of the cycle.                            *)
Check ==
  /\ phase = "check"
  /\ IF cancel
     THEN /\ phase' = "drain" /\ end' = "stop"
          /\ mirror' = [mirror EXCEPT !.reusable = FALSE] /\ eng' = [eng EXCEPT !.tail = "stop"]
     ELSE phase' = "decode" /\ UNCHANGED <<end, mirror, eng>>
  /\ UNCHANGED <<requests, claims, now, mode, after, base, read, late, outrun, events, cancel,
                 client, faults>>

(* terminal_drain, after the cancel was sent: the terminal event is read   *)
(* and what the engine fed meanwhile mirrored, although the client will    *)
(* not show it.  A drain that times out leaves the generate to itself.     *)
MaxOf(x, y) == IF x > y THEN x ELSE y

Drain ==
  /\ phase \in {"drain", "bail"}
  /\ phase' = "over"
  /\ \/ \E n \in 0 .. 1 :
          /\ eng' = PastCap(n)
          /\ mirror' = Recorded(MaxOf(mirror.fed, eng.len + n), mirror.reusable)
          /\ UNCHANGED <<late, faults>>
     \/ /\ Fault
        /\ mirror' = Recorded(mirror.fed, mirror.reusable)
        /\ late' = TRUE /\ UNCHANGED eng
  /\ UNCHANGED <<requests, claims, now, mode, after, base, read, end, outrun, events, cancel, client>>

(* That generate ends, with a cycle more or without, or raises, whatever   *)
(* the API does meanwhile.                                                 *)
LateEnd ==
  /\ late
  /\ late' = FALSE
  /\ eng' \in {eng, PastCap(1), [eng EXCEPT !.dirty = TRUE]}
  /\ outrun' = (outrun \/ (phase = "prefill" /\ mode = "FOLLOW_UP" /\ eng' # eng))
  /\ UNCHANGED <<requests, claims, session, mirror, events, cancel, client, faults>>

(* The engine's own terminal event: the budget is spent, or another has    *)
(* cancelled the generate, or a step has raised.                           *)
Done ==
  /\ phase = "decode"
  /\ phase' = "over"
  /\ \/ /\ end' = "length"
        /\ mirror' = Recorded(MaxOf(mirror.fed, eng.len), mirror.reusable)
        /\ UNCHANGED <<eng, faults>>
     \/ /\ Fault
        /\ end' = "cancelled"
        /\ mirror' = Recorded(mirror.fed, FALSE) /\ eng' = [eng EXCEPT !.tail = "stop"]
  /\ UNCHANGED <<requests, claims, now, mode, after, base, read, late, outrun, events, cancel,
                 client>>

(* A batch step raises between the chunks of another prefill, or under a   *)
(* drain: no slot is marked, no error sent.                                *)
Tear ==
  /\ phase \in {"decode", "put", "check", "drain", "bail"} /\ Fault
  /\ eng' = [eng EXCEPT !.tail = IF @ = "stop" THEN @ ELSE "torn"]
  /\ UNCHANGED <<requests, claims, session, mirror, late, outrun, events, cancel, client>>

(* The engine replies an error to the generate, closes the connection or   *)
(* does not reply.  The event loop's handlers give the mirror up; the send *)
(* of the generate and the drain of the first token are outside them, and  *)
(* the mirror is recorded as it stands.                                    *)
GenerateFails ==
  /\ phase \in {"first", "decode", "drain", "bail"} /\ Fault
  /\ phase' = "over" /\ end' = "error"
  /\ IF phase \in {"decode", "drain"}
     THEN /\ mirror' = Recorded(mirror.fed, FALSE)
          /\ \/ eng' = NoSlot /\ UNCHANGED late
             \/ \E d \in BOOLEAN, n \in 0 .. 1 :
                  /\ eng' = [eng EXCEPT !.len = @ + n, !.dirty = d, !.tail = "stop"]
                  /\ late' = (phase = "decode" /\ ~d)
     ELSE /\ mirror' = Recorded(mirror.fed, mirror.reusable)
          /\ eng' \in {NoSlot, eng, [eng EXCEPT !.dirty = TRUE]}
          /\ UNCHANGED late
  /\ UNCHANGED <<requests, claims, now, mode, after, base, read, outrun, events, cancel, client>>

----------------------------------------------------------------------------
(* The stream: the thread queues events, the generator sends them.         *)

(* Fault: the queue has no bound.                                          *)
RoomAlways == TRUE

Room == Len(evq) < EvqMax

(* There is room: what waits of the kind goes as one event.                *)
PutOk ==
  /\ phase = "put" /\ Room
  /\ evq' = Append(evq, [kind |-> kind, what |-> pend[kind]])
  /\ pend' = [pend EXCEPT ![kind] = << >>]
  /\ stalls' = 0 /\ phase' = after
  /\ UNCHANGED <<requests, claims, now, mode, after, base, read, end, mirror, engine, kind, dead,
                 made, cancel, client, faults>>

(* Fault: the put has no timeout.                                          *)
PutForever ==
  /\ phase = "put" /\ ~Room
  /\ UNCHANGED vars

(* The queue stays full: the event waits, after two of them the stream is  *)
(* dead and the session cancelled.                                         *)
PutFull ==
  /\ phase = "put" /\ ~Room
  /\ stalls' = stalls + 1 /\ dead' = (stalls' >= 2)
  /\ cancel' = (cancel \/ dead') /\ phase' = after
  /\ UNCHANGED <<requests, claims, now, mode, after, base, read, end, mirror, engine, evq, kind,
                 pend, made, client, faults>>

(* The generator drains the queue, then looks at dead, at the session's    *)
(* end and at the cancel flag, one after the other.                        *)
GenSend ==
  /\ gpc = "queue" /\ evq # << >>
  /\ got' = [got EXCEPT ![Head(evq).kind] = @ \o Head(evq).what]
  /\ evq' = Tail(evq)
  /\ UNCHANGED <<requests, claims, session, mirror, engine, kind, pend, stalls, dead, made, cancel,
                 gone, gpc, faults>>

GenGoes(from, to) ==
  /\ gpc = from /\ gpc' = to
  /\ UNCHANGED <<requests, claims, session, mirror, engine, events, cancel, gone, got, faults>>

(* What the queue holds of a kind.                                         *)
Queued(k) ==
  FlattenSeq([i \in 1 .. Len(evq) |-> IF evq[i].kind = k THEN evq[i].what ELSE << >>])

(* Fault: what waits to be queued is not sent.                             *)
GenFlushQueue ==
  /\ got' = [k \in Kind |-> got[k] \o Queued(k)]
  /\ evq' = << >> /\ UNCHANGED pend

(* The session is over: the rest of the queue, and what still waits.       *)
GenFlush ==
  /\ got' = [k \in Kind |-> got[k] \o Queued(k) \o pend[k]]
  /\ evq' = << >> /\ pend' = Nothing

GenDone ==
  /\ gpc = "done" /\ phase = "over"
  /\ gpc' = "await"
  /\ GenFlush
  /\ UNCHANGED <<requests, claims, session, mirror, engine, kind, stalls, dead, made, cancel,
                 gone, faults>>

GenStep ==
  \/ GenSend
  \/ evq = << >> /\ GenGoes("queue", "dead")
  \/ dead /\ GenGoes("dead", "errored")
  \/ ~dead /\ GenGoes("dead", "done")
  \/ GenDone
  \/ phase # "over" /\ GenGoes("done", "cancel")
  \/ cancel /\ GenGoes("cancel", "await")
  \/ ~cancel /\ GenGoes("cancel", "queue")
  \/ phase = "over" /\ end = "error" /\ GenGoes("await", "errored")
  \/ phase = "over" /\ end # "error" /\ GenGoes("await", "finished")

(* The client leaves: the watcher arms the cancel; the generator may be    *)
(* closed under it.                                                        *)
Disconnect ==
  /\ now # NoReq /\ ~gone
  /\ gone' = TRUE /\ cancel' = TRUE
  /\ gpc' \in {gpc} \cup (IF gpc \in Ends \cup {"off"} THEN {} ELSE {"closed"})
  /\ UNCHANGED <<requests, claims, session, mirror, engine, events, got, faults>>

----------------------------------------------------------------------------
(* The end of a request.                                                   *)

Clear ==
  /\ now' = NoReq /\ phase' = "none" /\ mode' = "FRESH" /\ after' = "decode"
  /\ base' = 0 /\ read' = 0 /\ end' = "open"
  /\ evq' = << >> /\ kind' = "text" /\ pend' = Nothing /\ stalls' = 0 /\ dead' = FALSE
  /\ made' = [k \in Kind |-> 0] /\ cancel' = FALSE /\ gone' = FALSE
  /\ gpc' = "off" /\ got' = Nothing /\ outrun' = FALSE

(* A plain answer: the claim is settled only by success.                   *)
Reply ==
  /\ phase = "over" /\ now \notin Streams
  /\ pc' = [pc EXCEPT ![now] = IF end = "error" THEN "failed" ELSE "done"]
  /\ idem' = IF end = "error" THEN idem ELSE Settled(now)
  /\ Clear
  /\ UNCHANGED <<knows, aged, mirror, eng, late, faults>>

(* release_slot, by the generator's end or, once the session is over and a *)
(* grace has passed, by the slot guard.                                    *)
Release ==
  /\ phase = "over" /\ now \in Streams
  /\ pc' = [pc EXCEPT ![now] = IF gpc = "finished" THEN "done" ELSE "failed"]
  /\ idem' = Settled(now)
  /\ Clear
  /\ UNCHANGED <<knows, aged, mirror, eng, late, faults>>

----------------------------------------------------------------------------
Init ==
  /\ pc = [r \in Req |-> "new"] /\ knows = [r \in Req |-> NoReq]
  /\ idem = [k \in Keys |-> NoClaim] /\ aged = FALSE
  /\ now = NoReq /\ phase = "none" /\ mode = "FRESH" /\ after = "decode"
  /\ base = 0 /\ read = 0 /\ end = "open"
  /\ mirror = NoMirror /\ eng = NoSlot /\ late = FALSE /\ outrun = FALSE
  /\ evq = << >> /\ kind = "text" /\ pend = Nothing /\ stalls = 0 /\ dead = FALSE
  /\ made = [k \in Kind |-> 0] /\ cancel = FALSE /\ gone = FALSE
  /\ gpc = "off" /\ got = Nothing /\ faults = 0

Thread ==
  \/ PrefillOk \/ PrefillRefused \/ PrefillFails
  \/ First \/ Cycle \/ Check \/ Drain \/ Done \/ GenerateFails
  \/ PutOk \/ PutFull

Next ==
  \/ \E r \in Req : Arrive(r) \/ GiveUp(r) \/ Begin(r)
  \/ \E k \in Keys : Age(k)
  \/ Thread \/ GenStep \/ Reply \/ Release
  \/ Displace \/ EvictMirror \/ LateEnd \/ Tear \/ Disconnect

(* The executor's thread runs on: the socket and the queue have timeouts.  *)
(* The handler replies and the guard fires.  Clients may stop reading, so  *)
(* the generator need not go on.                                           *)
Fairness == WF_vars(Thread) /\ WF_vars(Reply \/ Release)

Spec == Init /\ [][Next]_vars /\ Fairness

----------------------------------------------------------------------------
(* Every variable keeps its type.                                          *)
TypeOK ==
  /\ pc \in [Req -> {"new", "waiting", "running", "refused", "done", "failed"}]
  /\ knows \in [Req -> Req \cup {NoReq}]
  /\ idem \in [Keys -> [state : {"free", "in_flight", "done"}, by : Req \cup {NoReq}, old : BOOLEAN]]
  /\ aged \in BOOLEAN /\ now \in Req \cup {NoReq}
  /\ phase \in Phases
  /\ mode \in {"FRESH", "FOLLOW_UP"} /\ after \in {"decode", "check", "drain", "bail"}
  /\ base \in Nat /\ read \in 0 .. MaxCycles
  /\ end \in {"open", "length", "stop", "cancelled", "error"}
  /\ mirror \in [of : Req \cup {NoReq}, fed : Nat, reusable : BOOLEAN]
  /\ eng \in [of : Req \cup {NoReq}, len : Nat, dirty : BOOLEAN, tail : Tails]
  /\ late \in BOOLEAN /\ outrun \in BOOLEAN
  /\ Len(evq) <= EvqMax /\ evq \in Seq([kind : Kind, what : Seq(Piece)])
  /\ kind \in Kind /\ pend \in [Kind -> Seq(Piece)]
  /\ stalls \in 0 .. 2 /\ dead \in BOOLEAN /\ cancel \in BOOLEAN /\ gone \in BOOLEAN
  /\ gpc \in {"off", "queue", "dead", "done", "cancel", "await"} \cup Ends
  /\ made \in [Kind -> 0 .. MaxCycles + 1] /\ got \in [Kind -> Seq(Piece)]
  /\ faults \in 0 .. MaxFaults

(* A FOLLOW_UP the engine accepts extends exactly the rows of the turn the *)
(* client's history ends with: the slot still holds that turn, clean and   *)
(* as long as the mirror has counted, after displaced slots, faults, lost  *)
(* drains, evicted mirrors and sessions that failed (_decide_prefix, the   *)
(* reusable flag of _run_engine_sync).  Rows its client was not shown are  *)
(* only the tail past the cap of a turn that ended there, which the code   *)
(* keeps on purpose, never what followed a stop, a cancel or a fault of    *)
(* the event loop; but a cycle that raised unreported stays too (torn).    *)
(* Nor does the code see a generate that it has stopped reading end        *)
(* between the decision and the prefill (outrun).                          *)
FollowUpHonest ==
  [][(phase = "prefill" /\ mode = "FOLLOW_UP" /\ phase' = "first")
       => \/ outrun
          \/ /\ eng.of = knows[now] /\ eng.len + 1 = base
             /\ ~eng.dirty /\ eng.tail # "stop"]_vars

(* Of the requests of one key at most one is under way, until a claim has  *)
(* outlived its TTL: claims are released once, by success or by the end of *)
(* the stream (_idemp_claim, _idemp_done).                                 *)
OneRunPerKey ==
  aged \/ \A q, r \in Req :
            q # r /\ KeyOf[q] = KeyOf[r] /\ KeyOf[q] # NoKey => ~(Active(q) /\ Active(r))

(* A stream that ends with a finish chunk has delivered every piece of     *)
(* text and of reasoning once and in order, however full the queue was     *)
(* meanwhile, unless it was found dead or its client has gone              *)
(* (_make_stream_events, gen).                                             *)
ExactDelivery ==
  gpc = "finished" /\ ~dead /\ ~gone
    => \A k \in Kind : got[k] = [i \in 1 .. made[k] |-> i]

(* A session that has begun ends and gives its slot back, although its     *)
(* client stops reading: a full queue ends in a cancel, the guard does     *)
(* what the generator does not (_make_stream_events, _slot_guard).         *)
SlotReturned == []<>(now = NoReq)
=============================================================================
