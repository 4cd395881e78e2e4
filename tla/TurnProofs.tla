----------------------------- MODULE TurnProofs -----------------------------
(***************************************************************************)
(* Theorems about the turns of one conversation (module Turn): a FOLLOW_UP *)
(* extends the rows the client knows, a key has one run at a time, and a   *)
(* stream that ends normally has delivered all it made, once.              *)
(*                                                                         *)
(* The first two rest on the mirror, the slot and the claims alone         *)
(* (TurnInv, Claims); the stream's queue and what the client received are  *)
(* typed after them (EventInv), and what was made of a kind is accounted   *)
(* for piece by piece (DeliveryInv).                                       *)
(***************************************************************************)
EXTENDS Turn, Flattening, TLAPS

Mirror == [of : Req \cup {NoReq}, fed : Nat, reusable : BOOLEAN]
Engine == [of : Req \cup {NoReq}, len : Nat, dirty : BOOLEAN, tail : Tails]

(* The part of the state the two theorems speak of keeps its type.         *)
CoreType ==
  /\ pc \in [Req -> {"new", "waiting", "running", "refused", "done", "failed"}]
  /\ knows \in [Req -> Req \cup {NoReq}]
  /\ now \in Req \cup {NoReq}
  /\ phase \in Phases
  /\ mode \in {"FRESH", "FOLLOW_UP"} /\ after \in {"decode", "check", "drain", "bail"}
  /\ base \in Nat
  /\ mirror \in Mirror /\ eng \in Engine
  /\ outrun \in BOOLEAN

(* A session belongs to a request that runs, and to none other.            *)
NowInv ==
  /\ phase = "none" <=> now = NoReq
  /\ \A r \in Req : pc[r] = "running" <=> r = now

Generating == {"first", "decode", "put", "check", "drain", "bail"}

(* The session has met no end yet, or its thread comes back to it so.      *)
Going ==
  \/ phase \in {"first", "decode", "check"}
  \/ phase = "put" /\ after \in {"decode", "check"}

(* While the engine decodes, slot and mirror are those of the session's    *)
(* turn, and nothing follows a stop until there is one.  A mirror that may *)
(* be followed is of the turn whose rows the slot holds, and they end      *)
(* before any stop, unless the slot is gone; it may be dirty.  A FOLLOW_UP *)
(* under way was decided on such a mirror and a clean slot, which only a   *)
(* generate that outruns it can have changed.                              *)
MirrorInv ==
  /\ phase \in Generating => mirror.of = now /\ eng.of = now
  /\ Going => eng.tail # "stop"
  /\ mirror.reusable =>
       /\ mirror.of # NoReq
       /\ eng.of = NoReq \/ (eng.of = mirror.of /\ eng.tail # "stop")
  /\ phase = "prefill" /\ mode = "FOLLOW_UP" =>
       \/ eng.of = NoReq
       \/ outrun
       \/ eng.of = knows[now] /\ ~eng.dirty /\ eng.tail # "stop" /\ eng.len + 1 = base

TurnInv == CoreType /\ NowInv /\ MirrorInv

----------------------------------------------------------------------------
(* The invariant of slot and mirror, one lemma for the actions of a part.  *)

(* A mirror that is barred keeps its turn and its counts.                  *)
LEMMA BarMirror ==
  ASSUME NEW m \in Mirror, NEW n, n = [m EXCEPT !.reusable = FALSE]
  PROVE  n \in Mirror /\ n.of = m.of /\ n.fed = m.fed /\ n.reusable = FALSE
<1>1. n \in Mirror BY Zenon DEF Mirror
<1>2. n.of = m.of /\ n.fed = m.fed BY SMT DEF Mirror
<1>3. n.reusable = FALSE BY SMT DEF Mirror
<1>q. QED BY <1>1, <1>2, <1>3

(* A slot that grows, is marked dirty or gets another tail keeps its turn. *)
Changed(m, l, d, t) == [of |-> m.of, len |-> l, dirty |-> d, tail |-> t]

LEMMA ChangedEngine ==
  ASSUME NEW m \in Engine, NEW l \in Nat, NEW d \in BOOLEAN, NEW t \in Tails
  PROVE  /\ Changed(m, l, d, t) \in Engine /\ Changed(m, l, d, t).of = m.of
         /\ Changed(m, l, d, t).len = l /\ Changed(m, l, d, t).dirty = d
         /\ Changed(m, l, d, t).tail = t
<1>1. m.of \in Req \cup {NoReq} BY Zenon DEF Engine
<1>2. Changed(m, l, d, t) \in Engine BY <1>1, Zenon DEF Engine, Changed
<1>q. QED BY <1>2, Zenon DEF Changed

(* The fields of a slot.                                                   *)
LEMMA EngineFields ==
  ASSUME NEW m \in Engine PROVE m.len \in Nat /\ m.dirty \in BOOLEAN /\ m.tail \in Tails
BY Zenon DEF Engine

(* The forms of change the actions make.                                   *)
LEMMA GrowEngine ==
  ASSUME NEW m \in Engine, NEW l \in Nat, NEW n, n = [m EXCEPT !.len = l]
  PROVE  n \in Engine /\ n.of = m.of /\ n.tail = m.tail /\ n.dirty = m.dirty /\ n.len = l
<1> DEFINE c == Changed(m, l, m.dirty, m.tail)
<1>1. n = c BY Zenon DEF Engine, Changed
<1>2. /\ c \in Engine /\ c.of = m.of /\ c.len = l /\ c.dirty = m.dirty /\ c.tail = m.tail
  BY EngineFields, ChangedEngine
<1> HIDE DEF c
<1>q. QED BY <1>1, <1>2

LEMMA TailEngine ==
  ASSUME NEW m \in Engine, NEW t \in Tails, NEW n, n = [m EXCEPT !.tail = t]
  PROVE  n \in Engine /\ n.of = m.of /\ n.tail = t /\ n.dirty = m.dirty /\ n.len = m.len
<1> DEFINE c == Changed(m, m.len, m.dirty, t)
<1>1. n = c BY Zenon DEF Engine, Changed
<1>2. /\ c \in Engine /\ c.of = m.of /\ c.len = m.len /\ c.dirty = m.dirty /\ c.tail = t
  BY EngineFields, ChangedEngine
<1> HIDE DEF c
<1>q. QED BY <1>1, <1>2

LEMMA DirtyEngine ==
  ASSUME NEW m \in Engine, NEW n, n = [m EXCEPT !.dirty = TRUE]
  PROVE  n \in Engine /\ n.of = m.of /\ n.tail = m.tail /\ n.len = m.len
<1> DEFINE d == TRUE
           c == Changed(m, m.len, d, m.tail)
<1>1. n = c BY Zenon DEF Engine, Changed
<1>2. d \in BOOLEAN OBVIOUS
<1> HIDE DEF d
<1>3. c \in Engine /\ c.of = m.of /\ c.len = m.len /\ c.tail = m.tail
  BY <1>2, EngineFields, ChangedEngine
<1> HIDE DEF c
<1>q. QED BY <1>1, <1>3

(* Tokens past the cap are no tokens past a stop.                          *)
LEMMA PastCapEngine ==
  ASSUME eng \in Engine, NEW n \in 0 .. 1
  PROVE  /\ PastCap(n) \in Engine /\ PastCap(n).of = eng.of
         /\ eng.tail # "stop" => PastCap(n).tail # "stop"
<1> DEFINE l == eng.len + n
           t == IF n > 0 /\ eng.tail = "none" THEN "cap" ELSE eng.tail
<1>1. l \in Nat BY SMT DEF Engine
<1>2. t \in Tails BY Zenon DEF Engine, Tails
<1>3. eng.tail # "stop" => t # "stop" BY Zenon
<1>4. PastCap(n) = [eng EXCEPT !.len = l, !.tail = t] BY DEF PastCap
<1> HIDE DEF l, t
<1> DEFINE c == Changed(eng, l, eng.dirty, t)
<1>5. PastCap(n) = c BY <1>4, Zenon DEF Engine, Changed
<1>6. c \in Engine /\ c.of = eng.of /\ c.tail = t BY <1>1, <1>2, EngineFields, ChangedEngine
<1> HIDE DEF c
<1>q. QED BY <1>3, <1>5, <1>6

(* A slot no conversation holds, and a mirror of none.                     *)
LEMMA NoneTypes == NoSlot \in Engine /\ NoMirror \in Mirror
<1>1. NoSlot \in Engine BY SMT DEF NoSlot, Engine, Tails
<1>2. NoMirror \in Mirror BY SMT DEF NoMirror, Mirror
<1>q. QED BY <1>1, <1>2

(* It holds before the first request.                                      *)
LEMMA InitTurn == Init => TurnInv
<1>1. ASSUME Init PROVE CoreType
  <2>1. outrun \in BOOLEAN BY <1>1, Zenon DEF Init
  <2>2. mirror \in Mirror /\ eng \in Engine BY <1>1, NoneTypes DEF Init
  <2>q. QED BY <1>1, <2>1, <2>2, SMT DEF Init, CoreType, Phases
<1>2. Init => NowInv /\ MirrorInv
  BY NoneAssumption, SMT DEF Init, NowInv, MirrorInv, Generating, Going, NoMirror, NoSlot
<1>q. QED BY <1>1, <1>2 DEF TurnInv

(* What the invariant speaks of.                                           *)
LEMMA SameTurn ==
  ASSUME TurnInv, UNCHANGED <<requests, session, mirror, eng, outrun>> PROVE TurnInv'
BY SMT DEF TurnInv, CoreType, NowInv, MirrorInv, Generating, Going, requests, session

(* A claim that grows old concerns neither slot nor mirror.                *)
LEMMA AgeTurn ==
  ASSUME TurnInv, NEW k \in Keys, Age(k) PROVE TurnInv'
<1>1. UNCHANGED <<requests, session, mirror, eng, outrun>> BY Zenon DEF Age, engine
<1>q. QED BY <1>1, SameTurn

(* An arriving request has not run; what it knows is its own.              *)
LEMMA ArriveTurn ==
  ASSUME TurnInv, NEW r \in Req, Arrive(r) PROVE TurnInv'
BY NoneAssumption, RequestAssumption, SMT
DEF TurnInv, CoreType, Phases, NowInv, MirrorInv, Generating, Going, Arrive, Claim, session, engine

(* A request that gives up was not running.                                *)
LEMMA GiveUpTurn ==
  ASSUME TurnInv, NEW r \in Req, GiveUp(r) PROVE TurnInv'
BY NoneAssumption, SMT
DEF TurnInv, CoreType, Phases, NowInv, MirrorInv, Generating, Going, GiveUp, session, claims, engine

(* The decision for FOLLOW_UP is what MirrorInv asks of it.                *)
LEMMA BeginTurn ==
  ASSUME TurnInv, NEW r \in Req, Begin(r) PROVE TurnInv'
<1>1. /\ pc[r] = "waiting" /\ now = NoReq /\ pc' = [pc EXCEPT ![r] = "running"]
      /\ now' = r /\ phase' = "prefill" /\ after' = "decode"
      /\ mirror' = [mirror EXCEPT !.reusable = FALSE]
      /\ UNCHANGED <<knows, eng, outrun>>
  BY Zenon DEF Begin, engine
<1>2. /\ mode' = IF Follows(r) THEN "FOLLOW_UP" ELSE "FRESH"
      /\ base' = IF Follows(r) THEN mirror.fed + 1 ELSE 1
  BY Zenon DEF Begin
<1>m. mirror' \in Mirror /\ mirror'.of = mirror.of /\ mirror'.fed = mirror.fed /\ mirror'.reusable = FALSE
  BY <1>1, BarMirror DEF TurnInv, CoreType
<1>3. CoreType'
  <2>1. mirror.fed \in Nat BY DEF TurnInv, CoreType, Mirror
  <2>q. QED BY <1>1, <1>2, <1>m, <2>1, SMT DEF TurnInv, CoreType, Phases
<1>4. NowInv' BY <1>1, NoneAssumption, SMT DEF TurnInv, CoreType, NowInv
<1>5. Follows(r) => /\ eng.of = knows[r] /\ ~eng.dirty /\ eng.tail # "stop"
                    /\ eng.len = mirror.fed
  BY Zenon DEF TurnInv, MirrorInv, Follows, Matches
<1>6. MirrorInv'
  BY <1>1, <1>2, <1>5, <1>m, SMT DEF TurnInv, CoreType, MirrorInv, Generating, Going
<1>q. QED BY <1>3, <1>4, <1>6 DEF TurnInv

(* After the prefill slot and mirror are of the session's turn.            *)
LEMMA PrefillOkTurn ==
  ASSUME TurnInv, PrefillOk PROVE TurnInv'
BY NoneAssumption, SMT
DEF TurnInv, CoreType, Phases, Tails, Mirror, Engine, NowInv, MirrorInv, Generating, Going, PrefillOk,
    requests, claims

(* A prefill refused or failed leaves no mirror.                           *)
LEMMA PrefillEndsTurn ==
  ASSUME TurnInv, PrefillRefused \/ PrefillFails PROVE TurnInv'
<1>1. mirror' = NoMirror /\ phase = "prefill" /\ UNCHANGED <<requests, now, after, outrun>>
  BY Zenon DEF PrefillRefused, PrefillFails, engine
<1>2. CASE PrefillRefused
  BY <1>1, <1>2, NoneAssumption, SMT
  DEF TurnInv, CoreType, Mirror, Engine, NowInv, MirrorInv, Generating, Going, PrefillRefused,
      NoMirror, requests, engine
<1>3. CASE PrefillFails
  <2>1. phase' = "over" /\ UNCHANGED <<mode, base>> BY <1>3, Zenon DEF PrefillFails
  <2>2. eng' \in {eng, NoSlot, [of |-> now, len |-> 1, dirty |-> TRUE, tail |-> "none"],
                  IF eng.of = NoReq THEN NoSlot ELSE [eng EXCEPT !.dirty = TRUE]}
    BY <1>3, Zenon DEF PrefillFails
  <2>t. eng' \in Engine
    <3>1. eng \in Engine /\ [of |-> now, len |-> 1, dirty |-> TRUE, tail |-> "none"] \in Engine
      BY SMT DEF TurnInv, CoreType, Engine, Tails
    <3>2. [eng EXCEPT !.dirty = TRUE] \in Engine
      BY DirtyEngine DEF TurnInv, CoreType
    <3>q. QED BY <2>2, <3>1, <3>2, NoneTypes
  <2>3. CoreType' BY <1>1, <2>1, <2>t, NoneTypes, SMT DEF TurnInv, CoreType, Phases, requests
  <2>4. NowInv' /\ MirrorInv'
    BY <1>1, <2>1, NoneAssumption, SMT
    DEF TurnInv, NowInv, MirrorInv, Generating, Going, NoMirror, requests
  <2>q. QED BY <2>3, <2>4 DEF TurnInv
<1>q. QED BY <1>2, <1>3

(* A slot that is displaced, or a mirror evicted, is a state either allows.*)
LEMMA LossTurn ==
  ASSUME TurnInv, Displace \/ EvictMirror PROVE TurnInv'
<1>1. UNCHANGED <<requests, session, outrun>> BY Zenon DEF Displace, EvictMirror, engine
<1>2. CASE Displace
  <2>1. eng' = NoSlot /\ UNCHANGED mirror /\ phase \notin Generating
    BY <1>2, SMT DEF Displace, Generating
  <2>2. ~Going BY <1>2, SMT DEF Displace, Going
  <2>q. QED
    BY <1>1, <2>1, <2>2, NoneAssumption, NoneTypes, SMT
    DEF TurnInv, CoreType, NowInv, MirrorInv, Generating, Going, NoSlot, requests, session
<1>3. CASE EvictMirror
  <2>1. now = NoReq /\ mirror' = NoMirror /\ UNCHANGED eng
    BY <1>3, Zenon DEF EvictMirror, engine
  <2>q. QED
    BY <1>1, <2>1, NoneAssumption, NoneTypes, SMT
    DEF TurnInv, CoreType, NowInv, MirrorInv, Generating, Going, NoMirror, requests, session
<1>q. QED BY <1>2, <1>3

(* What Make leaves of the thread's place.                                 *)
LEMMA MakeTurn ==
  ASSUME NEW k, NEW next, Make(k, next)
  PROVE  \/ phase' = next /\ UNCHANGED after
         \/ phase' = "put" /\ after' = next
BY Zenon DEF Make

(* What slot and mirror must be once the thread has made what it read: if  *)
(* the turn may be followed, nothing was fed past a stop.                  *)
LEMMA MadeTurn ==
  ASSUME TurnInv, phase \in Generating, UNCHANGED <<requests, now, mode, base, outrun>>,
         NEW next \in {"decode", "check", "drain", "bail"}, NEW k, Make(k, next),
         mirror' \in Mirror, eng' \in Engine, mirror'.of = now, eng'.of = now,
         mirror'.reusable => eng'.tail # "stop",
         next \in {"decode", "check"} => eng'.tail # "stop"
  PROVE  TurnInv'
<1>1. \/ phase' = next /\ UNCHANGED after
      \/ phase' = "put" /\ after' = next
  BY MakeTurn
<1>2. now \in Req /\ now # NoReq
  BY NoneAssumption, SMT DEF TurnInv, CoreType, NowInv, Generating
<1>3. CoreType' BY <1>1, SMT DEF TurnInv, CoreType, Phases, requests
<1>4. NowInv' BY <1>1, <1>2, SMT DEF TurnInv, NowInv, Generating, requests
<1>5. MirrorInv' BY <1>1, <1>2, SMT DEF MirrorInv, Generating, Going
<1>q. QED BY <1>3, <1>4, <1>5 DEF TurnInv

(* The first token stops the turn and bars the mirror in one step, or does *)
(* neither.                                                                *)
LEMMA FirstTurn ==
  ASSUME TurnInv, First PROVE TurnInv'
<1>1. phase = "first" /\ UNCHANGED <<requests, now, mode, base, outrun>>
  BY Zenon DEF First
<1>2. PICK how \in {"on", "stop", "cap"}, k \in Kind \cup {"none"} :
        /\ mirror' = [mirror EXCEPT !.reusable = ReusableAfter(how)]
        /\ eng' = IF how = "stop" THEN [eng EXCEPT !.tail = "stop"] ELSE eng
        /\ Make(k, IF how = "on" THEN "decode" ELSE "bail")
  BY Zenon DEF First
<1>3. /\ mirror \in Mirror /\ eng \in Engine /\ mirror.of = now /\ eng.of = now
      /\ eng.tail # "stop" /\ phase \in Generating
  BY <1>1, SMT DEF TurnInv, CoreType, MirrorInv, Generating, Going
<1>4. /\ mirror' \in Mirror /\ mirror'.of = now /\ mirror'.reusable = (how # "stop")
  <2> DEFINE b == how # "stop"
  <2>1. b \in BOOLEAN /\ mirror' = [mirror EXCEPT !.reusable = b] BY <1>2 DEF ReusableAfter
  <2> HIDE DEF b
  <2>2. mirror' \in Mirror BY <1>3, <2>1, Zenon DEF Mirror
  <2>3. mirror'.of = mirror.of /\ mirror'.reusable = b BY <1>3, <2>1, Zenon DEF Mirror
  <2>q. QED BY <1>3, <2>2, <2>3 DEF b
<1>5. eng' \in Engine /\ eng'.of = now /\ (how # "stop" => eng'.tail # "stop")
  <2>1. CASE how = "stop"
    <3>1. "stop" \in Tails BY DEF Tails
    <3>q. QED BY <1>2, <1>3, <2>1, <3>1, TailEngine
  <2>2. CASE how # "stop" BY <1>2, <1>3, <2>2
  <2>q. QED BY <2>1, <2>2
<1> DEFINE next == IF how = "on" THEN "decode" ELSE "bail"
<1>6. /\ next \in {"decode", "check", "drain", "bail"} /\ Make(k, next)
      /\ next \in {"decode", "check"} => eng'.tail # "stop"
  BY <1>2, <1>5, Zenon
<1>7. mirror'.reusable => eng'.tail # "stop" BY <1>4, <1>5, Zenon
<1> HIDE DEF next
<1>q. QED BY <1>1, <1>3, <1>4, <1>5, <1>6, <1>7, MadeTurn, Zenon

(* So does a cycle; one that reaches the cap may leave a tail.             *)
LEMMA CycleTurn ==
  ASSUME TurnInv, Cycle PROVE TurnInv'
<1>1. phase = "decode" /\ UNCHANGED <<requests, now, mode, base, outrun>>
  BY Zenon DEF Cycle
<1>2. PICK how \in Outcome, k \in Kind \cup {"none"} :
        /\ eng' = CASE how = "stop" -> [eng EXCEPT !.len = @ + 1, !.tail = "stop"]
                    [] how \in {"overflow", "past"} -> PastCap(1)
                    [] OTHER -> [eng EXCEPT !.len = @ + 1]
        /\ mirror' = [mirror EXCEPT !.fed = @ + 1 + (IF how = "overflow" THEN 1 ELSE 0),
                                    !.reusable = ReusableAfter(how)]
        /\ Make(k, IF how = "on" THEN "check" ELSE "drain")
  BY Zenon DEF Cycle
<1>3. /\ mirror \in Mirror /\ eng \in Engine /\ mirror.of = now /\ eng.of = now
      /\ eng.tail # "stop" /\ phase \in Generating /\ eng.len \in Nat /\ eng.dirty \in BOOLEAN
  BY <1>1, SMT DEF TurnInv, CoreType, MirrorInv, Generating, Going, Engine
<1>4. /\ mirror' \in Mirror /\ mirror'.of = now /\ mirror'.reusable = (how # "stop")
  <2> DEFINE b == how # "stop"
             f == mirror.fed + 1 + (IF how = "overflow" THEN 1 ELSE 0)
  <2>1. f \in Nat BY <1>3, SMT DEF Mirror
  <2>2. b \in BOOLEAN /\ mirror' = [mirror EXCEPT !.fed = f, !.reusable = b]
    BY <1>2 DEF ReusableAfter
  <2> HIDE DEF b, f
  <2>3. mirror' \in Mirror BY <1>3, <2>1, <2>2, Zenon DEF Mirror
  <2>4. mirror'.of = mirror.of /\ mirror'.reusable = b BY <1>3, <2>2, Zenon DEF Mirror
  <2>q. QED BY <1>3, <2>3, <2>4 DEF b
<1>5. eng' \in Engine /\ eng'.of = now /\ (how # "stop" => eng'.tail # "stop")
  <2> DEFINE l == eng.len + 1
  <2>l. l \in Nat BY <1>3
  <2>1. CASE how = "stop"
    <3>1. eng' = [eng EXCEPT !.len = l, !.tail = "stop"] BY <1>2, <2>1
    <3> HIDE DEF l
    <3> DEFINE c == Changed(eng, l, eng.dirty, "stop")
    <3>2. eng' = c BY <1>3, <3>1, Zenon DEF Engine, Changed
    <3>3. "stop" \in Tails BY DEF Tails
    <3>4. c \in Engine /\ c.of = eng.of BY <1>3, <2>l, <3>3, ChangedEngine
    <3> HIDE DEF c
    <3>q. QED BY <1>3, <2>1, <3>2, <3>4
  <2>2. CASE how \in {"overflow", "past"}
    <3>1. eng' = PastCap(1) /\ 1 \in 0 .. 1 BY <1>2, <2>2
    <3>q. QED BY <1>3, <3>1, PastCapEngine, Zenon
  <2>3. CASE how \notin {"stop", "overflow", "past"}
    <3>1. eng' = [eng EXCEPT !.len = l] BY <1>2, <2>3
    <3> HIDE DEF l
    <3>q. QED BY <1>3, <2>l, <3>1, GrowEngine
  <2>q. QED BY <2>1, <2>2, <2>3, Zenon
<1> DEFINE next == IF how = "on" THEN "check" ELSE "drain"
<1>6. /\ next \in {"decode", "check", "drain", "bail"} /\ Make(k, next)
      /\ next \in {"decode", "check"} => eng'.tail # "stop"
  BY <1>2, <1>5, Zenon
<1>7. mirror'.reusable => eng'.tail # "stop" BY <1>4, <1>5, Zenon
<1> HIDE DEF next
<1>q. QED BY <1>1, <1>3, <1>4, <1>5, <1>6, <1>7, MadeTurn, Zenon

(* So does a cancel between two cycles.                                    *)
LEMMA CheckTurn ==
  ASSUME TurnInv, Check PROVE TurnInv'
<1>1. phase = "check" /\ UNCHANGED <<requests, now, mode, base, after, outrun>>
  BY Zenon DEF Check
<1>2. \/ /\ phase' = "drain" /\ mirror' = [mirror EXCEPT !.reusable = FALSE]
         /\ eng' = [eng EXCEPT !.tail = "stop"]
      \/ phase' = "decode" /\ UNCHANGED <<mirror, eng>>
  BY Zenon DEF Check
<1>3. CASE /\ phase' = "drain" /\ mirror' = [mirror EXCEPT !.reusable = FALSE]
           /\ eng' = [eng EXCEPT !.tail = "stop"]
  <2>1. mirror' \in Mirror /\ mirror'.of = mirror.of /\ mirror'.reusable = FALSE
    BY <1>3, BarMirror DEF TurnInv, CoreType
  <2>2. eng' \in Engine /\ eng'.of = eng.of
    <3>1. "stop" \in Tails BY DEF Tails
    <3>q. QED BY <1>3, <3>1, TailEngine DEF TurnInv, CoreType
  <2>q. QED
    BY <1>1, <1>3, <2>1, <2>2, SMT
    DEF TurnInv, CoreType, Phases, NowInv, MirrorInv, Generating, Going, requests
<1>4. CASE phase' = "decode" /\ UNCHANGED <<mirror, eng>>
  BY <1>1, <1>4, SMT
  DEF TurnInv, CoreType, Phases, NowInv, MirrorInv, Generating, Going, requests
<1>q. QED BY <1>2, <1>3, <1>4

(* The record of a turn at its end.                                        *)
LEMMA RecordedMirror ==
  ASSUME now \in Req, NEW f \in Nat, NEW b \in BOOLEAN, NEW m, m = Recorded(f, b)
  PROVE  m \in Mirror /\ m.reusable = b /\ (b => m.of = now)
<1> DEFINE r == [of |-> IF b THEN now ELSE NoReq, fed |-> f, reusable |-> b]
<1>1. m = r BY DEF Recorded
<1>2. (IF b THEN now ELSE NoReq) \in Req \cup {NoReq} OBVIOUS
<1>3. r \in Mirror BY <1>2, Zenon DEF Mirror
<1>4. r.reusable = b OBVIOUS
<1>5. r.of = IF b THEN now ELSE NoReq OBVIOUS
<1> HIDE DEF r
<1>q. QED BY <1>1, <1>3, <1>4, <1>5

(* The drain, the engine's end and its errors record no more than they     *)
(* found.                                                                  *)
LEMMA EndTurn ==
  ASSUME TurnInv, Drain \/ Done \/ GenerateFails PROVE TurnInv'
<1>1. phase' = "over" /\ UNCHANGED <<requests, now, mode, base, after, outrun>>
  BY Zenon DEF Drain, Done, GenerateFails
<1>2. phase \in Generating
  <2>1. phase \in {"first", "decode", "drain", "bail"} BY Zenon DEF Drain, Done, GenerateFails
  <2>q. QED BY <2>1 DEF Generating
<1>3. /\ mirror \in Mirror /\ mirror.fed \in Nat /\ mirror.reusable \in BOOLEAN
      /\ eng \in Engine /\ eng.len \in Nat /\ eng.of = now /\ now \in Req /\ now # NoReq
  BY <1>2, NoneAssumption, SMT DEF TurnInv, CoreType, MirrorInv, NowInv, Mirror, Engine, Generating
<1>4. mirror.reusable => eng.tail # "stop"
  BY <1>3 DEF TurnInv, MirrorInv
<1>5. ASSUME mirror' \in Mirror, eng' \in Engine, mirror'.reusable => mirror'.of = now,
             mirror'.reusable => eng'.of = NoReq \/ (eng'.of = now /\ eng'.tail # "stop")
      PROVE  TurnInv'
  <2>1. CoreType' BY <1>1, <1>5, SMT DEF TurnInv, CoreType, Phases, requests
  <2>2. NowInv' BY <1>1, <1>2, SMT DEF TurnInv, NowInv, Generating, requests
  <2>3. now' = now /\ now # NoReq /\ phase' = "over" BY <1>1, <1>3
  <2>4. MirrorInv' BY <1>5, <2>3, Zenon DEF MirrorInv, Generating, Going
  <2>q. QED BY <2>1, <2>2, <2>4 DEF TurnInv
<1>6. ASSUME NEW f \in Nat, mirror' = Recorded(f, FALSE), eng' \in Engine PROVE TurnInv'
  <2>1. mirror' \in Mirror /\ mirror'.reusable = FALSE
    BY <1>3, <1>6, RecordedMirror, FALSE \in BOOLEAN
  <2>q. QED BY <1>5, <1>6, <2>1
<1>7. ASSUME NEW f \in Nat, mirror' = Recorded(f, mirror.reusable), eng' \in Engine,
             eng'.of = NoReq \/ (eng'.of = now /\ (eng.tail # "stop" => eng'.tail # "stop"))
      PROVE  TurnInv'
  <2>1. /\ mirror' \in Mirror /\ mirror'.reusable = mirror.reusable
        /\ mirror.reusable => mirror'.of = now
    BY <1>3, <1>7, RecordedMirror, Zenon
  <2>q. QED BY <1>4, <1>5, <1>7, <2>1, Zenon
<1>8. CASE Drain
  <2>1. \/ \E n \in 0 .. 1 :
             /\ eng' = PastCap(n)
             /\ mirror' = Recorded(MaxOf(mirror.fed, eng.len + n), mirror.reusable)
        \/ mirror' = Recorded(mirror.fed, mirror.reusable) /\ UNCHANGED eng
    BY <1>8, Zenon DEF Drain
  <2>2. CASE mirror' = Recorded(mirror.fed, mirror.reusable) /\ UNCHANGED eng
    BY <1>3, <1>7, <2>2, Zenon
  <2>3. ASSUME NEW n \in 0 .. 1, eng' = PastCap(n),
               mirror' = Recorded(MaxOf(mirror.fed, eng.len + n), mirror.reusable)
        PROVE  TurnInv'
    <3>1. MaxOf(mirror.fed, eng.len + n) \in Nat BY <1>3 DEF MaxOf
    <3>2. eng' \in Engine /\ eng'.of = now /\ (eng.tail # "stop" => eng'.tail # "stop")
      BY <1>3, <2>3, PastCapEngine, Zenon
    <3>q. QED BY <1>7, <2>3, <3>1, <3>2, Zenon
  <2>q. QED BY <2>1, <2>2, <2>3
<1>9. CASE Done
  <2>1. \/ /\ mirror' = Recorded(MaxOf(mirror.fed, eng.len), mirror.reusable)
           /\ UNCHANGED eng
        \/ mirror' = Recorded(mirror.fed, FALSE) /\ eng' = [eng EXCEPT !.tail = "stop"]
    BY <1>9, Zenon DEF Done
  <2>2. CASE mirror' = Recorded(MaxOf(mirror.fed, eng.len), mirror.reusable) /\ UNCHANGED eng
    <3>1. MaxOf(mirror.fed, eng.len) \in Nat BY <1>3 DEF MaxOf
    <3>q. QED BY <1>3, <1>7, <2>2, <3>1, Zenon
  <2>3. CASE mirror' = Recorded(mirror.fed, FALSE) /\ eng' = [eng EXCEPT !.tail = "stop"]
    <3>1. "stop" \in Tails BY DEF Tails
    <3>2. eng' \in Engine BY <1>3, <2>3, <3>1, TailEngine
    <3>q. QED BY <1>3, <1>6, <2>3, <3>2
  <2>q. QED BY <2>1, <2>2, <2>3
<1>10. CASE GenerateFails
  <2>1. \/ /\ mirror' = Recorded(mirror.fed, FALSE)
           /\ \/ eng' = NoSlot
              \/ \E d \in BOOLEAN, n \in 0 .. 1 :
                   eng' = [eng EXCEPT !.len = @ + n, !.dirty = d, !.tail = "stop"]
        \/ /\ mirror' = Recorded(mirror.fed, mirror.reusable)
           /\ eng' \in {NoSlot, eng, [eng EXCEPT !.dirty = TRUE]}
    BY <1>10, Zenon DEF GenerateFails
  <2>2. ASSUME mirror' = Recorded(mirror.fed, FALSE), NEW d \in BOOLEAN, NEW n \in 0 .. 1,
               eng' = [eng EXCEPT !.len = @ + n, !.dirty = d, !.tail = "stop"]
        PROVE  TurnInv'
    <3> DEFINE l == eng.len + n
    <3>1. l \in Nat BY <1>3
    <3>2. eng' = [eng EXCEPT !.len = l, !.dirty = d, !.tail = "stop"] BY <2>2
    <3>3. "stop" \in Tails BY DEF Tails
    <3> HIDE DEF l
    <3>4. eng' = Changed(eng, l, d, "stop") BY <1>3, <3>2, Zenon DEF Engine, Changed
    <3>5. eng' \in Engine BY <1>3, <3>1, <3>3, <3>4, ChangedEngine, Zenon
    <3>q. QED BY <1>3, <1>6, <2>2, <3>5
  <2>3. CASE mirror' = Recorded(mirror.fed, FALSE) /\ eng' = NoSlot
    BY <1>3, <1>6, <2>3, NoneTypes
  <2>4. CASE /\ mirror' = Recorded(mirror.fed, mirror.reusable)
             /\ eng' \in {NoSlot, eng, [eng EXCEPT !.dirty = TRUE]}
    <3>1. NoSlot \in Engine /\ NoSlot.of = NoReq BY NoneTypes DEF NoSlot
    <3>2. eng' = [eng EXCEPT !.dirty = TRUE]
            => eng' \in Engine /\ eng'.of = now /\ eng'.tail = eng.tail
      BY <1>3, DirtyEngine
    <3>3. /\ eng' \in Engine
          /\ eng'.of = NoReq \/ (eng'.of = now /\ (eng.tail # "stop" => eng'.tail # "stop"))
      BY <1>3, <2>4, <3>1, <3>2, Zenon
    <3>q. QED BY <1>3, <1>7, <2>4, <3>3
  <2>q. QED BY <2>1, <2>2, <2>3, <2>4
<1>q. QED BY <1>8, <1>9, <1>10

(* A torn cycle is no stop.                                                *)
LEMMA TearTurn ==
  ASSUME TurnInv, Tear PROVE TurnInv'
<1>1. /\ phase \in Generating /\ phase # "prefill"
      /\ UNCHANGED <<requests, session, mirror, outrun>>
  BY SMT DEF Tear, Generating
<1> DEFINE t == IF eng.tail = "stop" THEN eng.tail ELSE "torn"
<1>2. eng' = [eng EXCEPT !.tail = t] BY DEF Tear
<1>3. eng \in Engine BY DEF TurnInv, CoreType
<1>4. t \in Tails BY <1>3, Zenon DEF Tails, Engine
<1>5. t = "stop" => eng.tail = "stop" BY Zenon
<1> HIDE DEF t
<1>6. eng' \in Engine /\ eng'.of = eng.of /\ eng'.tail = t BY <1>2, <1>3, <1>4, TailEngine
<1>7. CoreType' BY <1>1, <1>6, SMT DEF TurnInv, CoreType, requests, session
<1>8. NowInv' BY <1>1, Zenon DEF TurnInv, NowInv, requests, session
<1>9. MirrorInv' BY <1>1, <1>5, <1>6, SMT DEF TurnInv, MirrorInv, Generating, Going, session
<1>q. QED BY <1>7, <1>8, <1>9 DEF TurnInv

(* A generate that ends late has not been stopped, and what it does to the *)
(* slot before a FOLLOW_UP's prefill is on record.                         *)
LEMMA LateEndTurn ==
  ASSUME TurnInv, LateEnd PROVE TurnInv'
<1>1. UNCHANGED <<requests, session, mirror>> BY Zenon DEF LateEnd
<1>2. /\ eng' \in {eng, PastCap(1), [eng EXCEPT !.dirty = TRUE]}
      /\ outrun' = (outrun \/ (phase = "prefill" /\ mode = "FOLLOW_UP" /\ eng' # eng))
  BY Zenon DEF LateEnd
<1>3. eng \in Engine /\ outrun \in BOOLEAN BY DEF TurnInv, CoreType
<1>4. eng' \in Engine /\ eng'.of = eng.of /\ (eng.tail # "stop" => eng'.tail # "stop")
  <2>1. 1 \in 0 .. 1 OBVIOUS
  <2>2. CASE eng' = eng BY <1>3, <2>2
  <2>3. CASE eng' = PastCap(1) BY <1>3, <2>1, <2>3, PastCapEngine, Zenon
  <2>4. CASE eng' = [eng EXCEPT !.dirty = TRUE] BY <1>3, <2>4, DirtyEngine
  <2>q. QED BY <1>2, <2>2, <2>3, <2>4
<1>5. outrun' \in BOOLEAN BY <1>2, <1>3, Zenon
<1>6. phase = "prefill" /\ mode = "FOLLOW_UP" => outrun' \/ (UNCHANGED eng /\ ~outrun)
  BY <1>2, Zenon
<1>7. CoreType' BY <1>1, <1>4, <1>5, Zenon DEF TurnInv, CoreType, requests, session
<1>8. NowInv' BY <1>1, Zenon DEF TurnInv, NowInv, requests, session
<1>9. MirrorInv' BY <1>1, <1>4, <1>6, Zenon DEF TurnInv, MirrorInv, Generating, Going, requests, session
<1>q. QED BY <1>7, <1>8, <1>9 DEF TurnInv

(* Nothing of the stream's events touches slot or mirror.                  *)
LEMMA StreamTurn ==
  ASSUME TurnInv, PutOk \/ PutFull \/ GenStep \/ Disconnect PROVE TurnInv'
<1>1. CASE PutOk \/ PutFull
  <2>1. /\ UNCHANGED <<requests, now, mode, after, base, mirror, eng, outrun>>
        /\ phase = "put" /\ phase' = after
    BY <1>1, Zenon DEF PutOk, PutFull, engine
  <2>q. QED
    BY <2>1, SMT DEF TurnInv, CoreType, Phases, NowInv, MirrorInv, Generating, Going, requests
<1>2. CASE GenStep \/ Disconnect
  <2>1. UNCHANGED <<requests, session, mirror, eng, outrun>>
    BY <1>2, Zenon DEF GenStep, GenSend, GenGoes, GenDone, Disconnect, engine
  <2>q. QED BY <2>1, SameTurn
<1>q. QED BY <1>1, <1>2

(* The end of a request leaves both for the turn to come.                  *)
LEMMA OverTurn ==
  ASSUME TurnInv, Reply \/ Release PROVE TurnInv'
<1>1. /\ phase = "over" /\ now' = NoReq /\ phase' = "none" /\ mode' = "FRESH"
      /\ after' = "decode" /\ base' = 0 /\ outrun' = FALSE /\ UNCHANGED <<knows, mirror, eng>>
      /\ \E e \in {"failed", "done"} : pc' = [pc EXCEPT ![now] = e]
  BY DEF Reply, Release, Clear
<1>2. CoreType'
  <2>1. outrun' \in BOOLEAN BY <1>1, Zenon
  <2>2. pc' \in [Req -> {"new", "waiting", "running", "refused", "done", "failed"}]
    <3>1. PICK e \in {"failed", "done"} : pc' = [pc EXCEPT ![now] = e] BY <1>1
    <3>2. e \in {"new", "waiting", "running", "refused", "done", "failed"} OBVIOUS
    <3>q. QED BY <3>1, <3>2, Zenon DEF TurnInv, CoreType
  <2>3. 0 \in Nat OBVIOUS
  <2>q. QED BY <1>1, <2>1, <2>2, <2>3, Zenon DEF TurnInv, CoreType, Phases
<1>3. NowInv' BY <1>1, NoneAssumption, SMT DEF TurnInv, CoreType, NowInv
<1>4. MirrorInv' BY <1>1, SMT DEF TurnInv, MirrorInv, Generating, Going
<1>q. QED BY <1>2, <1>3, <1>4 DEF TurnInv

(* Every step keeps the invariant.                                         *)
LEMMA StepTurn ==
  ASSUME TurnInv, [Next]_vars PROVE TurnInv'
<1>1. CASE UNCHANGED vars
  BY <1>1, SMT DEF vars, TurnInv, CoreType, NowInv, MirrorInv, Generating, Going
<1>2. CASE Next
  BY <1>2, AgeTurn, ArriveTurn, GiveUpTurn, BeginTurn, PrefillOkTurn, PrefillEndsTurn,
     LossTurn, FirstTurn, CycleTurn, CheckTurn, EndTurn, TearTurn, LateEndTurn, StreamTurn,
     OverTurn, Zenon
  DEF Next, Thread
<1>q. QED BY <1>1, <1>2

(* A FOLLOW_UP the engine accepts extends exactly the rows of the turn the *)
(* client's history ends with (FollowUpHonest), whatever was displaced,    *)
(* evicted, cancelled or lost before, and whatever state a failed session  *)
(* has left slot and mirror in (_decide_prefix, _run_engine_sync).         *)
THEOREM FollowUpSound == Spec => FollowUpHonest
<1>1. ASSUME TurnInv, [Next]_vars, phase = "prefill", mode = "FOLLOW_UP", phase' = "first"
      PROVE  \/ outrun
             \/ /\ eng.of = knows[now] /\ eng.len + 1 = base
                /\ ~eng.dirty /\ eng.tail # "stop"
  <2>1. eng.of # NoReq
    <3>1. ~UNCHANGED vars
      BY <1>1, SMT DEF vars
    <3>2. PrefillOk \/ \E r \in Req : Begin(r)
      BY <1>1, <3>1, SMT
      DEF Next, Thread, Age, Arrive, GiveUp, Begin, PrefillOk, PrefillRefused, PrefillFails,
          First, Cycle, Check, Drain, Done, GenerateFails, PutOk, PutFull, GenStep, GenSend,
          GenGoes, GenDone, Reply, Release, Clear, Displace, EvictMirror, LateEnd, Tear,
          Disconnect, session
    <3>q. QED BY <1>1, <3>2, SMT DEF PrefillOk, Begin
  <2>q. QED BY <1>1, <2>1 DEF TurnInv, MirrorInv
<1>q. QED BY <1>1, InitTurn, StepTurn, PTL DEF Spec, FollowUpHonest

----------------------------------------------------------------------------
(* The claims.                                                             *)

(* Until a claim has outlived its TTL, a request under way holds the claim *)
(* on its key.                                                             *)
ClaimInv ==
  ~aged => \A r \in Req : Active(r) /\ KeyOf[r] # NoKey =>
             /\ idem[KeyOf[r]].state = "in_flight" /\ idem[KeyOf[r]].by = r
             /\ ~idem[KeyOf[r]].old

(* A claim is one of a request, or free.                                   *)
ClaimType ==
  idem \in [Keys -> [state : {"free", "in_flight", "done"}, by : Req \cup {NoReq}, old : BOOLEAN]]

Claims == ClaimType /\ ClaimInv

(* No claim is held at the start, and none is needed.                      *)
LEMMA InitClaims == Init => Claims
<1>1. ASSUME Init PROVE ClaimType
  <2>1. NoClaim \in [state : {"free", "in_flight", "done"}, by : Req \cup {NoReq}, old : BOOLEAN]
    BY SMT DEF NoClaim
  <2>q. QED BY <1>1, <2>1, Zenon DEF Init, ClaimType
<1>2. ASSUME Init PROVE ClaimInv
  <2>1. \A r \in Req : pc[r] = "new" BY <1>2 DEF Init
  <2>q. QED BY <2>1, SMT DEF ClaimInv, Active
<1>q. QED BY <1>1, <1>2 DEF Claims

(* The steps that change neither requests nor claims.                      *)
LEMMA SameClaims ==
  ASSUME Claims, UNCHANGED <<pc, idem, aged>> PROVE Claims'
BY Zenon DEF Claims, ClaimType, ClaimInv, Active

(* A claim ages under its request only by the history's leave.             *)
LEMMA AgeClaims ==
  ASSUME Claims, NEW k \in Keys, Age(k) PROVE Claims'
<1>1. idem' = [idem EXCEPT ![k].old = TRUE] /\ UNCHANGED pc
  BY Zenon DEF Age, requests
<1>2. aged' = (aged \/ (idem[k].state = "in_flight" /\ Active(idem[k].by)))
  BY Zenon DEF Age
<1>3. ClaimType'
  BY <1>1, Zenon DEF Claims, ClaimType
<1>4. ASSUME ~aged', NEW r \in Req, Active(r), KeyOf[r] # NoKey
      PROVE  /\ idem'[KeyOf[r]].state = "in_flight" /\ idem'[KeyOf[r]].by = r
             /\ ~idem'[KeyOf[r]].old
  <2>1. ~aged /\ ~(idem[k].state = "in_flight" /\ Active(idem[k].by))
    BY <1>2, <1>4, Zenon
  <2>2. /\ idem[KeyOf[r]].state = "in_flight" /\ idem[KeyOf[r]].by = r
        /\ ~idem[KeyOf[r]].old
    BY <1>4, <2>1 DEF Claims, ClaimInv
  <2>3. KeyOf[r] # k BY <1>4, <2>1, <2>2
  <2>4. idem'[KeyOf[r]] = idem[KeyOf[r]]
    BY <1>1, <1>4, <2>3, RequestAssumption DEF Claims, ClaimType
  <2>q. QED BY <2>2, <2>4
<1>5. ClaimInv' BY <1>1, <1>4 DEF ClaimInv, Active
<1>q. QED BY <1>3, <1>5 DEF Claims

(* A key that is claimed was free, settled or old.                         *)
LEMMA ArriveClaims ==
  ASSUME Claims, NEW r \in Req, Arrive(r), CoreType PROVE Claims'
<1>1. UNCHANGED aged /\ pc[r] = "new" BY Zenon DEF Arrive
<1>2. \/ /\ KeyOf[r] = NoKey /\ pc' = [pc EXCEPT ![r] = "waiting"] /\ UNCHANGED idem
      \/ /\ KeyOf[r] # NoKey /\ Claimable(KeyOf[r])
         /\ pc' = [pc EXCEPT ![r] = "waiting"] /\ Claim(r)
      \/ pc' = [pc EXCEPT ![r] = "refused"] /\ UNCHANGED idem
  BY Zenon DEF Arrive
<1>3. \A q \in Req : q # r /\ Active(q)' => Active(q)
  BY <1>2, SMT DEF CoreType, Active
<1>4. CASE /\ KeyOf[r] # NoKey /\ Claimable(KeyOf[r])
           /\ pc' = [pc EXCEPT ![r] = "waiting"] /\ Claim(r)
  <2>1. KeyOf[r] \in Keys BY <1>4, RequestAssumption
  <2>2. /\ idem' = [idem EXCEPT ![KeyOf[r]] = [state |-> "in_flight", by |-> r, old |-> FALSE]]
    BY <1>4 DEF Claim
  <2>3. [state |-> "in_flight", by |-> r, old |-> FALSE]
          \in [state : {"free", "in_flight", "done"}, by : Req \cup {NoReq}, old : BOOLEAN]
    BY SMT
  <2>4. ClaimType' BY <2>1, <2>2, <2>3, Zenon DEF Claims, ClaimType
  <2>5. ASSUME ~aged, NEW q \in Req, Active(q)', KeyOf[q] # NoKey
        PROVE  /\ idem'[KeyOf[q]].state = "in_flight" /\ idem'[KeyOf[q]].by = q
               /\ ~idem'[KeyOf[q]].old
    <3>1. CASE q = r
      <4>1. idem'[KeyOf[r]] = [state |-> "in_flight", by |-> r, old |-> FALSE]
        BY <2>1, <2>2 DEF Claims, ClaimType
      <4>q. QED BY <3>1, <4>1
    <3>2. CASE q # r
      <4>1. /\ idem[KeyOf[q]].state = "in_flight" /\ idem[KeyOf[q]].by = q
            /\ ~idem[KeyOf[q]].old
        BY <1>3, <2>5, <3>2 DEF Claims, ClaimInv
      <4>2. KeyOf[q] # KeyOf[r] BY <1>4, <4>1 DEF Claimable
      <4>3. KeyOf[q] \in Keys BY <2>5, RequestAssumption
      <4>4. idem'[KeyOf[q]] = idem[KeyOf[q]] BY <2>2, <4>2, <4>3 DEF Claims, ClaimType
      <4>q. QED BY <4>1, <4>4
    <3>q. QED BY <3>1, <3>2
  <2>6. ClaimInv' BY <1>1, <2>5, Zenon DEF ClaimInv
  <2>q. QED BY <2>4, <2>6 DEF Claims
<1>5. CASE UNCHANGED idem /\ (KeyOf[r] = NoKey \/ pc' = [pc EXCEPT ![r] = "refused"])
  <2>1. KeyOf[r] = NoKey \/ ~Active(r)'
    BY <1>5, SMT DEF CoreType, Active
  <2>2. ClaimInv' BY <1>1, <1>3, <1>5, <2>1, Zenon DEF Claims, ClaimInv
  <2>3. ClaimType' BY <1>5 DEF Claims, ClaimType
  <2>q. QED BY <2>2, <2>3 DEF Claims
<1>q. QED BY <1>2, <1>4, <1>5

(* A request that begins or gives up keeps what it holds.                  *)
LEMMA BeginClaims ==
  ASSUME Claims, CoreType, NEW r \in Req, Begin(r) \/ GiveUp(r) PROVE Claims'
<1>1. /\ UNCHANGED <<idem, aged>> /\ pc[r] = "waiting"
      /\ pc' = [pc EXCEPT ![r] = "running"] \/ pc' = [pc EXCEPT ![r] = "failed"]
  BY Zenon DEF Begin, GiveUp, claims
<1>2. \A q \in Req : Active(q)' => Active(q)
  BY <1>1, SMT DEF CoreType, Active
<1>q. QED BY <1>1, <1>2, Zenon DEF Claims, ClaimType, ClaimInv

(* A claim is settled by the request that ends.                            *)
LEMMA OverClaims ==
  ASSUME Claims, TurnInv, Reply \/ Release PROVE Claims'
<1>1. UNCHANGED aged /\ phase = "over" BY Zenon DEF Reply, Release
<1>2. idem' = idem \/ idem' = Settled(now) BY Zenon DEF Reply, Release
<1>3. pc' = [pc EXCEPT ![now] = "failed"] \/ pc' = [pc EXCEPT ![now] = "done"]
  BY Zenon DEF Reply, Release
<1>4. now \in Req /\ pc[now] = "running"
  BY <1>1, SMT DEF TurnInv, CoreType, NowInv
<1>5. \A q \in Req : Active(q)' => Active(q) /\ q # now
  BY <1>3, <1>4, SMT DEF TurnInv, CoreType, Active
<1>6. CASE idem' = idem
  BY <1>1, <1>5, <1>6, Zenon DEF Claims, ClaimType, ClaimInv
<1>7. CASE idem' # idem
  <2>1. KeyOf[now] # NoKey
        /\ idem' = [idem EXCEPT ![KeyOf[now]] = [state |-> "done", by |-> now, old |-> FALSE]]
    BY <1>2, <1>7 DEF Settled
  <2>2. [state |-> "done", by |-> now, old |-> FALSE]
          \in [state : {"free", "in_flight", "done"}, by : Req \cup {NoReq}, old : BOOLEAN]
    BY <1>4, SMT
  <2>3. ClaimType' BY <2>1, <2>2, Zenon DEF Claims, ClaimType
  <2>4. ASSUME ~aged, NEW q \in Req, Active(q)', KeyOf[q] # NoKey
        PROVE  /\ idem'[KeyOf[q]].state = "in_flight" /\ idem'[KeyOf[q]].by = q
               /\ ~idem'[KeyOf[q]].old
    <3>1. /\ idem[KeyOf[q]].state = "in_flight" /\ idem[KeyOf[q]].by = q
          /\ ~idem[KeyOf[q]].old
      BY <1>5, <2>4 DEF Claims, ClaimInv
    <3>2. idem[KeyOf[now]].by = now
      BY <1>4, <2>1, <2>4 DEF Claims, ClaimInv, Active
    <3>3. KeyOf[q] # KeyOf[now] BY <1>5, <2>4, <3>1, <3>2
    <3>4. KeyOf[q] \in Keys BY <2>4, RequestAssumption
    <3>5. idem'[KeyOf[q]] = idem[KeyOf[q]] BY <2>1, <3>3, <3>4 DEF Claims, ClaimType
    <3>q. QED BY <3>1, <3>5
  <2>5. ClaimInv' BY <1>1, <2>4, Zenon DEF ClaimInv
  <2>q. QED BY <2>3, <2>5 DEF Claims
<1>q. QED BY <1>6, <1>7

(* The other steps change neither requests nor claims.                     *)
LEMMA OtherClaims ==
  ASSUME Claims,
         \/ Thread \/ GenStep \/ Displace \/ EvictMirror \/ LateEnd \/ Tear \/ Disconnect
         \/ UNCHANGED vars
  PROVE  Claims'
<1>1. CASE Thread
  <2>1. UNCHANGED <<pc, idem, aged>>
    BY <1>1, Zenon
    DEF Thread, PrefillOk, PrefillRefused, PrefillFails, First, Cycle, Check, Drain, Done,
        GenerateFails, PutOk, PutFull, requests, claims
  <2>q. QED BY <2>1, SameClaims
<1>2. CASE GenStep \/ Disconnect
  <2>1. UNCHANGED <<pc, idem, aged>>
    BY <1>2, Zenon DEF GenStep, GenSend, GenGoes, GenDone, Disconnect, requests, claims
  <2>q. QED BY <2>1, SameClaims
<1>3. CASE Displace \/ EvictMirror \/ LateEnd \/ Tear \/ UNCHANGED vars
  <2>1. UNCHANGED <<pc, idem, aged>>
    BY <1>3, Zenon DEF Displace, EvictMirror, LateEnd, Tear, vars, requests, claims
  <2>q. QED BY <2>1, SameClaims
<1>q. QED BY <1>1, <1>2, <1>3

(* Of the requests of one key at most one is under way (OneRunPerKey),     *)
(* until a claim has outlived its TTL: _idemp_done is called by the        *)
(* request that holds the claim, and by it alone.                          *)
THEOREM OneRun == Spec => []OneRunPerKey
<1>1. ASSUME TurnInv, Claims, [Next]_vars PROVE Claims'
  <2>1. CoreType BY <1>1 DEF TurnInv
  <2>q. QED
    BY <1>1, <2>1, AgeClaims, ArriveClaims, BeginClaims, OverClaims, OtherClaims, Zenon DEF Next
<1>2. Claims => OneRunPerKey
  BY Zenon DEF Claims, ClaimInv, OneRunPerKey
<1>q. QED BY <1>1, <1>2, InitTurn, StepTurn, InitClaims, PTL DEF Spec

----------------------------------------------------------------------------
(* The types of the rest of the state.                                     *)

Event == [kind : Kind, what : Seq(Piece)]

(* What the stream's events, the client's and the session's counters may   *)
(* be.  A kind has no more pieces than the prefill's token and the cycles  *)
(* read; the stream is dead at the second stall and queues no more.        *)
EventType ==
  /\ read \in 0 .. MaxCycles /\ end \in {"open", "length", "stop", "cancelled", "error"}
  /\ evq \in Seq(Event) /\ Len(evq) <= EvqMax
  /\ kind \in Kind /\ pend \in [Kind -> Seq(Piece)]
  /\ stalls \in 0 .. 2 /\ dead \in BOOLEAN /\ cancel \in BOOLEAN /\ gone \in BOOLEAN
  /\ gpc \in {"off", "queue", "dead", "done", "cancel", "await"} \cup Ends
  /\ made \in [Kind -> 0 .. MaxCycles + 1] /\ got \in [Kind -> Seq(Piece)]
  /\ faults \in 0 .. MaxFaults /\ aged \in BOOLEAN

StallInv ==
  /\ \A k \in Kind : made[k] <= read + 1
  /\ phase \in {"prefill", "first"} => \A k \in Kind : made[k] = 0
  /\ phase = "put" => ~dead
  /\ stalls = 2 => dead

EventInv == EventType /\ StallInv

(* What the two conjuncts speak of.                                        *)
stream == <<read, end, evq, kind, pend, stalls, dead, cancel, gone, gpc, made, got, faults, aged>>

(* A step that changes none of it, and queues nothing.                     *)
LEMMA SameEvents ==
  ASSUME EventInv, UNCHANGED stream, UNCHANGED phase PROVE EventInv'
BY Zenon DEF EventInv, EventType, StallInv, stream

(* Nothing is queued, made or received.                                    *)
LEMMA EmptyTypes ==
  /\ << >> \in Seq(Event) /\ Len(<< >>) <= EvqMax /\ Nothing \in [Kind -> Seq(Piece)]
  /\ [k \in Kind |-> 0] \in [Kind -> 0 .. MaxCycles + 1]
<1>1. << >> \in Seq(Piece) OBVIOUS
<1>2. Nothing \in [Kind -> Seq(Piece)]
  <2> QED BY <1>1, Zenon DEF Nothing
<1>3. << >> \in Seq(Event) /\ Len(<< >>) <= EvqMax BY SizesAssumption
<1>4. [k \in Kind |-> 0] \in [Kind -> 0 .. MaxCycles + 1] BY SizesAssumption
<1> QED BY <1>2, <1>3, <1>4

(* The rest of what a session starts with.                                 *)
LEMMA StartTypes ==
  /\ 0 \in 0 .. MaxCycles /\ 0 \in 0 .. 2 /\ 0 \in 0 .. MaxFaults /\ "text" \in Kind
  /\ FALSE \in BOOLEAN /\ "open" \in {"open", "length", "stop", "cancelled", "error"}
  /\ {"queue", "off"} \subseteq {"off", "queue", "dead", "done", "cancel", "await"} \cup Ends
BY SizesAssumption DEF Kind

(* The events start empty, with every session.                             *)
LEMMA InitEvents == Init => EventInv
<1> SUFFICES ASSUME Init PROVE EventInv
  OBVIOUS
<1>1. EventType
  BY EmptyTypes, StartTypes, Zenon DEF Init, EventType
<1>2. StallInv
  BY SMT DEF Init, StallInv
<1> QED BY <1>1, <1>2 DEF EventInv

LEMMA FreshEvents ==
  ASSUME EventInv, (\E r \in Req : Begin(r)) \/ Reply \/ Release PROVE EventInv'
<1>1. /\ evq' = << >> /\ kind' = "text" /\ pend' = Nothing /\ stalls' = 0 /\ dead' = FALSE
      /\ made' = [k \in Kind |-> 0] /\ cancel' = FALSE /\ gone' = FALSE /\ got' = Nothing
      /\ gpc' \in {"queue", "off"} /\ read' = 0 /\ end' = "open"
      /\ UNCHANGED <<faults, aged>> /\ phase' # "put"
  BY DEF Begin, Reply, Release, Clear, claims
<1>2. EventType'
  BY <1>1, EmptyTypes, StartTypes, Zenon DEF EventInv, EventType
<1>3. StallInv'
  BY <1>1, SMT DEF StallInv
<1> QED BY <1>2, <1>3 DEF EventInv

(* A session's thread outside the stream's queue.                          *)
LEMMA SessionEvents ==
  ASSUME EventInv,
         PrefillOk \/ PrefillRefused \/ PrefillFails \/ Check \/ Drain \/ Done \/ GenerateFails
  PROVE  EventInv'
<1>1. /\ UNCHANGED <<events, client, cancel, read, aged>> /\ phase' # "put"
      /\ phase' \in {"prefill", "first"} => phase = "prefill"
      /\ end' \in {end, "error", "stop", "length", "cancelled"}
      /\ UNCHANGED faults \/ Fault
  BY DEF PrefillOk, PrefillRefused, PrefillFails, Check, Drain, Done, GenerateFails, claims
<1>2. faults' \in 0 .. MaxFaults
  BY <1>1, SizesAssumption DEF EventInv, EventType, Fault
<1>3. EventType'
  BY <1>1, <1>2 DEF EventInv, EventType, events, client
<1>4. StallInv'
  BY <1>1, Zenon DEF EventInv, StallInv, events
<1> QED BY <1>3, <1>4 DEF EventInv

(* So do the requests, the claims and the slot.                            *)
LEMMA AsideEvents ==
  ASSUME EventInv,
         \/ \E r \in Req : Arrive(r) \/ GiveUp(r)
         \/ \E k \in Keys : Age(k)
         \/ Displace \/ EvictMirror \/ LateEnd \/ Tear
  PROVE  EventInv'
<1>1. /\ UNCHANGED <<events, client, cancel, session>>
      /\ UNCHANGED faults \/ Fault
      /\ UNCHANGED aged \/ \E k \in Keys : aged' = (aged \/ (idem[k].state = "in_flight" /\ Active(idem[k].by)))
  BY Zenon DEF Arrive, GiveUp, Age, Displace, EvictMirror, LateEnd, Tear, claims
<1>2. faults' \in 0 .. MaxFaults
  BY <1>1, SizesAssumption DEF EventInv, EventType, Fault
<1>3. aged' \in BOOLEAN
  BY <1>1, Zenon DEF EventInv, EventType
<1>4. EventType'
  BY <1>1, <1>2, <1>3, Zenon DEF EventInv, EventType, events, client, session
<1>5. StallInv'
  BY <1>1, Zenon DEF EventInv, StallInv, events, session
<1> QED BY <1>4, <1>5 DEF EventInv

(* A piece is made of the prefill's token or of a cycle: its number is     *)
(* one more than that of the cycles read at most.                          *)
LEMMA MakeEvents ==
  ASSUME EventInv, UNCHANGED <<evq, stalls, dead, cancel, client, faults, aged>>,
         NEW next \in {"decode", "check", "drain", "bail"}, NEW k \in Kind \cup {"none"},
         Make(k, next), read' \in 0 .. MaxCycles,
         end' \in {"open", "length", "stop", "cancelled", "error"},
         \A j \in Kind : made[j] <= read'
  PROVE  EventInv'
<1>1. CASE phase' = next /\ UNCHANGED <<kind, pend, made, after>>
  <2>1. EventType' BY <1>1, Zenon DEF EventInv, EventType, client
  <2>2. ASSUME NEW j \in Kind PROVE made'[j] <= read' + 1
    <3>1. made[j] \in 0 .. MaxCycles + 1 BY Zenon DEF EventInv, EventType
    <3>2. made[j] <= read' /\ made'[j] = made[j] BY <1>1
    <3> QED BY <3>1, <3>2, SizesAssumption
  <2>3. StallInv' BY <1>1, <2>2 DEF EventInv, StallInv
  <2> QED BY <2>1, <2>3 DEF EventInv
<1>2. CASE /\ k \in Kind /\ ~dead /\ phase' = "put" /\ kind' = k
           /\ made' = [made EXCEPT ![k] = @ + 1]
           /\ pend' = [pend EXCEPT ![k] = Append(@, made[k] + 1)]
  <2>1. /\ made \in [Kind -> 0 .. MaxCycles + 1] /\ pend \in [Kind -> Seq(Piece)]
        /\ made[k] \in 0 .. MaxCycles + 1 /\ made[k] <= read'
    BY <1>2, Zenon DEF EventInv, EventType
  <2>2. made[k] + 1 \in Piece /\ made[k] + 1 \in 0 .. MaxCycles + 1 /\ made[k] + 1 <= read' + 1
    BY <2>1, SizesAssumption DEF Piece
  <2>3. pend' \in [Kind -> Seq(Piece)]
    <3>1. pend[k] \in Seq(Piece) BY <1>2, <2>1, Zenon
    <3>2. Append(pend[k], made[k] + 1) \in Seq(Piece) BY <2>2, <3>1, AppendProperties
    <3> QED BY <1>2, <2>1, <3>2, Zenon
  <2>4. made' \in [Kind -> 0 .. MaxCycles + 1] BY <1>2, <2>1, <2>2, Zenon
  <2>5. EventType' BY <1>2, <2>3, <2>4, Zenon DEF EventInv, EventType, client
  <2>6. ASSUME NEW j \in Kind PROVE made'[j] <= read' + 1
    <3>1. made[j] \in 0 .. MaxCycles + 1 /\ made[j] <= read' BY <2>1
    <3>2. made'[j] = IF j = k THEN made[k] + 1 ELSE made[j] BY <1>2, <2>1
    <3> QED BY <2>2, <3>1, <3>2, SizesAssumption
  <2>7. StallInv' BY <1>2, <2>6 DEF EventInv, StallInv
  <2> QED BY <2>5, <2>7 DEF EventInv
<1> QED BY <1>1, <1>2, Zenon DEF Make

LEMMA CycleEvents ==
  ASSUME EventInv, First \/ Cycle PROVE EventInv'
<1>1. /\ UNCHANGED <<evq, stalls, dead, cancel, client, faults, aged>>
      /\ end' \in {"open", "stop", "length"}
  BY DEF First, Cycle, EndAfter, Outcome, claims
<1>2. /\ read \in 0 .. MaxCycles /\ made \in [Kind -> 0 .. MaxCycles + 1]
      /\ \A j \in Kind : made[j] \in 0 .. MaxCycles + 1
  BY DEF EventInv, EventType
<1>3. PICK k \in Kind \cup {"none"}, next \in {"decode", "check", "drain", "bail"} : Make(k, next)
  <2>1. CASE First
    <3>1. PICK how \in {"on", "stop", "cap"}, k \in Kind \cup {"none"} :
            Make(k, IF how = "on" THEN "decode" ELSE "bail")
      BY <2>1, Zenon DEF First
    <3>2. (IF how = "on" THEN "decode" ELSE "bail") \in {"decode", "check", "drain", "bail"} OBVIOUS
    <3> QED BY <3>1, <3>2, Zenon
  <2>2. CASE Cycle
    <3>1. PICK how \in Outcome, k \in Kind \cup {"none"} :
            Make(k, IF how = "on" THEN "check" ELSE "drain")
      BY <2>2, Zenon DEF Cycle
    <3>2. (IF how = "on" THEN "check" ELSE "drain") \in {"decode", "check", "drain", "bail"} OBVIOUS
    <3> QED BY <3>1, <3>2, Zenon
  <2> QED BY <2>1, <2>2
<1>4. read' \in 0 .. MaxCycles /\ \A j \in Kind : made[j] <= read'
  <2>1. CASE First
    <3>1. phase = "first" /\ read' = read BY <2>1 DEF First
    <3>2. \A j \in Kind : made[j] = 0 BY <3>1 DEF EventInv, StallInv
    <3> QED BY <1>2, <3>1, <3>2, SizesAssumption
  <2>2. CASE Cycle
    <3>1. read < MaxCycles /\ read' = read + 1 BY <2>2 DEF Cycle
    <3>2. \A j \in Kind : made[j] <= read + 1 BY DEF EventInv, StallInv
    <3> QED BY <1>2, <3>1, <3>2, SizesAssumption
  <2> QED BY <2>1, <2>2
<1> QED BY <1>1, <1>3, <1>4, MakeEvents

(* A piece is queued while there is room, or the put times out.            *)
LEMMA PutEvents ==
  ASSUME EventInv, PutOk \/ PutFull, CoreType PROVE EventInv'
<1>1. phase = "put" /\ phase' = after /\ phase' \notin {"put", "prefill", "first"}
  BY DEF PutOk, PutFull, CoreType
<1>2. CASE PutOk
  <2>1. /\ Len(evq) < EvqMax /\ evq' = Append(evq, [kind |-> kind, what |-> pend[kind]])
        /\ pend' = [pend EXCEPT ![kind] = << >>] /\ stalls' = 0
        /\ UNCHANGED <<read, end, kind, dead, made, cancel, client, faults, aged>>
    BY <1>2 DEF PutOk, Room, claims
  <2>2. evq \in Seq(Event) /\ [kind |-> kind, what |-> pend[kind]] \in Event
    BY Zenon DEF EventInv, EventType, Event
  <2>3. evq' \in Seq(Event) /\ Len(evq') <= EvqMax
    <3> QED BY <2>1, <2>2, SizesAssumption, AppendProperties, LenProperties
  <2>4. pend' \in [Kind -> Seq(Piece)]
    <3>1. << >> \in Seq(Piece) OBVIOUS
    <3> QED BY <2>1, <3>1, Zenon DEF EventInv, EventType
  <2>5. EventType' BY <2>1, <2>3, <2>4 DEF EventInv, EventType, client
  <2>6. StallInv' BY <1>1, <2>1 DEF EventInv, StallInv
  <2> QED BY <2>5, <2>6 DEF EventInv
<1>3. CASE PutFull
  <2>1. /\ stalls' = stalls + 1 /\ dead' = (stalls' >= 2) /\ cancel' = (cancel \/ dead')
        /\ UNCHANGED <<read, end, evq, kind, pend, made, client, faults, aged>>
    BY <1>3 DEF PutFull, claims
  <2>2. stalls' \in 0 .. 2 /\ (stalls' = 2 => dead') /\ dead' \in BOOLEAN
    <3>1. stalls \in 0 .. 2 /\ stalls # 2
      BY <1>1, Zenon DEF EventInv, EventType, StallInv
    <3>2. stalls + 1 \in 0 .. 2 /\ (stalls + 1 = 2 => stalls + 1 >= 2) BY <3>1
    <3>3. (stalls' >= 2) \in BOOLEAN OBVIOUS
    <3> QED BY <2>1, <3>2, <3>3
  <2>3. cancel' \in BOOLEAN BY <2>1, <2>2, Zenon DEF EventInv, EventType
  <2>4. EventType' BY <2>1, <2>2, <2>3, Zenon DEF EventInv, EventType, client
  <2>5. StallInv' BY <1>1, <2>1, <2>2, Zenon DEF EventInv, StallInv
  <2> QED BY <2>4, <2>5 DEF EventInv
<1> QED BY <1>2, <1>3

(* What the queue holds of a kind is of its numbers.                       *)
Pieces(q, k) == [i \in 1 .. Len(q) |-> IF q[i].kind = k THEN q[i].what ELSE << >>]

LEMMA PiecesType ==
  ASSUME NEW q \in Seq(Event), NEW k PROVE Pieces(q, k) \in Seq(Seq(Piece))
<1>1. \A i \in 1 .. Len(q) : (IF q[i].kind = k THEN q[i].what ELSE << >>) \in Seq(Piece)
  <2> SUFFICES ASSUME NEW i \in 1 .. Len(q)
               PROVE  (IF q[i].kind = k THEN q[i].what ELSE << >>) \in Seq(Piece)
    OBVIOUS
  <2>1. q[i] \in Event BY ElementOfSeq
  <2>2. q[i].what \in Seq(Piece) BY <2>1, SMT DEF Event
  <2>3. << >> \in Seq(Piece) OBVIOUS
  <2> QED BY <2>2, <2>3
<1>2. Len(q) \in Nat OBVIOUS
<1> DEFINE n == Len(q)
           P(i) == IF q[i].kind = k THEN q[i].what ELSE << >>
<1>3. Pieces(q, k) = [i \in 1 .. n |-> P(i)] BY DEF Pieces
<1>4. \A i \in 1 .. n : P(i) \in Seq(Piece) BY <1>1
<1>5. n \in Nat BY <1>2
<1> HIDE DEF P, n
<1>6. [i \in 1 .. n |-> P(i)] \in Seq(Seq(Piece)) BY <1>4, <1>5, IsASeq
<1> QED BY <1>3, <1>6

LEMMA QueuedType ==
  ASSUME EventType, NEW k PROVE Queued(k) \in Seq(Piece)
<1>1. Queued(k) = FlattenSeq(Pieces(evq, k)) BY DEF Queued, Pieces
<1>2. Pieces(evq, k) \in Seq(Seq(Piece)) BY PiecesType DEF EventType
<1> QED BY <1>1, <1>2, FlattenType

(* The generator sends what is queued, or all that waits.                  *)
LEMMA GenEvents ==
  ASSUME EventInv, GenStep \/ Disconnect PROVE EventInv'
<1>1. /\ UNCHANGED <<read, end, kind, stalls, dead, made, faults, aged, phase>>
  BY Zenon DEF GenStep, GenSend, GenDone, GenGoes, Disconnect, session, events, claims
<1>2. ASSUME evq' \in Seq(Event), Len(evq') <= EvqMax, pend' \in [Kind -> Seq(Piece)],
             cancel' \in BOOLEAN, gone' \in BOOLEAN, got' \in [Kind -> Seq(Piece)],
             gpc' \in {"off", "queue", "dead", "done", "cancel", "await"} \cup Ends
      PROVE  EventInv'
  <2>1. EventType' BY <1>1, <1>2, Zenon DEF EventInv, EventType
  <2>2. StallInv' BY <1>1, Zenon DEF EventInv, StallInv
  <2> QED BY <2>1, <2>2 DEF EventInv
<1>3. CASE GenSend
  <2>1. /\ evq # << >> /\ evq' = Tail(evq)
        /\ got' = [got EXCEPT ![Head(evq).kind] = @ \o Head(evq).what]
        /\ UNCHANGED <<pend, cancel, gone, gpc>>
    BY <1>3, Zenon DEF GenSend
  <2>2. evq \in Seq(Event) /\ Len(evq) <= EvqMax /\ got \in [Kind -> Seq(Piece)]
    BY DEF EventInv, EventType
  <2>3. evq' \in Seq(Event) /\ Len(evq') <= EvqMax /\ Head(evq) \in Event
    <3> QED BY <2>1, <2>2, SizesAssumption
  <2>4. Head(evq).kind \in Kind /\ Head(evq).what \in Seq(Piece)
    BY <2>3, SMT DEF Event
  <2>5. got' \in [Kind -> Seq(Piece)]
    <3>1. got[Head(evq).kind] \o Head(evq).what \in Seq(Piece)
      BY <2>2, <2>4, ConcatProperties
    <3> QED BY <2>1, <2>2, <3>1, Zenon
  <2> QED BY <1>2, <2>1, <2>3, <2>5, Zenon DEF EventInv, EventType
<1>4. CASE GenDone
  <2>1. /\ evq' = << >> /\ pend' = Nothing /\ gpc' = "await" /\ UNCHANGED <<cancel, gone>>
        /\ got' = [k \in Kind |-> got[k] \o Queued(k) \o pend[k]]
    BY <1>4, Zenon DEF GenDone, GenFlush
  <2>2. ASSUME NEW k \in Kind PROVE got[k] \o Queued(k) \o pend[k] \in Seq(Piece)
    <3>1. got[k] \in Seq(Piece) /\ pend[k] \in Seq(Piece) BY Zenon DEF EventInv, EventType
    <3>2. Queued(k) \in Seq(Piece) BY QueuedType DEF EventInv
    <3> QED BY <3>1, <3>2, ConcatProperties
  <2>3. got' \in [Kind -> Seq(Piece)] BY <2>1, <2>2, Zenon
  <2> QED BY <1>2, <2>1, <2>3, EmptyTypes, Zenon DEF EventInv, EventType
<1>5. CASE Disconnect
  <2>1. /\ UNCHANGED <<evq, pend, got>> /\ gone' = TRUE /\ cancel' = TRUE
        /\ gpc' = gpc \/ gpc' = "closed"
    BY <1>5 DEF Disconnect, events
  <2>2. "closed" \in Ends BY DEF Ends
  <2> QED BY <1>2, <2>1, <2>2, Zenon DEF EventInv, EventType
<1>6. CASE \E from, to : to \in {"queue", "dead", "done", "cancel", "await"} \cup Ends /\ GenGoes(from, to)
  BY <1>2, <1>6, Zenon DEF GenGoes, EventInv, EventType, events
<1>7. /\ {"errored", "finished"} \subseteq Ends BY DEF Ends
<1>8. GenStep => GenSend \/ GenDone
         \/ \E from, to : to \in {"queue", "dead", "done", "cancel", "await"} \cup Ends /\ GenGoes(from, to)
  BY <1>7, Zenon DEF GenStep
<1> QED BY <1>3, <1>4, <1>5, <1>6, <1>8, Zenon

(* Every step keeps the types.                                             *)
LEMMA StepEvents ==
  ASSUME CoreType, EventInv, [Next]_vars PROVE EventInv'
<1>1. CASE UNCHANGED vars
  <2>1. UNCHANGED <<stream, phase>> BY <1>1, Zenon DEF vars, stream
  <2> QED BY <2>1, SameEvents
<1>2. CASE Next
  BY <1>2, FreshEvents, SessionEvents, AsideEvents, CycleEvents, PutEvents, GenEvents, Zenon
  DEF Next, Thread
<1> QED BY <1>1, <1>2

TypeInv == TurnInv /\ Claims /\ EventInv /\ late \in BOOLEAN

(* Whether a generate is left to itself is one or the other.               *)
LEMMA StepLate == ASSUME late \in BOOLEAN, [Next]_vars PROVE late' \in BOOLEAN
<1>1. CASE Displace \/ LateEnd
  BY <1>1, Zenon DEF Displace, LateEnd
<1>2. CASE Drain
  BY <1>2, Zenon DEF Drain
<1>3. CASE GenerateFails
  BY <1>3, Zenon DEF GenerateFails
<1>4. CASE ~(Displace \/ LateEnd \/ Drain \/ GenerateFails)
  <2>1. UNCHANGED late
    BY <1>4, Zenon
    DEF Next, Thread, GenStep, Arrive, GiveUp, Begin, Age, PrefillOk, PrefillRefused, PrefillFails,
        First, Cycle, Check, Done, PutOk, PutFull, GenSend, GenDone, GenGoes, EvictMirror, Tear,
        Disconnect, Reply, Release, engine, vars
  <2>q. QED BY <2>1
<1>q. QED BY <1>1, <1>2, <1>3, <1>4

(* The initial state has it, and every step keeps it.                      *)
LEMMA InitType == Init => TypeInv
<1>1. Init => late \in BOOLEAN BY Zenon DEF Init
<1>q. QED BY <1>1, InitTurn, InitClaims, InitEvents DEF TypeInv

LEMMA StepType == ASSUME TypeInv, [Next]_vars PROVE TypeInv'
<1>1. Claims'
  <2>1. TurnInv /\ Claims /\ CoreType BY DEF TypeInv, TurnInv
  <2> QED
    BY <2>1, AgeClaims, ArriveClaims, BeginClaims, OverClaims, OtherClaims, Zenon DEF Next
<1>2. TurnInv' BY StepTurn DEF TypeInv
<1>3. EventInv' BY StepEvents DEF TypeInv, TurnInv
<1>4. late' \in BOOLEAN BY StepLate DEF TypeInv
<1> QED BY <1>1, <1>2, <1>3, <1>4 DEF TypeInv

(* Every variable keeps its type (TypeOK), the queue's and the lists' of   *)
(* what a client received included.                                        *)
THEOREM TypeCorrect == Spec => []TypeOK
<1>1. TypeInv => TypeOK
  BY Zenon DEF TypeInv, TurnInv, CoreType, Mirror, Engine, Claims, ClaimType, EventInv,
     EventType, Event, TypeOK
<1> QED BY <1>1, InitType, StepType, PTL DEF Spec

----------------------------------------------------------------------------
(* The delivery of a stream.                                               *)

(* What was made of a kind, in order.                                      *)
Count(k) == [i \in 1 .. made[k] |-> i]

(* A piece that was made is received, queued or waiting: nothing is lost,  *)
(* doubled or overtaken, whether the queue was full or not.                *)
DeliveryInv == \A k \in Kind : got[k] \o Queued(k) \o pend[k] = Count(k)

(* The cancel is armed by a stream found dead or a client that has gone;   *)
(* without it the generator ends only when nothing is queued or waiting,   *)
(* after the session, which makes no more.                                 *)
FlushInv ==
  /\ cancel => gone \/ dead
  /\ gpc \in {"await", "finished"} =>
       gone \/ dead \/ (phase = "over" /\ evq = << >> /\ pend = Nothing)

(* One more event is one more piece of its kind, and of no other.          *)
LEMMA QueuedAppend ==
  ASSUME EventType, EventType', NEW e \in Event, evq' = Append(evq, e), NEW k
  PROVE  Queued(k)' = Queued(k) \o (IF e.kind = k THEN e.what ELSE << >>)
<1> DEFINE p == IF e.kind = k THEN e.what ELSE << >>
<1>1. p \in Seq(Piece)
  <2>1. e.what \in Seq(Piece) BY SMT DEF Event
  <2>2. << >> \in Seq(Piece) OBVIOUS
  <2> QED BY <2>1, <2>2
<1>2. Pieces(evq, k) \in Seq(Seq(Piece)) BY PiecesType DEF EventType
<1>3. Pieces(evq', k) = Append(Pieces(evq, k), p)
  <2>1. evq \in Seq(Event) BY DEF EventType
  <2>2. /\ Len(evq) \in Nat /\ Len(evq') = Len(evq) + 1 /\ evq'[Len(evq) + 1] = e
        /\ \A i \in 1 .. Len(evq) : evq'[i] = evq[i]
    <3> QED BY <2>1, AppendProperties, LenProperties
  <2> DEFINE a == Pieces(evq, k)
             b == Pieces(evq', k)
             c == Append(a, p)
             n == Len(evq)
  <2>3. a \in Seq(Seq(Piece)) /\ b \in Seq(Seq(Piece))
    BY <1>2, PiecesType DEF EventType
  <2>4. /\ Len(a) = n /\ Len(b) = n + 1
        /\ \A i \in 1 .. n : a[i] = IF evq[i].kind = k THEN evq[i].what ELSE << >>
        /\ \A i \in 1 .. n + 1 : b[i] = IF evq'[i].kind = k THEN evq'[i].what ELSE << >>
    BY <2>2 DEF Pieces
  <2> HIDE DEF a, b
  <2>5. /\ c \in Seq(Seq(Piece)) /\ Len(c) = n + 1 /\ c[n + 1] = p
        /\ \A i \in 1 .. n : c[i] = a[i]
    BY <1>1, <2>3, <2>4, AppendProperties
  <2>6. \A i \in 1 .. n + 1 : i \in 1 .. n \/ i = n + 1 BY <2>2
  <2>7. b[n + 1] = p
    <3>1. n + 1 \in 1 .. n + 1 BY <2>2
    <3> QED BY <2>2, <2>4, <3>1
  <2>8. ASSUME NEW i \in 1 .. n PROVE b[i] = a[i]
    <3>1. i \in 1 .. n + 1 BY <2>2
    <3> QED BY <2>2, <2>4, <3>1
  <2> HIDE DEF c, n, p
  <2>9. b = c
    <3>1. \A i \in 1 .. Len(b) : b[i] = c[i] BY <2>4, <2>5, <2>6, <2>7, <2>8, Zenon
    <3> QED BY <2>3, <2>4, <2>5, <3>1, SeqEqual
  <2> QED BY <2>9 DEF a, b, c
<1>4. Queued(k)' = FlattenSeq(Pieces(evq', k)) /\ Queued(k) = FlattenSeq(Pieces(evq, k))
  BY DEF Queued, Pieces
<1> QED BY <1>1, <1>2, <1>3, <1>4, FlattenAppend

(* The first event gone is the first piece of its kind gone.               *)
LEMMA QueuedTail ==
  ASSUME EventType, evq # << >>, evq' = Tail(evq), NEW k
  PROVE  Queued(k) = (IF Head(evq).kind = k THEN Head(evq).what ELSE << >>) \o Queued(k)'
<1>1. /\ evq \in Seq(Event) /\ Len(evq) \in Nat \ {0} /\ Len(evq') = Len(evq) - 1
      /\ evq[1] = Head(evq) /\ \A i \in 1 .. Len(evq) - 1 : evq'[i] = evq[i + 1]
      /\ evq' \in Seq(Event)
  <2>1. evq \in Seq(Event) BY DEF EventType
  <2> QED BY <2>1
<1> DEFINE n == Len(evq) - 1
           a == Pieces(evq, k)
           b == Pieces(evq', k)
<1>2. a \in Seq(Seq(Piece)) /\ b \in Seq(Seq(Piece))
  BY <1>1, PiecesType
<1>3. /\ Len(a) = n + 1 /\ Len(b) = n
      /\ \A i \in 1 .. n + 1 : a[i] = IF evq[i].kind = k THEN evq[i].what ELSE << >>
      /\ \A i \in 1 .. n : b[i] = IF evq'[i].kind = k THEN evq'[i].what ELSE << >>
  BY <1>1 DEF Pieces
<1> HIDE DEF a, b
<1>4. n \in Nat /\ 1 \in 1 .. n + 1 /\ \A i \in 1 .. n : i + 1 \in 1 .. n + 1 BY <1>1
<1>5. a # << >> /\ Head(a) = a[1] /\ Tail(a) \in Seq(Seq(Piece)) /\ Len(Tail(a)) = n
      /\ \A i \in 1 .. n : Tail(a)[i] = a[i + 1]
  BY <1>2, <1>3, <1>4
<1>6. Head(a) = IF Head(evq).kind = k THEN Head(evq).what ELSE << >>
  BY <1>1, <1>3, <1>4, <1>5
<1>7. ASSUME NEW i \in 1 .. n PROVE b[i] = Tail(a)[i]
  <2>1. i + 1 \in 1 .. n + 1 BY <1>4
  <2> QED BY <1>1, <1>3, <1>5, <2>1
<1>8. b = Tail(a)
  <2> DEFINE d == Tail(a)
  <2>1. /\ \A i \in 1 .. Len(b) : b[i] = d[i]
        /\ d \in Seq(Seq(Piece)) /\ Len(b) = Len(d)
    BY <1>3, <1>5, <1>7
  <2> HIDE DEF d
  <2>2. b = d BY <1>2, <2>1, SeqEqual
  <2> QED BY <2>2 DEF d
<1>9. FlattenSeq(a) = Head(a) \o FlattenSeq(Tail(a)) BY <1>2, <1>5, FlattenTail
<1>10. Queued(k)' = FlattenSeq(b) /\ Queued(k) = FlattenSeq(a)
  BY DEF Queued, Pieces, a, b
<1> QED BY <1>6, <1>8, <1>9, <1>10, Zenon

(* An empty queue holds nothing.                                           *)
LEMMA QueuedNone == ASSUME NEW k, evq = << >> PROVE Queued(k) = << >>
<1>1. Queued(k) = FlattenSeq(Pieces(evq, k)) BY DEF Queued, Pieces
<1>2. Pieces(evq, k) = << >> BY DEF Pieces
<1> QED BY <1>1, <1>2, FlattenNone

(* An element appended to the last of two sequences.                       *)
LEMMA ConcatAppend ==
  ASSUME NEW T, NEW s \in Seq(T), NEW t \in Seq(T), NEW x \in T
  PROVE  s \o Append(t, x) = Append(s \o t, x)
<1>1. <<x>> \in Seq(T) /\ s \o t \in Seq(T) BY ConcatProperties
<1>2. Append(t, x) = t \o <<x>> BY AppendIsConcat
<1>3. Append(s \o t, x) = (s \o t) \o <<x>> BY <1>1, AppendIsConcat
<1>4. (s \o t) \o <<x>> = s \o (t \o <<x>>) BY <1>1, ConcatAssociative
<1> QED BY <1>2, <1>3, <1>4, Zenon

(* The steps that move no piece.                                           *)
LEMMA SameDelivery ==
  ASSUME DeliveryInv, UNCHANGED <<evq, pend, made, got>> PROVE DeliveryInv'
BY Zenon DEF DeliveryInv, Queued, Count

(* Nothing made, nothing to deliver.                                       *)
LEMMA NoDelivery ==
  ASSUME evq = << >>, pend = Nothing, made = [k \in Kind |-> 0], got = Nothing PROVE DeliveryInv
<1> SUFFICES ASSUME NEW k \in Kind PROVE got[k] \o Queued(k) \o pend[k] = Count(k)
  BY DEF DeliveryInv
<1>1. got[k] = << >> /\ pend[k] = << >> BY DEF Nothing
<1>2. Queued(k) = << >> BY QueuedNone
<1>3. Count(k) = << >>
  <2>1. made[k] = 0 OBVIOUS
  <2> QED BY <2>1 DEF Count
<1>4. << >> \o << >> = << >> OBVIOUS
<1> QED BY <1>1, <1>2, <1>3, <1>4

(* A piece made of a token or a cycle is the next number, and waits.       *)
LEMMA CycleDelivery ==
  ASSUME EventInv, DeliveryInv, First \/ Cycle PROVE DeliveryInv'
<1>1. UNCHANGED <<evq, got>>
  BY Zenon DEF First, Cycle, client
<1>m. \A j \in Kind : made[j] <= MaxCycles /\ made[j] \in 0 .. MaxCycles + 1
  <2>1. /\ read \in 0 .. MaxCycles /\ \A j \in Kind : made[j] \in 0 .. MaxCycles + 1
        /\ \A j \in Kind : made[j] <= read + 1
    BY DEF EventInv, EventType, StallInv
  <2>2. CASE First
    <3>1. \A j \in Kind : made[j] = 0 BY <2>2 DEF First, EventInv, StallInv
    <3> QED BY <2>1, <3>1, SizesAssumption
  <2>3. CASE Cycle
    <3>1. read < MaxCycles BY <2>3 DEF Cycle
    <3> QED BY <2>1, <3>1, SizesAssumption
  <2> QED BY <2>2, <2>3
<1>2. PICK k \in Kind \cup {"none"}, next \in {"decode", "check", "drain", "bail"} : Make(k, next)
  <2>1. CASE First
    <3>1. PICK k \in Kind \cup {"none"}, how \in {"on", "stop", "cap"} :
            Make(k, IF how = "on" THEN "decode" ELSE "bail")
      BY <2>1, Zenon DEF First
    <3> QED BY <3>1
  <2>2. CASE Cycle
    <3>1. PICK k \in Kind \cup {"none"}, how \in Outcome :
            Make(k, IF how = "on" THEN "check" ELSE "drain")
      BY <2>2, Zenon DEF Cycle
    <3> QED BY <3>1
  <2> QED BY <2>1, <2>2
<1>3. CASE UNCHANGED <<pend, made>>
  BY <1>1, <1>3, SameDelivery
<1>4. CASE /\ k \in Kind /\ made' = [made EXCEPT ![k] = @ + 1]
           /\ pend' = [pend EXCEPT ![k] = Append(@, made[k] + 1)]
  <2>1. /\ made \in [Kind -> 0 .. MaxCycles + 1] /\ pend \in [Kind -> Seq(Piece)]
        /\ got \in [Kind -> Seq(Piece)]
    BY DEF EventInv, EventType
  <2>2. ASSUME NEW j \in Kind, j # k PROVE got'[j] \o Queued(j)' \o pend'[j] = Count(j)'
    <3>1. pend'[j] = pend[j] /\ made'[j] = made[j] BY <1>4, <2>1, <2>2
    <3>2. Queued(j)' = Queued(j) /\ Count(j)' = Count(j) BY <1>1, <3>1 DEF Queued, Count
    <3> QED BY <1>1, <3>1, <3>2 DEF DeliveryInv
  <2>3. got'[k] \o Queued(k)' \o pend'[k] = Count(k)'
    <3> DEFINE m == made[k]
               n == m + 1
    <3>1. pend'[k] = Append(pend[k], n) /\ made'[k] = n BY <1>4, <2>1
    <3>2. m \in 0 .. MaxCycles + 1 /\ m <= MaxCycles BY <1>4, <1>m
    <3>3. n \in Piece /\ m \in Nat BY <3>2, SizesAssumption DEF Piece
    <3>4. got[k] \in Seq(Piece) /\ pend[k] \in Seq(Piece) /\ Queued(k) \in Seq(Piece)
      BY <1>4, <2>1, QueuedType DEF EventInv
    <3>5. got[k] \o Queued(k) \in Seq(Piece)
      <4> QED BY <3>4, ConcatProperties
    <3>6. got[k] \o Queued(k) \o Append(pend[k], n) = Append(got[k] \o Queued(k) \o pend[k], n)
      <4> DEFINE a == got[k] \o Queued(k)
      <4>1. a \in Seq(Piece) BY <3>5
      <4> HIDE DEF n, a
      <4>2. a \o Append(pend[k], n) = Append(a \o pend[k], n)
        BY <3>3, <3>4, <4>1, ConcatAppend
      <4> QED BY <4>2 DEF a
    <3>7. got[k] \o Queued(k) \o pend[k] = Count(k) BY <1>4 DEF DeliveryInv
    <3>8. Append(Count(k), n) = [i \in 1 .. n |-> i]
      <4>1. Count(k) = [i \in 1 .. m |-> i] BY DEF Count
      <4>2. [i \in 1 .. m |-> i] \in Seq(Nat) /\ Len([i \in 1 .. m |-> i]) = m
            /\ [i \in 1 .. n |-> i] \in Seq(Nat) /\ Len([i \in 1 .. n |-> i]) = n
        BY <3>3
      <4> DEFINE a == [i \in 1 .. m |-> i]
                 b == [i \in 1 .. n |-> i]
                 c == Append(a, n)
      <4>3. /\ c \in Seq(Nat) /\ Len(c) = n /\ c[n] = n /\ \A i \in 1 .. m : c[i] = a[i]
        BY <3>3, <4>2, AppendProperties
      <4>4. /\ \A i \in 1 .. m : a[i] = i
            /\ \A i \in 1 .. n : b[i] = i
            /\ \A i \in 1 .. n : i \in 1 .. m \/ i = n
        BY <3>3
      <4>5. b \in Seq(Nat) /\ Len(b) = n BY <4>2
      <4> HIDE DEF a, b, c, m, n
      <4>6. \A i \in 1 .. Len(c) : c[i] = b[i] BY <4>3, <4>4, Zenon
      <4>7. c = b BY <4>3, <4>5, <4>6, SeqEqual
      <4> QED BY <4>1, <4>7 DEF a, b, c
    <3>9. Count(k)' = [i \in 1 .. n |-> i] BY <3>1 DEF Count
    <3>10. Queued(k)' = Queued(k) BY <1>1 DEF Queued
    <3> QED BY <1>1, <3>1, <3>6, <3>7, <3>8, <3>9, <3>10
  <2> QED BY <2>2, <2>3 DEF DeliveryInv
<1> QED BY <1>2, <1>3, <1>4, Zenon DEF Make

(* What waited goes to the end of the queue.                               *)
LEMMA PutDelivery ==
  ASSUME EventInv, EventInv', DeliveryInv, PutOk PROVE DeliveryInv'
<1>1. /\ evq' = Append(evq, [kind |-> kind, what |-> pend[kind]])
      /\ pend' = [pend EXCEPT ![kind] = << >>] /\ UNCHANGED <<got, made>>
  BY Zenon DEF PutOk, client
<1>2. /\ kind \in Kind /\ pend \in [Kind -> Seq(Piece)] /\ got \in [Kind -> Seq(Piece)]
  BY DEF EventInv, EventType
<1>3. [kind |-> kind, what |-> pend[kind]] \in Event BY <1>2, Zenon DEF Event
<1> SUFFICES ASSUME NEW k \in Kind PROVE got'[k] \o Queued(k)' \o pend'[k] = Count(k)'
  BY DEF DeliveryInv
<1>4. Queued(k)' = Queued(k) \o (IF kind = k THEN pend[kind] ELSE << >>)
  BY <1>1, <1>3, QueuedAppend DEF EventInv
<1>5. got[k] \in Seq(Piece) /\ pend[k] \in Seq(Piece) /\ Queued(k) \in Seq(Piece)
  BY <1>2, QueuedType DEF EventInv
<1>6. got[k] \o Queued(k) \o pend[k] = Count(k) /\ Count(k)' = Count(k)
  BY <1>1 DEF DeliveryInv, Count
<1>7. CASE kind = k
  <2>1. Queued(k)' = Queued(k) \o pend[k] /\ pend'[k] = << >> BY <1>1, <1>2, <1>4, <1>7
  <2>2. got[k] \o (Queued(k) \o pend[k]) = got[k] \o Queued(k) \o pend[k]
    <3> DEFINE a == got[k]
               b == Queued(k)
               c == pend[k]
    <3>1. a \in Seq(Piece) /\ b \in Seq(Piece) /\ c \in Seq(Piece) BY <1>5
    <3> HIDE DEF a, b, c
    <3>2. a \o (b \o c) = (a \o b) \o c BY <3>1, ConcatAssociative
    <3> QED BY <3>2 DEF a, b, c
  <2>3. got[k] \o Queued(k) \o pend[k] \in Seq(Piece)
    BY <1>5, ConcatProperties
  <2>4. (got[k] \o Queued(k) \o pend[k]) \o << >> = got[k] \o Queued(k) \o pend[k]
    BY <2>3, ConcatEmptySeq
  <2> QED BY <1>1, <1>6, <2>1, <2>2, <2>4, Zenon
<1>8. CASE kind # k
  <2>1. Queued(k)' = Queued(k) /\ pend'[k] = pend[k]
    BY <1>1, <1>2, <1>4, <1>5, <1>8, ConcatEmptySeq
  <2> QED BY <1>1, <1>6, <2>1, Zenon
<1> QED BY <1>7, <1>8

(* The first of the queue is received next.                                *)
LEMMA SendDelivery ==
  ASSUME EventInv, DeliveryInv, GenSend PROVE DeliveryInv'
<1>1. /\ evq # << >> /\ evq' = Tail(evq)
      /\ got' = [got EXCEPT ![Head(evq).kind] = @ \o Head(evq).what]
      /\ UNCHANGED <<pend, made>>
  BY Zenon DEF GenSend
<1>2. evq \in Seq(Event) /\ got \in [Kind -> Seq(Piece)] /\ pend \in [Kind -> Seq(Piece)]
      /\ evq' \in Seq(Event)
  <2>1. evq \in Seq(Event) /\ got \in [Kind -> Seq(Piece)] /\ pend \in [Kind -> Seq(Piece)]
    BY DEF EventInv, EventType
  <2> QED BY <1>1, <2>1
<1>3. Head(evq).kind \in Kind /\ Head(evq).what \in Seq(Piece)
  <2>1. Head(evq) \in Event
    <3> QED BY <1>1, <1>2
  <2> QED BY <2>1, SMT DEF Event
<1> SUFFICES ASSUME NEW k \in Kind PROVE got'[k] \o Queued(k)' \o pend'[k] = Count(k)'
  BY DEF DeliveryInv
<1>4. Queued(k) = (IF Head(evq).kind = k THEN Head(evq).what ELSE << >>) \o Queued(k)'
  BY <1>1, QueuedTail DEF EventInv
<1>5. got[k] \in Seq(Piece) /\ pend[k] \in Seq(Piece) /\ Queued(k)' \in Seq(Piece)
  <2>1. Queued(k)' = FlattenSeq(Pieces(evq', k)) BY DEF Queued, Pieces
  <2>2. Queued(k)' \in Seq(Piece) BY <1>2, <2>1, PiecesType, FlattenType
  <2> QED BY <1>2, <2>2
<1>6. got[k] \o Queued(k) \o pend[k] = Count(k) /\ Count(k)' = Count(k)
  BY <1>1 DEF DeliveryInv, Count
<1>7. CASE Head(evq).kind = k
  <2>1. got'[k] = got[k] \o Head(evq).what /\ Queued(k) = Head(evq).what \o Queued(k)'
    BY <1>1, <1>2, <1>4, <1>7
  <2>2. (got[k] \o Head(evq).what) \o Queued(k)' = got[k] \o (Head(evq).what \o Queued(k)')
    <3> DEFINE a == got[k]
               b == Head(evq).what
               c == Queued(k)'
    <3>1. a \in Seq(Piece) /\ b \in Seq(Piece) /\ c \in Seq(Piece) BY <1>3, <1>5
    <3> HIDE DEF a, b, c
    <3>2. (a \o b) \o c = a \o (b \o c) BY <3>1, ConcatAssociative
    <3> QED BY <3>2 DEF a, b, c
  <2> QED BY <1>1, <1>6, <2>1, <2>2, Zenon
<1>8. CASE Head(evq).kind # k
  <2>1. got'[k] = got[k] /\ Queued(k) = Queued(k)'
    BY <1>1, <1>2, <1>3, <1>4, <1>5, <1>8, ConcatEmptySeq
  <2> QED BY <1>1, <1>6, <2>1, Zenon
<1> QED BY <1>7, <1>8

(* At the session's end all that is queued or waits is received.           *)
LEMMA FlushDelivery ==
  ASSUME EventInv, DeliveryInv, GenDone PROVE DeliveryInv'
<1>1. /\ evq' = << >> /\ pend' = Nothing /\ UNCHANGED made
      /\ got' = [k \in Kind |-> got[k] \o Queued(k) \o pend[k]]
  BY Zenon DEF GenDone, GenFlush
<1> SUFFICES ASSUME NEW k \in Kind PROVE got'[k] \o Queued(k)' \o pend'[k] = Count(k)'
  BY DEF DeliveryInv
<1>2. got'[k] = Count(k) BY <1>1, Zenon DEF DeliveryInv
<1>3. Queued(k)' = << >> /\ pend'[k] = << >>
  <2>1. Queued(k)' = FlattenSeq(Pieces(evq', k)) BY DEF Queued, Pieces
  <2>2. Pieces(<< >>, k) = << >> BY DEF Pieces
  <2> QED BY <1>1, <2>1, <2>2, FlattenNone DEF Nothing
<1>4. Count(k) \in Seq(Piece)
  <2>1. got[k] \in Seq(Piece) /\ pend[k] \in Seq(Piece) /\ Queued(k) \in Seq(Piece)
    BY QueuedType DEF EventInv, EventType
  <2>2. got[k] \o Queued(k) \o pend[k] \in Seq(Piece) BY <2>1, ConcatProperties
  <2> QED BY <2>2 DEF DeliveryInv
<1>5. (Count(k) \o << >>) \o << >> = Count(k) /\ Count(k)' = Count(k)
  <2>1. Count(k)' = Count(k) BY <1>1 DEF Count
  <2> QED BY <1>4, <2>1, ConcatEmptySeq
<1> QED BY <1>2, <1>3, <1>5, Zenon

(* Every step keeps what is on its way.                                    *)
LEMMA StepDelivery ==
  ASSUME EventInv, EventInv', DeliveryInv, [Next]_vars PROVE DeliveryInv'
<1>1. CASE (\E r \in Req : Begin(r)) \/ Reply \/ Release
  <2>1. evq' = << >> /\ pend' = Nothing /\ made' = [k \in Kind |-> 0] /\ got' = Nothing
    BY <1>1, Zenon DEF Begin, Reply, Release, Clear
  <2>2. (evq = << >> /\ pend = Nothing /\ made = [k \in Kind |-> 0] /\ got = Nothing => DeliveryInv)'
    BY NoDelivery, PTL
  <2> QED BY <2>1, <2>2
<1>2. CASE First \/ Cycle \/ PutOk \/ GenSend \/ GenDone
  BY <1>2, CycleDelivery, PutDelivery, SendDelivery, FlushDelivery
<1>3. CASE ~((\E r \in Req : Begin(r)) \/ Reply \/ Release \/ First \/ Cycle \/ PutOk
            \/ GenSend \/ GenDone)
  <2>1. UNCHANGED <<evq, pend, made, got>>
    BY <1>3, Zenon
    DEF Next, Thread, GenStep, Arrive, GiveUp, Age, PrefillOk, PrefillRefused, PrefillFails, Check,
        Drain, Done, GenerateFails, PutFull, GenGoes, Displace, EvictMirror, LateEnd, Tear,
        Disconnect, events, client, vars
  <2> QED BY <2>1, SameDelivery
<1> QED BY <1>1, <1>2, <1>3

(* The generator's way to its end.                                         *)
LEMMA StepFlush ==
  ASSUME EventInv, FlushInv, [Next]_vars, CoreType PROVE FlushInv'
<1>1. CASE (\E r \in Req : Begin(r)) \/ Reply \/ Release
  <2>1. cancel' = FALSE /\ gpc' \in {"queue", "off"}
    BY <1>1, Zenon DEF Begin, Reply, Release, Clear
  <2> QED BY <2>1 DEF FlushInv
<1>2. CASE First \/ Cycle \/ PutOk
  <2>1. /\ phase # "over" /\ UNCHANGED <<cancel, gone, gpc, dead>>
    BY <1>2 DEF First, Cycle, PutOk, client
  <2> QED BY <2>1, Zenon DEF FlushInv
<1>3. CASE PutFull
  <2>1. /\ phase # "over" /\ UNCHANGED <<gone, gpc>> /\ cancel' = (cancel \/ dead') /\ ~dead
    BY <1>3, Zenon DEF PutFull, client, EventInv, StallInv
  <2> QED BY <2>1, Zenon DEF FlushInv
<1>4. CASE GenSend
  <2>1. gpc = "queue" /\ UNCHANGED <<cancel, gone, gpc, dead>> BY <1>4, Zenon DEF GenSend
  <2> QED BY <2>1 DEF FlushInv
<1>5. CASE GenDone
  BY <1>5 DEF GenDone, GenFlush, FlushInv, session
<1>6. CASE GenStep /\ ~GenSend /\ ~GenDone
  <2>1. /\ UNCHANGED <<cancel, gone, dead, phase, evq, pend>>
        /\ gpc' \in {"await", "finished"} => cancel \/ gpc = "await"
    BY <1>6 DEF GenStep, GenGoes, session, events
  <2> QED BY <2>1 DEF FlushInv
<1>7. CASE Disconnect
  BY <1>7 DEF Disconnect, FlushInv
<1>8. CASE \/ PrefillOk \/ PrefillRefused \/ PrefillFails \/ Check \/ Drain \/ Done \/ GenerateFails
           \/ (\E r \in Req : Arrive(r) \/ GiveUp(r)) \/ (\E k \in Keys : Age(k))
           \/ Displace \/ EvictMirror \/ LateEnd \/ Tear \/ UNCHANGED vars
  <2>1. UNCHANGED <<cancel, gone, dead, gpc, evq, pend>>
    BY <1>8, Zenon
    DEF Arrive, GiveUp, Age, PrefillOk, PrefillRefused, PrefillFails, Check,
        Drain, Done, GenerateFails, Displace, EvictMirror, LateEnd, Tear, events, client, vars
  <2>2. phase = "over" => phase' = "over"
    BY <1>8
    DEF Arrive, GiveUp, Age, PrefillOk, PrefillRefused, PrefillFails, Check,
        Drain, Done, GenerateFails, Displace, EvictMirror, LateEnd, Tear, session, vars
  <2> QED BY <2>1, <2>2, Zenon DEF FlushInv
<1> QED
  BY <1>1, <1>2, <1>3, <1>4, <1>5, <1>6, <1>7, <1>8, Zenon DEF Next, Thread

(* A stream that ends with a finish chunk has delivered every piece of     *)
(* text and of reasoning once and in order (ExactDelivery), for any size   *)
(* of the queue and any number of pieces, however full the queue was       *)
(* meanwhile (_make_stream_events, gen).                                   *)
THEOREM DeliveredExactly == Spec => []ExactDelivery
<1>1. Init => DeliveryInv /\ FlushInv
  <2>1. Init => DeliveryInv
    BY NoDelivery, Zenon DEF Init
  <2>2. Init => FlushInv
    BY DEF Init, FlushInv
  <2> QED BY <2>1, <2>2
<1>2. TypeInv /\ DeliveryInv /\ FlushInv /\ [Next]_vars => DeliveryInv' /\ FlushInv'
  <2> SUFFICES ASSUME TypeInv, DeliveryInv, FlushInv, [Next]_vars PROVE DeliveryInv' /\ FlushInv'
    OBVIOUS
  <2>1. EventInv /\ EventInv' /\ CoreType BY StepType DEF TypeInv, TurnInv
  <2> QED BY <2>1, StepDelivery, StepFlush
<1>3. TypeInv /\ DeliveryInv /\ FlushInv => ExactDelivery
  <2> SUFFICES ASSUME TypeInv, DeliveryInv, FlushInv, gpc = "finished", ~dead, ~gone, NEW k \in Kind
               PROVE  got[k] = [i \in 1 .. made[k] |-> i]
    BY Zenon DEF ExactDelivery
  <2>1. evq = << >> /\ pend[k] = << >> BY DEF FlushInv, Nothing
  <2>2. Queued(k) = << >> BY <2>1, QueuedNone
  <2>3. got[k] \in Seq(Piece) BY DEF TypeInv, EventInv, EventType
  <2>4. (got[k] \o << >>) \o << >> = got[k]
    <3> QED BY <2>3, ConcatEmptySeq
  <2>5. got[k] \o Queued(k) \o pend[k] = Count(k) BY DEF DeliveryInv
  <2> QED BY <2>1, <2>2, <2>4, <2>5, Zenon DEF Count
<1> QED BY <1>1, <1>2, <1>3, InitType, StepType, PTL DEF Spec
=============================================================================
