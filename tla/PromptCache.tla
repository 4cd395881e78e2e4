----------------------------- MODULE PromptCache -----------------------------
(***************************************************************************)
(* The prefix cache of the engine (engine/pcache.py): nodes of KV and      *)
(* recurrent state on disk, each a directory named by the hash of the      *)
(* prompt prefix it ends, chained to the node of a shorter prefix, and the *)
(* manifest that says which of them exist.                                 *)
(*                                                                         *)
(* Two threads share it.  The daemon thread looks a chain up, pins,        *)
(* verifies, quarantines and queues captured nodes; the writer thread      *)
(* writes the queued nodes and evicts.  They meet under PromptCache.lock,  *)
(* so an action is what one thread does between two uses of the lock or of *)
(* the disk.  The process may die between any two actions; disk survives.  *)
(*                                                                         *)
(* Abstracted: all nodes have the same size, so bytes are numbers of       *)
(* nodes; a key has one parent; least-recently-used order is any order     *)
(* among the candidates; a pin that has lapsed is no pin.                  *)
(***************************************************************************)
EXTENDS Integers, Sequences, FiniteSets

CONSTANTS
  Key,          \* node keys (chain hashes)
  NoKey,        \* None
  Parent,       \* the key of the next shorter node of a chain, or NoKey
  Chain,        \* a key's chain: itself and its ancestors
  Base,         \* the key of the conversation the engine boots with
  Quota,        \* QUOTA_BYTES, in nodes
  PinBudget,    \* PIN_BYTE_BUDGET and PIN_MAX_LIVE, in nodes
  Earlier,      \* copies of the manifest that earlier runs of the engine may have left
  QueueMax,     \* maxsize of wq
  MaxRequests,  \* bound: prefills and generates that capture a node
  MaxFaults,    \* bound: failing disk operations and nodes damaged on disk
  MaxRestarts   \* bound: crashes and clean exits

ASSUME KeyAssumption == IsFiniteSet(Key) /\ NoKey \notin Key
ASSUME ParentAssumption == Parent \in [Key -> Key \cup {NoKey}]
ASSUME ChainAssumption ==
  /\ Chain \in [Key -> SUBSET Key]
  /\ \A k \in Key : Chain[k] = {k} \cup IF Parent[k] = NoKey THEN {} ELSE Chain[Parent[k]]
(* The keys of the prefixes of one prompt, each linked to the next shorter. *)
ASSUME PrefixAssumption ==
  \A k \in Key :
    /\ \A j \in Chain[k] : Chain[j] \subseteq Chain[k]
    /\ \A i, j \in Chain[k] : i \in Chain[j] \/ j \in Chain[i]
    /\ \A j \in Chain[k] \ {k} : \E i \in Chain[k] : Parent[i] = j
ASSUME BaseAssumption == Base \in Key /\ Parent[Base] = NoKey
ASSUME SizesAssumption == Quota \in Nat /\ PinBudget \in Nat /\ QueueMax \in Nat
(* What an earlier run saved with no pin() in the way.                     *)
ASSUME EarlierAssumption ==
  \A c \in Earlier : /\ c \in [ent : SUBSET Key, pin : SUBSET Key, mixed : BOOLEAN]
                     /\ ~c.mixed /\ c.pin \subseteq c.ent /\ Cardinality(c.pin) <= PinBudget
ASSUME BoundsAssumption == MaxRequests \in Nat /\ MaxFaults \in Nat /\ MaxRestarts \in Nat

VARIABLES
  man,       \* the keys of man["entries"]
  pins,      \* the entries with a live pin
  protect,   \* PromptCache.protect
  wq,        \* the writer's queue
  wpc,       \* the writer thread
  wkey,      \* the node it writes or evicts, or NoKey
  dpc,       \* the daemon thread
  goal,      \* the prompt of the prefill in hand, as the key of its end, or NoKey
  hit,       \* the end of the chain a prefill found and restores, or NoKey
  last,      \* ST.pc_last_hkey
  graves,    \* nodes quarantined whose directories are still to be removed
  at,        \* the step of _save_man a thread is at
  snap,      \* the entries it copied
  on,        \* where the file it opened is now: "tmp" | "man" | "gone"
  dir,       \* a node's directory: "none" | "whole" | "rotten"
  mfile,     \* manifest.json
  tfile,     \* manifest.json.tmp
  overlap,   \* history: two saves of the manifest overlapped
  lost,      \* history: nodes removed as quarantined after the writer wrote them again
  mixed,     \* history: the engine booted from a manifest whose pins are of no one moment
  requests, fails, rots, restarts   \* the bounds' counters

memory  == <<man, pins, protect>>
writer  == <<wq, wpc, wkey>>
daemon  == <<dpc, goal, hit, last, graves>>
saving  == <<at, snap, on>>
files   == <<mfile, tfile>>
history == <<overlap, lost, mixed>>
budgets == <<requests, fails, rots, restarts>>
vars == <<man, pins, protect, wq, wpc, wkey, dpc, goal, hit, last, graves,
          at, snap, on, dir, mfile, tfile, overlap, lost, mixed,
          requests, fails, rots, restarts>>

Thread == {"daemon", "writer"}
Other(t) == IF t = "daemon" THEN "writer" ELSE "daemon"

(* A copy of the manifest's entries, and a manifest file.  A copy is mixed *)
(* when pins were set while it was being written.                          *)
Copy == [ent : SUBSET Key, pin : SUBSET Key, mixed : BOOLEAN]
NoCopy == [ent |-> {}, pin |-> {}, mixed |-> FALSE]
File == [state : {"none", "empty", "full", "torn"}, copy : Copy]
AFile(s) == [state |-> s, copy |-> NoCopy]
Full(c) == [state |-> "full", copy |-> c]

WriterPc == {"idle", "write", "resave", "renamed", "save", "undo", "unlist",
             "evict", "grave", "evictsave"}
DaemonPc == {"boot", "bootsave", "ingest", "idle", "hit", "pinsave", "protect",
             "verify", "grave", "quarsave", "fresh", "capture", "flush", "flushsave",
             "latesave", "exit"}

----------------------------------------------------------------------------
(* _save_man: copy the entries under the lock, write them to the one       *)
(* temporary file, replace the manifest by it.  Two threads may do it at   *)
(* once, and a file that is open stays the same file when it is renamed.   *)

(* Where the writer goes on when its save ends.                            *)
WriterAfter(ok) ==
  CASE wpc = "resave" -> "idle"
    [] wpc = "save" -> IF ok THEN "evict" ELSE "undo"
    [] OTHER -> "evict"

(* Where the daemon goes on: a failure is no matter to it.                 *)
DaemonAfter ==
  CASE dpc = "bootsave" -> "ingest"
    [] dpc = "pinsave" -> "protect"
    [] dpc = "quarsave" -> "fresh"
    [] OTHER -> "exit"

Return(t, ok) ==
  /\ at' = [at EXCEPT ![t] = "no"]
  /\ snap' = [snap EXCEPT ![t] = NoCopy]
  /\ IF t = "writer"
     THEN /\ wpc' = WriterAfter(ok)
          /\ wkey' = IF wpc' = "undo" THEN wkey ELSE NoKey
          /\ UNCHANGED dpc
     ELSE dpc' = DaemonAfter /\ UNCHANGED <<wpc, wkey>>

StartSave(t) == at' = [at EXCEPT ![t] = "copy"]

(* What a file is after a thread has written its copy to it.               *)
Written(f, c) == IF f.state = "empty" THEN {Full(c)} ELSE {Full(c), AFile("torn")}

SaveCopy(t) ==
  /\ at[t] = "copy"
  /\ at' = [at EXCEPT ![t] = "open"]
  /\ snap' = [snap EXCEPT ![t] = [ent |-> man, pin |-> pins, mixed |-> FALSE]]
  /\ overlap' = (overlap \/ at[Other(t)] \notin {"no", "copy"})
  /\ UNCHANGED <<memory, writer, daemon, on, dir, files, lost, mixed, budgets>>

(* Fault: the manifest is written in place.                                *)
SaveOpenInPlace(t) ==
  /\ at[t] = "open"
  /\ at' = [at EXCEPT ![t] = "write"]
  /\ on' = [on EXCEPT ![t] = "man"]
  /\ mfile' = AFile("empty")
  /\ UNCHANGED <<memory, writer, daemon, snap, dir, tfile, history, budgets>>

SaveOpen(t) ==
  /\ at[t] = "open"
  /\ at' = [at EXCEPT ![t] = "write"]
  /\ on' = [on EXCEPT ![t] = "tmp"]
  /\ tfile' = AFile("empty")
  /\ UNCHANGED <<memory, writer, daemon, snap, dir, mfile, history, budgets>>

SaveWrite(t) ==
  /\ at[t] = "write"
  /\ at' = [at EXCEPT ![t] = "swap"]
  /\ \/ on[t] = "tmp" /\ tfile' \in Written(tfile, snap[t]) /\ UNCHANGED mfile
     \/ on[t] = "man" /\ mfile' \in Written(mfile, snap[t]) /\ UNCHANGED tfile
     \/ on[t] = "gone" /\ UNCHANGED files
  /\ UNCHANGED <<memory, writer, daemon, snap, on, dir, history, budgets>>

(* os.replace, which fails when the other thread has moved the file away.  *)
SaveSwap(t) ==
  /\ at[t] = "swap"
  /\ Return(t, tfile.state # "none")
  /\ IF tfile.state = "none"
     THEN UNCHANGED files /\ on' = [on EXCEPT ![t] = "gone"]
     ELSE /\ mfile' = tfile
          /\ tfile' = AFile("none")
          /\ on' = [u \in Thread |-> IF u # t /\ on[u] = "tmp" THEN "man" ELSE "gone"]
  /\ UNCHANGED <<memory, wq, goal, hit, last, graves, dir, history, budgets>>

(* The disk is full, or the file cannot be opened.                         *)
SaveFail(t) ==
  /\ at[t] \in {"open", "write"}
  /\ fails + rots < MaxFaults
  /\ fails' = fails + 1
  /\ Return(t, FALSE)
  /\ on' = [on EXCEPT ![t] = "gone"]
  /\ UNCHANGED <<memory, wq, goal, hit, last, graves, dir, files, history,
                 requests, rots, restarts>>

(* The copy shares its entries with the manifest: pins set while the       *)
(* writer has it in hand may be written beside those taken away meanwhile  *)
(* (the file may have fewer of them: Load lets any lapse).                 *)
Shared(c, P) == [c EXCEPT !.pin = @ \cup (P \cap c.ent),
                          !.mixed = @ \/ ~(P \cap c.ent \subseteq c.pin)]

SaveStep(t) == SaveCopy(t) \/ SaveOpen(t) \/ SaveWrite(t) \/ SaveSwap(t)

----------------------------------------------------------------------------
(* The writer thread.                                                      *)

Take ==
  /\ wpc = "idle" /\ wq # << >>
  /\ wkey' = Head(wq) /\ wq' = Tail(wq) /\ wpc' = "write"
  /\ UNCHANGED <<memory, daemon, saving, dir, files, history, budgets>>

(* _write_node_sync fails in the staging directory; the node is dropped.   *)
StageFail ==
  /\ wpc = "write" /\ fails + rots < MaxFaults
  /\ fails' = fails + 1
  /\ wpc' = "idle" /\ wkey' = NoKey
  /\ UNCHANGED <<memory, wq, daemon, saving, dir, files, history,
                 requests, rots, restarts>>

(* The node is there already: its entry is refreshed and saved, no more.   *)
WriteAgain ==
  /\ wpc = "write" /\ wkey \in man /\ dir[wkey] # "none"
  /\ wpc' = "resave" /\ StartSave("writer")
  /\ UNCHANGED <<memory, wq, wkey, daemon, snap, on, dir, files, history, budgets>>

(* The staged directory takes the node's name; a leftover goes away.       *)
Rename ==
  /\ wpc = "write" /\ ~(wkey \in man /\ dir[wkey] # "none")
  /\ dir' = [dir EXCEPT ![wkey] = "whole"]
  /\ wpc' = "renamed"
  /\ UNCHANGED <<memory, wq, wkey, daemon, saving, files, history, budgets>>

(* Fault: the entry is left to the next save.                              *)
InsertUnsaved ==
  /\ wpc = "renamed"
  /\ man' = man \cup {wkey} /\ pins' = pins \ {wkey}
  /\ wpc' = "evict" /\ wkey' = NoKey
  /\ UNCHANGED <<protect, wq, daemon, saving, dir, files, history, budgets>>

Insert ==
  /\ wpc = "renamed"
  /\ man' = man \cup {wkey} /\ pins' = pins \ {wkey}
  /\ wpc' = "save" /\ StartSave("writer")
  /\ UNCHANGED <<protect, wq, wkey, daemon, snap, on, dir, files, history, budgets>>

(* Fault: the directory of the node given up stays.                        *)
UndoNoDir ==
  /\ wpc = "undo"
  /\ wpc' = "unlist"
  /\ UNCHANGED <<memory, wq, wkey, daemon, saving, dir, files, history, budgets>>

(* The save failed: the directory goes, then its entry, and the writer     *)
(* does not evict.                                                         *)
UndoDir ==
  /\ wpc = "undo"
  /\ dir' = [dir EXCEPT ![wkey] = "none"] /\ wpc' = "unlist"
  /\ UNCHANGED <<memory, wq, wkey, daemon, saving, files, history, budgets>>

(* Fault: the entry goes but its pin is still counted.                     *)
UndoKeepsPin ==
  /\ wpc = "unlist"
  /\ man' = man \ {wkey}
  /\ wpc' = "idle" /\ wkey' = NoKey
  /\ UNCHANGED <<pins, protect, wq, daemon, saving, dir, files, history, budgets>>

UndoEntry ==
  /\ wpc = "unlist"
  /\ man' = man \ {wkey} /\ pins' = pins \ {wkey}
  /\ wpc' = "idle" /\ wkey' = NoKey
  /\ UNCHANGED <<protect, wq, daemon, saving, dir, files, history, budgets>>

(* The nodes counted: the entries, the queued nodes and the one in hand.   *)
Total == Cardinality(man) + Len(wq) + IF wpc = "idle" THEN 0 ELSE 1

(* Leaves that are neither protected nor pinned.                           *)
Candidates == {k \in man \ (protect \cup pins) : \A c \in man : Parent[c] # k}

Victims == IF Total > Quota /\ Cardinality(man) > 1 THEN Candidates ELSE {}

EvictOne ==
  /\ wpc = "evict"
  /\ \E k \in Victims :
       /\ man' = man \ {k} /\ pins' = pins \ {k}
       /\ wkey' = k
  /\ wpc' = "grave"
  /\ UNCHANGED <<protect, wq, daemon, saving, dir, files, history, budgets>>

EvictDir ==
  /\ wpc = "grave"
  /\ dir' = [dir EXCEPT ![wkey] = "none"]
  /\ wpc' = "evictsave" /\ wkey' = NoKey /\ StartSave("writer")
  /\ UNCHANGED <<memory, wq, daemon, snap, on, files, history, budgets>>

(* Fault: the writer waits until what is left may be evicted.              *)
EvictUntilRoom ==
  /\ wpc = "evict" /\ Total <= Quota
  /\ wpc' = "idle"
  /\ UNCHANGED <<memory, wq, wkey, daemon, saving, dir, files, history, budgets>>

EvictEnd ==
  /\ wpc = "evict" /\ Victims = {}
  /\ wpc' = "idle"
  /\ UNCHANGED <<memory, wq, wkey, daemon, saving, dir, files, history, budgets>>

WriterStep ==
  \/ Take \/ WriteAgain \/ Rename \/ Insert \/ UndoDir \/ UndoEntry
  \/ EvictOne \/ EvictDir \/ EvictEnd \/ SaveStep("writer")

----------------------------------------------------------------------------
(* The daemon thread: a prefill that may hit the cache.                    *)

(* The ends of complete chains that are prefixes of the prompt.            *)
Complete(g) == {k \in Chain[g] : Chain[k] \subseteq man}

(* The deepest of them: it ends no chain shorter than another's.           *)
Deepest(S) == {k \in S : S \subseteq Chain[k]}

(* Fault: the chain found is protected only when it is restored.           *)
LookupUnprotected(g, k) == hit' = k /\ UNCHANGED protect

(* The lookup protects what it returns before it lets go of the lock.      *)
LookupHit(g, k) == hit' = k /\ protect' = protect \cup Chain[k]

(* _pc_prefill.  A chain that covers too little of the prompt is no hit.   *)
Request ==
  /\ dpc = "idle" /\ requests < MaxRequests
  /\ requests' = requests + 1
  /\ \E g \in Key :
       /\ goal' = g
       /\ \/ /\ dpc' = "fresh" /\ UNCHANGED <<hit, protect>>
          \/ /\ dpc' = "hit"
             /\ \E k \in Deepest(Complete(g)) : LookupHit(g, k)
  /\ UNCHANGED <<man, pins, writer, last, graves, saving, dir, files, history,
                 fails, rots, restarts>>

(* The pins after pin(): pins outside the chain are dropped until there is *)
(* room or there are none, then the chain is pinned as deep as fits.       *)
Fits(S) == Cardinality(S) <= PinBudget

(* Fault: the chain is pinned whole, whatever the budget.                  *)
PinWhole(todo) == {pins \cup todo}

AfterPin(todo) ==
  LET dropped == {V \in SUBSET (pins \ todo) :
                    /\ Fits((pins \cup todo) \ V) \/ V = pins \ todo
                    /\ \A v \in V : ~Fits(((pins \cup todo) \ V) \cup {v})}
      within(V, k) == Fits((pins \ V) \cup (Chain[k] \cap todo))
  IN  {(pins \ V) \cup {k \in todo : within(V, k)} : V \in dropped}

Pin ==
  /\ dpc = "hit"
  /\ \/ /\ pins' \in AfterPin(Chain[hit] \cap man)
        /\ dpc' = "pinsave" /\ StartSave("daemon")
     \/ /\ dpc' = "protect" /\ UNCHANGED <<pins, at>>
  /\ snap' = IF at["writer"] \in {"open", "write"}
             THEN [snap EXCEPT !["writer"] = Shared(@, pins')] ELSE snap
  /\ UNCHANGED <<man, protect, writer, goal, hit, last, graves, on, dir, files,
                 history, budgets>>

(* set_protect: the chain takes the place of what was resident.            *)
SetProtect ==
  /\ dpc = "protect"
  /\ protect' = Chain[hit] /\ dpc' = "verify"
  /\ UNCHANGED <<man, pins, writer, goal, hit, last, graves, saving, dir, files,
                 history, budgets>>

(* restore_chain: every node is verified before the first upload, and the  *)
(* uploads read files that are open by then.                               *)
Restore ==
  /\ dpc = "verify" /\ \A k \in Chain[hit] : dir[k] = "whole"
  /\ last' = hit /\ hit' = NoKey /\ goal' = NoKey /\ dpc' = "idle"
  /\ UNCHANGED <<memory, writer, graves, saving, dir, files, history, budgets>>

(* The first bad node of the chain.                                        *)
FirstBad == {k \in Chain[hit] : /\ dir[k] # "whole"
                                /\ \A j \in Chain[k] \ {k} : dir[j] = "whole"}

(* The node and the entries that hang below it.                            *)
Subtree(b) == {k \in man : b \in Chain[k] /\ \A j \in Chain[k] \ Chain[b] : j \in man}

(* quarantine: the subtree leaves the manifest, then its directories go.   *)
Quarantine ==
  /\ dpc = "verify"
  /\ \E b \in FirstBad :
       /\ man' = man \ Subtree(b) /\ pins' = pins \ Subtree(b)
       /\ protect' = protect \ (Subtree(b) \cup {b})
       /\ graves' = Subtree(b)
  /\ hit' = NoKey
  /\ dpc' = IF graves' = {} THEN "fresh" ELSE "grave"
  /\ UNCHANGED <<writer, goal, last, saving, dir, files, history, budgets>>

Listed == man \cup IF wpc = "renamed" THEN {wkey} ELSE {}

QuarantineDir ==
  /\ dpc = "grave"
  /\ \E k \in graves : /\ dir' = [dir EXCEPT ![k] = "none"]
                       /\ graves' = graves \ {k}
                       /\ lost' = lost \cup ({k} \cap Listed)
  /\ IF graves' # {} THEN UNCHANGED <<dpc, at>>
     ELSE dpc' = "quarsave" /\ StartSave("daemon")
  /\ UNCHANGED <<memory, writer, goal, hit, last, snap, on, files, overlap, mixed, budgets>>

(* h_prefill FRESH: nothing is resident any more.                          *)
Fresh ==
  /\ dpc = "fresh"
  /\ last' = NoKey /\ protect' = {} /\ dpc' = "capture"
  /\ UNCHANGED <<man, pins, writer, goal, hit, graves, saving, dir, files, history, budgets>>

(* write_node: the node is queued unless it is there or the queue is full, *)
(* and is protected all the same (_pc_node_done).                          *)
WriteNode(k) ==
  /\ wq' = IF k \in man \/ Len(wq) >= QueueMax THEN wq ELSE Append(wq, k)
  /\ last' = k
  /\ protect' = protect \cup {k}

(* _pc_ingest_cb at the next boundary of the prompt.                       *)
Capture ==
  /\ dpc = "capture"
  /\ \E k \in Chain[goal] : /\ Parent[k] = last
                            /\ WriteNode(k)
                            /\ IF k = goal THEN dpc' = "idle" /\ goal' = NoKey
                               ELSE UNCHANGED <<dpc, goal>>
  /\ UNCHANGED <<man, pins, wpc, wkey, hit, graves, saving, dir, files, history, budgets>>

(* A checkpoint raises: the prefill is cancelled between two chunks.       *)
CancelPrefill ==
  /\ dpc = "capture"
  /\ dpc' = "idle" /\ goal' = NoKey
  /\ UNCHANGED <<memory, writer, hit, last, graves, saving, dir, files, history, budgets>>

(* _pc_turn_end.                                                           *)
TurnEnd ==
  /\ dpc = "idle" /\ requests < MaxRequests
  /\ requests' = requests + 1
  /\ \E k \in Key : Parent[k] = last /\ WriteNode(k)
  /\ UNCHANGED <<man, pins, wpc, wkey, dpc, goal, hit, graves, saving, dir, files,
                 history, fails, rots, restarts>>

----------------------------------------------------------------------------
(* Start, crash and clean exit.                                            *)

(* _load: the entries of a readable manifest that have a directory stay;   *)
(* every other directory goes; some pins have lapsed meanwhile.            *)
Loaded == IF mfile.state = "full" THEN mfile.copy ELSE NoCopy

(* Fault: an entry stays whatever is left of its directory.                *)
KeptAll == Loaded.ent

Kept == {k \in Loaded.ent : dir[k] # "none"}
OnDisk == {k \in Key : dir[k] # "none"}

Load ==
  /\ dpc = "boot"
  /\ man' = Kept
  /\ pins' \in SUBSET (Loaded.pin \cap Kept)
  /\ mixed' = (mixed \/ Loaded.mixed)
  /\ dir' = [k \in Key |-> IF k \in Kept THEN dir[k] ELSE "none"]
  /\ IF Kept = Loaded.ent /\ Kept = OnDisk
     THEN dpc' = "ingest" /\ UNCHANGED at
     ELSE dpc' = "bootsave" /\ StartSave("daemon")
  /\ UNCHANGED <<protect, writer, goal, hit, last, graves, snap, on, files,
                 overlap, lost, budgets>>

(* _pc_boot_ingest: the boot conversation's node.                          *)
BootIngest ==
  /\ dpc = "ingest"
  /\ WriteNode(Base)
  /\ dpc' = "idle"
  /\ UNCHANGED <<man, pins, wpc, wkey, goal, hit, graves, saving, dir, files, history, budgets>>

(* _clean_exit: flush() waits for the writer, or gives up, and saves.      *)
Shutdown ==
  /\ dpc = "idle" /\ restarts < MaxRestarts
  /\ dpc' = "flush"
  /\ UNCHANGED <<memory, writer, goal, hit, last, graves, saving, dir, files, history, budgets>>

(* Nothing is queued and nothing is in hand (_outstanding = 0).            *)
QueueEmpty == wq = << >>       \* fault: the node in hand is not waited for
Drained == wq = << >> /\ wpc = "idle"

Flush ==
  /\ dpc = "flush"
  /\ \/ Drained /\ dpc' = "flushsave"
     \/ dpc' = "latesave"
  /\ StartSave("daemon")
  /\ UNCHANGED <<memory, writer, goal, hit, last, graves, snap, on, dir, files, history, budgets>>

(* The process ends and is started again; staging is cleaned.              *)
Restart ==
  /\ restarts < MaxRestarts
  /\ restarts' = restarts + 1
  /\ man' = {} /\ pins' = {} /\ protect' = {}
  /\ wq' = << >> /\ wpc' = "idle" /\ wkey' = NoKey
  /\ dpc' = "boot" /\ goal' = NoKey /\ hit' = NoKey /\ last' = NoKey /\ graves' = {}
  /\ at' = [t \in Thread |-> "no"] /\ snap' = [t \in Thread |-> NoCopy]
  /\ on' = [t \in Thread |-> "gone"]
  /\ lost' = {}
  /\ UNCHANGED <<dir, files, overlap, mixed, requests, fails, rots>>

(* Somebody damages a node's files.                                        *)
Rot ==
  /\ fails + rots < MaxFaults
  /\ rots' = rots + 1
  /\ \E k \in OnDisk : dir' = [dir EXCEPT ![k] = "rotten"]
  /\ UNCHANGED <<memory, writer, daemon, saving, files, history, requests, fails, restarts>>

(* A pin's time is over.                                                   *)
Lapse ==
  /\ \E k \in pins : pins' = pins \ {k}
  /\ UNCHANGED <<man, protect, writer, daemon, saving, dir, files, history, budgets>>

----------------------------------------------------------------------------
Init ==
  /\ man = {} /\ pins = {} /\ protect = {}
  /\ wq = << >> /\ wpc = "idle" /\ wkey = NoKey
  /\ dpc = "boot" /\ goal = NoKey /\ hit = NoKey /\ last = NoKey /\ graves = {}
  /\ at = [t \in Thread |-> "no"] /\ snap = [t \in Thread |-> NoCopy]
  /\ on = [t \in Thread |-> "gone"]
  /\ \E c \in Earlier :
       /\ dir = [k \in Key |-> IF k \in c.ent THEN "whole" ELSE "none"]
       /\ mfile = IF c.ent = {} THEN AFile("none") ELSE Full(c)
  /\ tfile = AFile("none")
  /\ overlap = FALSE /\ lost = {} /\ mixed = FALSE
  /\ requests = 0 /\ fails = 0 /\ rots = 0 /\ restarts = 0

DaemonStep ==
  \/ Request \/ Pin \/ SetProtect \/ Restore \/ Quarantine \/ QuarantineDir
  \/ Fresh \/ Capture \/ CancelPrefill \/ TurnEnd
  \/ Load \/ BootIngest \/ Shutdown \/ Flush \/ SaveStep("daemon")

Fault == Restart \/ Rot \/ Lapse \/ StageFail \/ \E t \in Thread : SaveFail(t)

Next == WriterStep \/ DaemonStep \/ Fault

(* The writer is a thread of its own and is scheduled.                     *)
Spec == Init /\ [][Next]_vars /\ WF_vars(WriterStep)

----------------------------------------------------------------------------
(* Properties.                                                             *)

MemoryType == man \subseteq Key /\ pins \subseteq man /\ protect \subseteq Key
WriterType == wq \in Seq(Key) /\ wpc \in WriterPc /\ wkey \in Key \cup {NoKey}
DaemonType ==
  /\ dpc \in DaemonPc /\ graves \subseteq Key
  /\ goal \in Key \cup {NoKey} /\ hit \in Key \cup {NoKey} /\ last \in Key \cup {NoKey}
SavingType ==
  /\ at \in [Thread -> {"no", "copy", "open", "write", "swap"}]
  /\ snap \in [Thread -> Copy] /\ on \in [Thread -> {"tmp", "man", "gone"}]
DiskType ==
  dir \in [Key -> {"none", "whole", "rotten"}] /\ mfile \in File /\ tfile \in File
HistoryType == overlap \in BOOLEAN /\ lost \subseteq Key /\ mixed \in BOOLEAN
BudgetType == requests \in Nat /\ fails \in Nat /\ rots \in Nat /\ restarts \in Nat

(* Every variable keeps its type.                                          *)
TypeOK ==
  /\ MemoryType /\ WriterType /\ DaemonType /\ SavingType /\ DiskType
  /\ HistoryType /\ BudgetType

(* While the process runs an entry has its directory, but for the node     *)
(* whose write is being undone and those a quarantine removed after the    *)
(* writer had written them again (write_node, quarantine, evict).          *)
EntriesHaveDirs ==
  dpc # "boot" =>
    \A k \in man : dir[k] # "none" \/ k \in lost \/ (wpc = "unlist" /\ k = wkey)

(* No directory is left without an entry while the process runs: only the  *)
(* node the writer is inserting or evicting and those being quarantined.   *)
NoOrphanDirs ==
  dpc # "boot" =>
    \A k \in Key \ man :
      dir[k] # "none" => k \in graves \/ (wpc \in {"renamed", "grave"} /\ k = wkey)

(* The manifest on disk is whole at every instant a crash may come, unless *)
(* two saves overlapped on the one temporary file.                         *)
ManifestWhole == ~overlap => mfile.state \in {"none", "full"}

(* A crash loses no cached node but the one whose save is under way,       *)
(* unless saves overlapped or failed.                                      *)
CrashLosesOnlyInHand ==
  ~overlap /\ fails = 0 /\ dpc # "boot" =>
    \A k \in man : \/ mfile.state = "full" /\ k \in mfile.copy.ent
                   \/ wpc = "save" /\ k = wkey

(* Live pins keep within their budget, across requests and restarts: every *)
(* manifest a restart may find holds no more of them (pin, _save_man,      *)
(* _load), but for one that was being written while pin() changed its      *)
(* entries, from which an engine may boot with too many.                   *)
PinBudgetKept == mixed \/ Fits(pins)

(* The chain from its lookup to the end of its restore, and the chain of   *)
(* the conversation in the engine until another takes its place.           *)
Held ==
  (IF dpc \in {"hit", "pinsave", "protect", "verify"} THEN Chain[hit] ELSE {})
  \cup (IF last = NoKey \/ dpc \in {"verify", "grave", "quarsave", "fresh"} THEN {}
        ELSE Chain[last])

(* Eviction takes no node of a chain that is being restored or resident,   *)
(* no pinned node and none that another cached chain runs through.         *)
EvictionSparesChains ==
  [][EvictOne => \A k \in man \ man' :
                   /\ k \notin Held \cup pins
                   /\ \A c \in man' : Chain[c] \subseteq man => k \notin Chain[c]]_vars

(* A clean exit whose flush drained the queue leaves a manifest with every *)
(* entry, whatever was saved, lost or torn before.                         *)
CleanExitPersists ==
  [][dpc = "flushsave" /\ dpc' = "exit" /\ fails' = fails
       => mfile'.state = "full" /\ mfile'.copy.ent = man]_vars

(* The writer finishes what it took, eviction included.                    *)
WriterReturns == wpc # "idle" ~> wpc = "idle"
=============================================================================
