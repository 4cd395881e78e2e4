# ThunderLlamaX in TLA+

ThunderLlamaX serves one large language model from a GPU that hangs off a Mac's Thunderbolt port. Three programs
take part: an OpenAI-compatible HTTP API (`src/engine/api_server.py`, one asyncio loop), a daemon that owns the GPU
(`src/engine/serve.py`, one worker thread with a socket listener, a heartbeat and a watchdog), and the decode engine
inside it (`src/engine/mtp.py` and the CUDA kernels). This directory models the parts of them that carry control:
who may run, what device state belongs to which conversation, what is kept on disk, and what happens when something
stops half way.

Run everything from this directory: `tlc -config Admission.cfg MCAdmission`, `tlc -config PromptCache.cfg
MCPromptCache`, `tlapm AdmissionProofs.tla`, and so on: the table of runs names each configuration, and a configuration
belongs to the `MC` module whose name its own begins with.

## Inventory

| Component | State it keeps | Operations | What is hard | What makes it correct |
|---|---|---|---|---|
| API admission (`api_server.py` 500-620, 1660-2037) | `QSTATE`, `CONV_LOCKS`, one task, session and slot guard per stream | `q_acquire`, `q_release`, `_conv_lock`, `release_slot`, watchdog | tasks cancelled between grant and resumption, two owners of one permit, registry hygiene | no leaked or double permit, FIFO, one session per conversation, nobody starves |
| API conversation mirror (622-690, 1224-1280, 1330-1567) | `RESIDENTS` LRU, the `fed` mirror, `_IDEMP` | `_decide_prefix`, `_run_engine_sync`, retry classes | mirror and daemon disagree after failures | FOLLOW_UP only onto what the engine holds |
| API stream events (695-871, 1294-1327) | pending deltas, filters | `on_event`, `DetokStream`, gates | coalescing, chunk boundaries | text independent of chunking, nothing lost before the end |
| Speculative decode (`mtp.py`, `accept*.cu`, `h_argmax.cu`) | recurrent state twice, KV slabs, slots, graph-set and T=1 mode | `step`, `_step_t1`, `begin`, `stload_trunk`, `stseed_spec`, `follow_up`, resets | rejected drafts, ping-pong parity, mode switches, two worlds | output is the model's greedy continuation |
| Legacy daemon RPC (`serve.py` 142-355, 487-1160) | `ST` (mode, dirty, pos_cache, fed, conversation), snapshots on disk | `handle`, `h_prefill`, `h_generate`, `h_snapshot_save/load`, cancel | cancellation, faults, restarts, stale host copies | host state follows device state; half-done work is never continued |
| Batch daemon (`serve.py` 1164-1900, `r6_*.py`) | `streams`, `by_conn`, fences | `_pick_slot`, `b_handle`, `batch_step`, interleaved prefill | eviction between decision and use | a connection's reply comes from its own slot |
| Prefix cache (`pcache.py`) | manifest, node directories, pins, writer queue | `write_node`, `lookup`, `pin`, `evict`, `quarantine`, `restore_chain` | two threads, crash between writes | a restored chain is what its key says |
| Command graphs (`gcycle.py`, `ka_pool.py`) | timeline values, submit budget | submit, rebuild | budget of about 950 submits | rebuild happens in time |
| Service operations (`ops/`) | state files, pid lock, breaker | switch, supervise, watch | crash between two files | next boot resolves to one model |

Interaction: an HTTP request is admitted, takes its conversation's lock, and runs a session in an executor thread. The
session opens a Unix socket to the daemon and sends `prefill`, then `generate`; events come back per cycle. The daemon
serves one RPC at a time (the batch daemon: one barrier RPC at a time among decoding streams). A `cancel` line or a
failed send sets a flag the worker reads between cycles or prefill chunks. A fault makes the daemon exit and a
supervisor start it again; only snapshots and cache nodes survive.

## Modules

| Module | Role |
|---|---|
| `Admission` | permit queue, conversation locks, stream life cycle and admission watchdog |
| `MCAdmission` | its constants for TLC |
| `AdmissionProofs` | its inductive invariant and theorems: permits and waiters |
| `AdmissionLockProofs` | theorems about conversation locks and the sessions under them |
| `AdmissionQueueProofs` | theorems about the order of admission |
| `GreedyDecode` | abstract: what the decode engine promises about the resident conversation |
| `SpecDecode` | the decode engine under the RPCs of the legacy daemon; implements `GreedyDecode` |
| `MCSpecDecode` | its constants for TLC |
| `SpecDecodeProofs` | its theorems and the refinement |
| `PromptCache`, `MCPromptCache` | the prefix cache: two threads, the manifest, directories, crashes |
| `Batch`, `MCBatch` | the batch daemon: two slots, queues, the barrier of a prefill, cancels, fences |
| `Turn`, `MCTurn` | the turns of one conversation at the API: idempotency, mirror, stream events |
| `PromptCacheProofs`, `BatchProofs`, `TurnProofs` | theorems about these three |
| `Flattening` | lemmas about the concatenation of a sequence of sequences, for the queues of `Batch` and `Turn` |

The modules meet where the programs do, and each takes the other side as the code sees it. `Turn` takes its sessions
one at a time, which is what `Admission` is about (and whose findings say where it fails); its engine is the slot as
`status` and the replies show it, which is what `Batch` (and for the legacy daemon `SpecDecode`) says of a slot. `Batch`
takes a cache hit as given; `PromptCache` says what a hit is.

### Admission

One action is what a task does between two awaits, so every interleaving the loop can produce is there. `pc[r]` is where
request `r`'s task stands; `grant[r]` is its future in `QSTATE["wait"]` (pending, resolved, cancelled), `place[r]` its
place in the deque, dead futures included; `active` and `permits` are the counters. `sess[r]` is the executor thread,
which nothing the task does can stop. The lock registry maps a conversation to a lock object, and lock objects are named
by the request that created them, so that two objects for one conversation can be told apart. `asyncio.Lock` is external
and modelled from CPython's contract: `release` resolves the first waiter's future, the lock stays unlocked until that
waiter runs, and a newcomer may not overtake it. `LockTimeout` contains both releases the code makes (the handler's and
the route's). The status answer the watchdog awaits is "busy" only if some session may be running, "idle" at any time:
the engine is idle between the RPCs of one session.

### SpecDecode and GreedyDecode

A device buffer is represented by the token sequence it has absorbed, its *tag*; a buffer fed from unequal inputs gets
the tag `Junk`. This is exact for the property at stake, because a recurrent state or a KV row is a function of the token
sequence, and it keeps floating point out of the model. `Greedy(s)` is the model's answer after `s`; a step whose inputs
do not all carry the tag it needs may answer anything (`Probes`, `Answers`).

* `eng` holds slot 4 of `rec4`/`conv4` (the spec world), `rec` and the two conv halves (the trunk world), the KV rows of
  all planes, `pos_slot`, `cur_slot`, `tok_slot` and the fields of `DecodeSession`.
* A cycle (`SpecCycle`) lets the draft be any token sequence of the active set's length and the lookup hit be any
  boolean: proposals are heuristics and nothing may depend on them. All rows of the draft are written, accepted or not;
  a row past the end of its plane lands in the next plane, as the kernel's address arithmetic has it.
* `T1Cycle` is a cycle of the T=1 mode with its ping-pong parity.
* `AfterCycle` is the rest of the loop body of `h_generate`: emit check, perhaps a graph rebuild (done, refused by the
  capacity asserts, or failed after parking).
* Prefill by chunks (`pf_prefill`) and by single tokens leave the same live state; `Feed` is both. The KV slab has
  `Planes` planes one after the other, the layout `(2, 4, CTXK, 256)` of the loader.
* `text` is a history variable: the conversation as reported to the client, prompt included, its last token not yet fed.
  It is `<<>>` from the moment the daemon itself knows, or the model shows, that nothing can be promised (a partial
  prefill, a failed emit check, a run past the context, a reload that did not bring everything back) until the next
  prefill or sound reload. `strained` remembers that the conversation ran past the context or that a reload brought back
  less than it saved, of which the daemon's own dirty mark knows nothing.
* `Resumable` is the dirty gate of a FOLLOW_UP. `FollowUpExtendsWhole` states what the gate is for: what a FOLLOW_UP is
  about to append to has absorbed the whole conversation, to its last row and slot.
* `knob` chooses between the two boot configurations the code distinguishes: T=1 mode, or the K4-EAGLE prose set.
* `snap` survives `Reboot`.

`GreedyDecode` has three variables, the conversation, the saved one and whether a reply is being generated; it says what
may become of the conversation at each kind of step, and that a reply only ever appends greedy tokens. `Lossless` is the
refinement.

### PromptCache

The daemon thread (`dpc`) and the writer thread (`wpc`) share the manifest in memory (`man`, `pins`, `protect`) under
`PromptCache.lock`, and the disk under no lock at all: node directories (`dir`), `manifest.json` and its one temporary
file (`mfile`, `tfile`). An action is what a thread does between two uses of the lock or of the disk. `_save_man` is four
actions (`SaveCopy`, `SaveOpen`, `SaveWrite`, `SaveSwap`) that either thread may be in, so that their saves overlap;
`on[t]` follows the inode a thread has open when the other renames the file under it. `write_node` is `WriteNode`
(queued), then `Take`, `Rename`, `Insert`, the save, or `UndoDir` and `UndoEntry` when the save fails; `evict` is
`EvictOne`, `EvictDir` and a save, until `EvictEnd`. A prefill is `Request` (lookup), `Pin`, `SetProtect`, `Restore` or
`Quarantine`, then `Fresh` and `Capture` per boundary. `Restart` is a crash at any point, or the end of a clean exit
(`Shutdown`, `Flush`); `Load` is the boot. All nodes have one size, and least-recently-used is any order.

The copy `_save_man` takes under the lock is shallow: the entries in it are those of the manifest. `Pin` therefore
changes the copy the writer thread has in hand as well (`Shared`), and the file may come to hold new pins beside old ones
that `pin` has dropped meanwhile. Such a file is marked `mixed`, and so is, from then on, an engine that boots from one.
`Earlier` are the manifests that runs of the engine before the first boot may have left.

### Batch

Each connection has a listener thread that fills `queue` (`SendPrefill`, `SendGenerate`), arms cancels (`Cancel`) and
unbinds a connection that closes (`Close`, then `Purge`: the look at `pending` and its rewrite are two steps). The
daemon thread is `dpc`: `HandlePending`, `HandleQueue` and `MainStep` are a turn of its loop; `Chunk`, `Drain` and
`DrainStep` are a chunk of a prefill and what `_interleave` lets through after it. `Bind` is `_b_prefill` up to the
first chunk, `Finish`, `Abort` and `PrefillFault` are its ends. `BatchStep` is `batch_step` with `_process_emit`,
`_finish_gen` and `_pc_turn_end_st`; `Fence` is `_fence_all_rebuild`, which may fail. `StepFault` is a step that raises:
its graphs may have been submitted or not, its cycle counted or not, and the fence is not tested (`FenceSkipped`);
`slips` remembers how many ran. What the banks of a slot hold is `rows`: whose, and how they came about (fed in part,
whole, or disturbed by the cycles of a stray generate or of a step that raised). `named` is whether a slot carries the
API's model id, which every prefill of the API sets and a snapshot load does not: `_pick_slot` finds a conversation only
under it. `_b_prefill` does not ask whether the slot of a FOLLOW_UP is dirty, and neither does `Bind`; `patched`
remembers the slots where it was. Clients keep to the API's session, but may stop, leave, cancel, or ask for a generate
after a failed prefill.

### Turn

A request goes through `Arrive` (the idempotency claim), `Begin` (`_decide_prefix`), the session of its executor thread
(`PrefillOk`, `PrefillRefused`, `First`, `Cycle`, `Check`, `Drain`, `Done`, and the ways each fails), and `Reply` or,
for a stream, `Release`. `mirror` is the conversation's entry in `RESIDENTS`, `eng` the slot: the turn whose rows it
holds, their length, whether it is dirty, and what it holds that the client was not shown (`tail`): tokens past the
visible cap, which the code mirrors and reuses on purpose, tokens past a stop, a cancel or a fault, or those of a cycle
that raised (`torn`). A stop token, a visible cap passed within a cycle (whose tokens are mirrored twice), a cancel and
a drain with late tokens each move the two by different amounts, as the code has it. The send of the generate, the
prefill's own token and the drain it may lead to (`First`, phase `bail`) are outside the handlers of the event loop: a
session that fails there records its mirror as it stands, reusable or not (`GenerateFails`). A drain that times out
leaves a generate nobody reads (`late`), which ends whenever it does (`LateEnd`). The stream is `PutOk` and `PutFull` on
the thread's side, `GenSend`, `GenDone` and the generator's three separate looks (at `dead`, at the future, at
`cancel_flag`) on the other. A prompt, a turn's delta and a cycle's tokens count one each; a client's history ends with
the turn `knows`.

## Runs

| Run | Config | Shows |
|---|---|---|
| `admission` | `Admission.cfg` | eight properties of permits, deques and locks, four requests |
| `admission_live` | `AdmissionLive.cfg` | every request ends (`NoStarvation`) |
| `admission_permits` | `AdmissionPermits.cfg` | violation: a lock timeout releases the permit twice |
| `admission_sessions` | `AdmissionSessions.cfg` | violation: backpressure frees the lock under a running session |
| `admission_locks` | `AdmissionLocks.cfg` | violation: registry hygiene drops a lock that is promised |
| `decode` | `SpecDecode.cfg` | coherence of the two worlds, a FOLLOW_UP appends to a whole conversation, host mirror, lossless refinement |
| `decode_reload` | `SpecDecodeReload.cfg` | violation: generate after `snapshot_load` is refused, stale `pos_cache` |
| `decode_context` | `SpecDecodeContext.cfg` | violation: a legal generate leaves the context and `tok_hist` |
| `decode_relaunch` | `SpecDecodeRelaunch.cfg` | violation: the snapshot's byte window is not the conversation's rows |
| `prompt_cache` | `PromptCache.cfg` | manifest and directories agree through crashes, saves that overlap, quarantine and eviction; what is restored or resident is not evicted; pins keep their budget; a clean exit persists everything; the writer returns |
| `batch` | `Batch.cfg` | a stream is decoded from its own rows, a conversation is on one slot under one model id, the rebuild budget holds, turn-end nodes chain to their own conversation, every client is answered |
| `turn` | `Turn.cfg` | an accepted FOLLOW_UP extends the turn the client means, on a clean slot, one run per key, exact delivery through a full queue, the slot is given back |

A violation run states one thing a comment, doc or test of the repository says; `PROJECT.json` quotes it.

### Bounds

* Admission: four requests are the least with which a permit is held twice over (width 2), a live waiter and a dead one
  are parked together and a newcomer arrives. Three are on one conversation (lock holder, woken waiter, newcomer), one
  on another, so that the registry (cap 1) overflows. `MaxWaiting` = 2 gives a full queue with one dead waiter in it.
  `MaxHeals` bounds the watchdog. Symmetry permutes the three requests of one conversation; the liveness run uses none.
* Decode: two tokens, so that a draft can be right or wrong at each place; drafts of one and two tokens, so that a
  rejected row lies between the position and a later write; a six-row context in two planes, so that the end of the
  context, the T=1 thresholds and the neighbouring plane are reached; triggers of one cycle, so that every mode switch
  happens within `MaxCycles` = 3 cycles; two RPCs between two boots with a snapshot surviving any number of boots. The
  prompts have lengths one and two, so that both parities occur, and so do the deltas. 800,046 states.
* Prefix cache: a node, its child and the boot conversation's node, against a quota of two and one pin, so that there is
  always something to evict, a leaf and an inner node, and pins compete. Two requests, one fault (a failing save, a
  failing write or a damaged node) and one restart: a fault and a crash can meet, and a second request finds what they
  left. The queue takes two, so that the writer can lag behind the daemon. `Earlier` is an empty cache or one with a
  root and the pinned boot node, so that the first request already has a pin to drop while the writer saves. 1,503,737
  states.
* Batch: three connections for two slots, so that one must be evicted; two of them can ask for one conversation, one may
  hit the cache, one may load a snapshot. A prefill of one chunk already lets the other slot decode in its middle and at
  its end. `FailLimit` is 2 for the code's 3, and a fence is due after every cycle (the code's period is hundreds): the
  relation between the two is what `RebuildBudget` states. One trouble (a cancel, a close, an exception). 731,932
  states. Checked as well: two prefills put aside in `pending` (`MaxPending` = 2, 849,968 states), and two troubles
  (3,660,394 states) without the liveness property.
* Turn: a stream and a plain request with one key on one conversation, in either order; an event queue of one, so that
  it is full at once; two cycles after the prefill's own token, so that two events wait while one is queued; one fault,
  which is a failed session, a lost drain, a step that raises or a displaced slot. 2,466,583 states. Checked as well:
  two faults (5,586,977 states), and three cycles (6,553,237 states) without the liveness property.
* `PosBound` stops a cycle from starting further out than `CTXK + HistSlack`; everything up to there has happened.

### Fairness

`admission_live` assumes: a task that is ready runs (the asyncio loop), a session ends (its token count is bounded and
its sockets time out), the slot guard's timer fires. Not assumed: that a deadline fires, that a client leaves, or that
the watchdog helps. `prompt_cache` assumes that the writer's thread is scheduled (`WriterReturns`); the daemon's need
not be. `batch` assumes that the daemon's thread runs on, that a listener's purge ends and that a client notices a
daemon that has left; nothing of clients, who may stop anywhere. `turn` assumes that the executor's thread runs on,
because its socket reads and its puts to the event queue have timeouts, and that the handler replies or the slot guard
fires; the generator may stall for ever, as it does when its client stops reading. The decode model makes no liveness
claim: a daemon may hang, which its watchdog turns into a restart.

## Proofs

`AdmissionProofs` proves, for every finite set of requests and conversations, every width, queue bound and registry cap,
that `TypeOK`, `NoLeakedPermit`, `OverAdmissionAccounted` and `NoStrandedWaiter` are invariants, and that the counter
never exceeds the width. The argument: `active` and the set of held permits change together in every action except a
spurious release, which lowers the counter alone; so *held permits = active + at most the spurious releases*, with the
floor at zero accounting for the inequality. A waiter is left parked only after `q_promote` has found no free permit, so
a parked live waiter implies `active > 0`; neither fact is inductive without the other and without knowing which
program points own a permit (`IInv`). The lemmas say what `Compact`, `Promote` and `Release` do to a deque.

`SpecDecodeProofs` proves every property the run `decode` checks, for every vocabulary, model (`Greedy`), context size,
number of planes, draft lengths, triggers, prompts and deltas: `TypeOK`, `T1Fits`, `WorldCoherent`, `PosMirror`,
`FollowUpExtendsWhole` and the refinement `Lossless`. The inductive invariant is `TypeOK /\ T1Fits /\ WorldCoherent`:
the types make the sequence facts available, `T1Fits` makes the T=1 mode's own counter the device's position, and
`WorldCoherent` ties all buffers to the conversation. The argument has three layers. `SameLive` says that two engines
read and will feed the same, and the transfers (`T1Enter`, `T1Exit`, `Park`, `Begin`, `Select`) are shown to preserve
it, so that mode switches drop out. `WrittenReads` says what the KV slab holds after rows were written behind a text and
only some of them kept. From it, `CommitHolds`, `T1FeedHolds` and `FeedHolds` show for a cycle, a T=1 cycle and a
prefill that the engine has absorbed the new conversation, and that the new tokens are greedy. The refinement maps the
handlers to `Ask`, `Add`, `Begin`, `Reply`, `End`, `Save`, `Load`, `Restart` or `Lose`. `FollowUpExtendsWhole` needs one
thing more (`LossSeen`): a conversation that is lost has left the dirty mark, or is one of those the daemon knows
nothing of (`strained`).

`AdmissionLockProofs` proves `LockExclusive` and `LockedSessionsExclusive`. A woken waiter does not yet hold its lock,
and the lock is unlocked until it runs, so exclusion needs more than the locked bit: a woken waiter is ahead of all
waiters of its lock (`OrderInv`), so there is at most one, a newcomer must queue behind it, and the lock it was woken for
is still unlocked when it takes it (`OwnerInv`). `AdmissionQueueProofs` proves `FifoAdmission` and `RefusedOnlyWhenFull`:
places in the deque are distinct (`Ordered`), and pruning, promoting and releasing keep the order of the live waiters and
grant from the front (`After`), which is transitive, so that handlers that make several of these calls keep it too.

`PromptCacheProofs` proves every safety property of the run `prompt_cache` for every finite forest of keys
(`KeyAssumption`, `ChainAssumption`, `PrefixAssumption`), every quota, pin budget and queue size. `Ctl` says where the
two threads stand and what each holds there; on it rest, one by one: `DirInv` (manifest and directories), `FileInv` (who
has the temporary file open, and that it is whole when it is renamed unless saves overlapped), `StoredInv` (each entry
is on disk or in a copy on its way there), `PinInv` (every copy of the manifest that can come back after a crash keeps
the pin budget or is marked `mixed`, the copy in the writer's hand included, which `pin` may change), `HeldInv` (what is
restored or resident is protected, which is what eviction asks) and `FlushInv` (the last save of a clean exit is alone).
`PinInv` rests on this: of the nodes of a chain that get pinned there is a last one (strict inclusion is well founded),
and the budget test of that one counted all the others.

`BatchProofs` proves the four invariants and the action property that the run `batch` checks. `RebuildBudget` follows
from `FenceInv` (the count a fence resets is what the device has run, but for the steps that raised; each failed fence
allows one more cycle, and the daemon exits at the last), `ConvOnOneSlot` from `ResidentInv`. `HonestStreams` and
`TurnEndOwnChain` need what the rows of a slot have to do with requests that still wait, and rest on one invariant,
`BatchInv`, whose parts lean on one another:

* `StateType`, the types, says in `Barrier` which slot and connection a prefill under way has, by where the daemon
  stands.
* `KnownInv`: whoever is queued, bound or generating has asked, and a connection asks for one conversation only.
* `PrefillInv`: the slot under the barrier is bound to the prefill's connection, or to nobody if that has gone.
* `RowsInv`, for each slot: a slot no prefill has, bound and not dirty, holds its connection's rows, which were fed
  whole, unless a FOLLOW_UP has cleared the mark of a dirty slot (`patched`); a conversation remembered for a slot is
  that of its rows; a boundary is of the rows' own conversation, unless the rows are being fed, or were fed on after a
  fault. The prefill may leave a foreign boundary behind when it fails, but then the slot is dirty, and no generate
  starts there.
* `OnceInv`: a connection's prefill waits in one place at most, and no longer when its generate may run. Without it a
  prefill served twice would start again on the slot that already generates for it.
* `GenInv`: a generate runs on a clean slot no prefill has, or has strayed there.

Only `Purge` breaks the last two, when the daemon has appended to `pending` or taken from it since the listener looked:
that is what `raced` records, and from then on the model promises neither property. `OnceInv` also needs to know that
what a purge that has not raced writes back is what was there, less the requests of the connection that closed
(`Keeps`).

`TurnProofs` proves the four invariants of the run `turn`. `FollowUpHonest` comes from `MirrorInv` (a mirror that may be
reused is of the turn whose rows the slot holds, with nothing past a stop, a cancel or a fault of the event loop, unless
the slot is lost; rows past a visible cap may be there, and the slot may be dirty or longer than the mirror, which is
what the decision looks at; a FOLLOW_UP once decided finds what it was decided for, unless the slot is lost or
`outrun`), `OneRunPerKey` from `ClaimInv`. `ExactDelivery` comes from `DeliveryInv`: for each kind, what the client
received, what is queued and what waits to be queued are, one after the other, exactly what was made. Coalescing, a full
queue and the drain of the end only move pieces along that line. `FlushInv` adds that a generator that ends normally has
seen an empty queue and nothing waiting, after the session's end, and that a cancel comes only of a stream that is dead
or a client that has gone; `StallInv` that a stream found dead puts no more.

`Flattening` holds what both need about `FlattenSeq`, with which `Queued` and `Keeps` are defined: the flattening of an
append, of a tail, and what it may contain. The function behind it is recursive over the sequence, so these are
inductions; the library's induction theorems take an operator, so induction is stated here of a set
(`NatSetInduction`), from the well-foundedness of strict inclusion among finite sets.

Assumptions are those named in the modules (`ReqsFinite`, `PermitsAssumption`, `GreedyAssumption`, `ChainAssumption`
...); TLC evaluates them in every run.

Only model-checked: the four liveness properties (`NoStarvation`, `WriterReturns`, `EveryoneAnswered`, `SlotReturned`),
which are out of the prover's reach. Every other property that a passing run checks is a theorem.

## What the models say about the code

Six disagreements between the code and its own documentation, each reproduced by a run: see `findings` in
`PROJECT.json`. More are visible in the models without a run of their own; the properties above name them as exceptions
(`overlap`, `lost`, `mixed`, `strained`, `raced`, `strays`, `patched`, `slips`, `aged`, `outrun`, `dead`), so that what
holds otherwise is still checked.

Legacy daemon. `h_prefill` with a snapshot restores
recurrent state and slots but no KV row, so after a FRESH prefill has overwritten prompt rows the boot conversation is
not sound (`PrefillSnapshot`, `text' = Held(...)`). A refused FOLLOW_UP (wrong conversation) marks the engine dirty
although nothing has been touched (`RefusedFollowUp`).

Prefix cache. Saves by the two threads share one temporary file: when they overlap, the manifest can be torn for a
while, a save can find its file gone (and the writer then discards a good node), and an older copy can land last, so
that a crash loses an entry (`overlap`). A quarantine removes directories outside the lock and can remove one the writer
has just written again; the entry dangles until the next restore finds it corrupt (`lost`). The docstring of `evict`
says that directories are renamed under the lock; they are removed outside it. The copy of the entries that `_save_man`
writes is shallow, so a `pin` by the daemon thread reaches into a file the writer thread is writing: the file can hold
the new pins beside old ones already dropped, and an engine that boots from it after a crash has more pins than the
budget (`mixed`), until they lapse or the next `pin` makes room.

Batch daemon. A generate looks its slot up by connection without asking whether the slot is still bound to it: an older
connection decodes on a slot that was filled anew, its client gets no terminal event and the new owner's rows are
disturbed (`strays`). The listener's purge of `pending` overwrites what the daemon thread has appended or taken
meanwhile (`raced`): a prefill is lost, or one already served comes back and is fed again while its client's generate
runs, which `HonestStreams` and `TurnEndOwnChain` except for that reason. A cancel that arrives before the connection is
bound aborts whichever prefill is active; one that arrives after its slot has changed hands arms the new owner's flag.
`_b_fresh` resets the cached boundary only at its end, so nodes captured in the middle of a prefill are chained onto the
previous conversation's key (`FreshBoundary`). Requests of closed connections in `Q` still reach the device. A failing
`batch_step` does not mark its slots dirty, so what it left is decoded from (`disturbed`); between the chunks of a
prefill it does not even end the generates. Its cycle may be uncounted, and the fence is not tested, so the budget of
back-to-back cycles stretches by one for each (`slips`). A FOLLOW_UP is accepted on a dirty slot and clears the mark
(`patched`), where single-stream serving says it must never append: a client whose FRESH failed half way and who then
asks for a FOLLOW_UP hears rows fed in part. The API does not ask for it, because it reads the mark from `status`; the
daemon does not refuse it. A snapshot load leaves its slot without a model id: the next FRESH of that conversation takes
the other slot, and the conversation is on both.

API. When a stream is declared dead between two of the generator's looks, the generator ends with a normal finish chunk
and the pending text is lost, where a comment says there is never a silent hole (`ExactDelivery` excepts `dead`). The
end of an older request settles a newer claim of the same key (`Settled`); errors before the session leave a claim in
flight until its TTL. A session whose generate cannot be sent, or whose first token ends it and whose drain fails, is
outside the handlers that give the mirror up: the mirror stays reusable, and only the dirty mark of `status` (and the
length) keeps the next turn from appending to what is there; a session that fails without leaving a mark is followed.
A drain that times out leaves a generate running that nobody reads; if it ends after the next turn has read `status`,
the FOLLOW_UP extends rows that are longer than its mirror (`outrun`). A step that raises between the chunks of another
conversation's prefill is reported to nobody, and its rows are followed (`torn`).

## Not modelled

* Numerics, kernels and their launch sequences (`pf_*.py`, `gcycle.py`, `ka_pool.py`, the `.cu` files): a tag stands for
  what a buffer has absorbed. Most of the repository's lines are of this kind, or are builders, probes, evaluation and
  the history of earlier decoders (`src/lineage`, `src/engine/mm`): straight-line GPU programs without control state.
* Where drafts come from, the draft KV and seeds: proposals only, the probe decides.
* The bytes of a cached node (`capture_node`, uploads) and the key of a turn-end node: `PromptCache` keeps keys abstract.
* Text: `DetokStream`, gates, reasoning and tool filters, templates. They are functions of a string, better tested.
* `ops/enginectl` and the supervisors: shell glue between state files and reboots.
* Wording of responses, logging, metrics, authentication of admin calls.
* `run_cycles`, benchmark drivers, trainers, the MoE variant, the patch to tinygrad: see the notes in `PROJECT.json`.

## Plan

1. Compose `Turn` with `Batch`: the mirror against a slot that really changes hands. 2. A turn-end node's key against
its rows: `ST.fed` lacks the token a generate starts from; needs `SpecDecode`'s tags in `PromptCache`. 3. `Swap`: the
crash points of a model switch. 4. With the first of these, a theorem that the mirror's honesty (`FollowUpHonest`)
survives a slot that changes hands, from `MirrorInv` and `RowsInv`.
