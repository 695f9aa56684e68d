# Verification of fx: the session manager and the SDK

TLA+ models of the two parts of fx that keep a user's work: the session manager
(`src/core/session_manager`, Zig) and the SDK (`sdk`, JavaScript: durable agents, the
engine's bindings, the two hosts of its core, credentials). TLC checks them on small
instances. TLAPS proves the central theorems for every instance. Paths below are
relative to the repository; session.zig, log.zig, fold.zig, catalog.zig and api.zig are
in `src/core/session_manager`; durable.js, fx-sdk.js, node.js and subscription.js in `sdk`.

## 1. Inventory

| component | state | operations | hard behaviours | modelled by |
|---|---|---|---|---|
| session, one log (session.zig, log.zig) | the log file, its durable prefix, the phase, two mutexes, the seqs written and synced | append, group commit, snapshot, close, resume and repair | threads share one fsync; failed writes and fsyncs; process and machine crashes | SessionSync, DurableLog |
| session, its meaning (fold.zig, schema.zig) | turns, settings, children, compactions; snapshots in the log | fold, plan, encode and decode a snapshot, repair, fork | resume from any snapshot, torn tails, damaged lines, forks of forks | SessionFold |
| session, its folder (session.zig, catalog.zig sweep) | a folder under `.tmp`, the root or `.trash`, its lock file and flock | publish, import, resume, delete, purge, sweep | processes that hold a folder by descriptor while others rename it; crashes between renames and fsyncs | SessionFolder |
| session, its blobs (session.zig storeBlob, openFork) | bodies stored by hash, lines that refer to them | store, refer, link into a fork | threads store the same bytes; a fork reads while its source changes or goes | SessionBlobs |
| catalog (catalog.zig) and api (api.zig) | `index.jsonl`, `index.lock`, summaries in flight | put, del, load, list, rebuild, rewrite, delete with children | derived data kept by several processes without a common lock | SessionCatalog |
| durable agents: the log (durable.js foldSessionLog, memory(), createWorldBackend) | entries: inputs, leases, records, marks, checkpoints; counts of in-band writes | fold, append with its expected head, read | counts that lag, lost answers, two writers with one head | SessionLogFold, SessionChain, WorldLog |
| durable agents: workers (SessionWorker, deliver, receive, send) | leases, the chain each worker continues, the queue's messages | consume, claim, run, drive, yield, release, renew | redelivery, crash, a lease that runs out under its holder, two claims from one head | DurableSession |
| durable agents: inputs (recordMessage, drive, saveCheckpoint) | prompts, steers, cancels, taken ids, checkpoints | send, place, cancel, checkpoint | a check before a write; a checkpoint that lands late | DurableInputs |
| durable agents: viewers (uiWriter, uiRanker, turnView, startTurn, stream) | the lines of a session's stream, each view's cursor | prompt, retry, resume, reconnect | late lines of a replaced worker; the end is logged and told in two writes | SessionView |
| durable agents: names (createDurableAgent, claimName, agentNamed, deliverTo, listen) | agents by name and store, handlers, deliveries in flight | create, choose a durability, deliver, forward, close | an agent learns its store while messages arrive; close waits for what waits for an opening | DurableNames |
| bindings: journal (fx-sdk.js createFxEngine, memory persistence) | the queue of events, the append in flight, the checkpoint being taken | queue, flush, settle, checkpoint, steer, close | failed, fenced and late appends; effects that must wait | FxJournal |
| bindings: turns (fx-sdk.js prompt, resume, followUp, startTurn) | the active turn, follow-ups, what the agent knows of the journal | prompt, retry, resume, follow up, steer, cancel, hand off, close | ends and exits that race what was queued | FxTurns |
| bindings: images of an input (fx-sdk.js normalizePromptInput, materializePromptImages, hostToolContent) | the images on their way | limit, read, resize, send | buffers that are reused and turns that are cancelled between two images | PromptImages |
| bindings: the core in WebAssembly (fx-sdk.js createRuntime, createFxTerminal, core-output.js) | the input queue, the stream, operations, steers, output | the imports of the core, abort, exit | answers after an abort or in moved memory | CoreRuntime |
| bindings: the core as an addon (node.js createNativeCoreRuntime, fetch-cleanup.js) | the fetch bridge, the pump, output | open, next, close, abort, exit | cancel and destroy under a fetch | NativeCore |
| credentials (subscription.js, chatgpt.js, grok.js) | newest tokens per host token, shared refreshes, the host's lock | ask, refresh, retry after a 401, save | one refresh token shared by sessions and servers | SubscriptionTokens |
| SDK glue: fx-harness.js, browser.js, custom-provider.js, mcp.js, oauth.js and sign-ins, skills, tool-observation.js, types, packaging | little of their own | glue | none | fx-harness.js only through the harness contract in DurableInputs |
| diagnostics, trace, fault injection of the session manager | none | reports, test hooks | none | not modelled; `powerLoss` of storage_fault.zig is the crash model |
| session adapter, v1 conversion (src/core/session) | the bridge from the agent to one session | convert, mirror writes | a crash during a conversion | planned |
| MCP core, engine, server and host (src/mcp, src/core/mcp_host) | request table, process generations, eras, subscriptions, sign-in | events in, effects out | late, duplicated and reordered messages, timers | planned |
| subagents, managed execution (src/core/subagent, src/core/execution) | children, approvals, background commands | spawn, approve, wait, stop | an answer or an end races a cancel | planned |
| indexer, hooks, terminal, agent loop, ACP server | see section 3 | | | planned, low |
| permissions, auth, compactor, gateway, config, skills, workspace, tooling, UI | policies, files, the screen | mostly sequential | few | not modelled |

How the parts interact. In the session manager, the api creates a session in memory; its
first turn publishes a folder (SessionFolder), whose log then grows (SessionSync) with
lines whose meaning is a fold (SessionFold) and which may refer to blobs (SessionBlobs).
Every change the list shows owes the index a record (SessionCatalog). In the SDK, a call
stores its input in a session's log and queues a message; the queue delivers it to some
agent of that name (DurableNames), whose worker claims the session with a lease
(DurableSession) through a log that refuses what does not continue its chain
(WorldLog), runs the inputs the fold of that log places (SessionLogFold, DurableInputs) on an
engine, and writes lines for viewers (SessionView). The engine stores its records through a
journal (FxJournal), runs turns (FxTurns) whose inputs may hold images (PromptImages) on a core
in WebAssembly (CoreRuntime) or an addon (NativeCore), with a provider's credentials
(SubscriptionTokens). Each module takes from its neighbours only what its own
properties tell apart: DurableSession and SessionView have a log that refuses in one step, which is
what WorldLog is proved to implement; FxTurns knows of the journal only which turn it holds open.

## 2. Modules and their correspondence to the code

**DurableLog** is the abstract promise of a session of the session manager: a log that
grows, and that a crash may cut, never below the lines some caller was told are durable.

**SessionSync** is one published session with its handle on several threads. `log` is
what a reader sees, `stable` the prefix a machine crash keeps, `torn` a fragment
behind the last line. `mutex` and `sync_mutex` are the two mutexes of `Session`;
a critical section nobody can see half-way is one action. append is AppendWrite, AppendSnapshot,
AppendUnlock and the steps of `syncThrough` (SyncCovered, SyncBegin, SyncOk,
SyncFails); close is CloseWrite, the same sync steps under `mutex`, ReleaseRead
and ReleaseSet; resume is OpenResume, Repair and the sync of what was read.
`FsyncDropsDirty` chooses what a failed fsync does to the pages it was to write.

**SessionFold** is the log as data. A line is a record with the fields fold.zig reads.
`Plan` decides what a host may append, `Apply` folds one line, `Encode`/`Decode` go through a
snapshot (what a snapshot cannot hold is lost in it as in the code), `Repair` adds what a crash
left open, `Fork` copies a prefix behind a line 1 of its own. Bytes are counted in lines behind
line 1, whose length differs between sessions; damage is one bit per line.

**SessionFolder** is one id. A folder is an inode that a process reaches by name and keeps
by descriptor; `pending` are the renames of the root a crash may undo until the
root is synced. `StageOrder` is the order of storage calls in `stage`. `setting` is what may happen in a behaviour: which
processes run, whether a deleted id is imported again, whether a sweep may judge `.tmp` while an import stages.

**SessionBlobs** is the blobs folder of one session, its lines (a line is the hash it refers
to), and one fork. `StoreOrder` is the order of storage calls in `storeBlob`; a call may fail or its process die before each of them, and
any threads may store one body. Two histories say what the code lets go wrong: `hasty` are the bodies a stat returned before their name was synced (until a later sync
of the folder covers it), `purged` those of a fork that a purge took between the read of the lines and the links.

**SessionCatalog** is the index and the sessions it lists. `Merge`, `Fold` and `Lines` are
Index.apply, Index.fold and writeFresh. An actor is a thread or a process inside
one call: it owes the index a put, deletes, lists or rebuilds. A rewrite happens beyond
`CompactAt` lines once half of them are stale; the baseline that postpones rewrites in a
live index is left out: it only makes them rarer. `budget` is a behaviour's sessions, changes, faults, damage and crashes. Calls on one session overlap and a
load reads and folds without the lock, as in the code; two histories follow what that leads to: `crossed` are the sessions two of whose records crossed (a call began while another still owed
the index its record, or a heal wrote back an index it had read before a record), until a put or a rebuild brings the entry up to date and no other call owes one; `missed` is, for an actor whose heal waits for
index.lock, the sessions some record of which was written since it read.

**SessionLogFold** is foldSessionLog: how entries become the state a worker decides by (open
turn, waiting inputs, steers, cancels, taken ids, the newest lease), from the first entry or from a
checkpoint. It has no behaviour of its own; DurableInputs and DurableSession extend it. The
cursor of an entry is its place in the log.

**SessionChain** is what a log promises the workers that write it, and what memory()
does in one step. **WorldLog** is the log in a World: events the World numbers but does not refuse
(or refuses by a count of in-band writes, which may lag and may be per process), the counts each worker
notes, and the look at the events between the entry continued and the one written that makes
the chain hold. `world` is what the World can do: "fence", "old" or "plain".

**DurableSession** is SessionWorker. A slot is one delivery in one process with all it
knows: consume is Decide, claim is Claim and Check, run and drive are the actions from AnswerHalted to
LetGo, receive inside a request is RunInRequest. `mode` chooses where the liveness of a holder comes from
(one process, a lease that lapses, a queue). Crash, Duplicate and Lapse are the environment.

**DurableInputs** is the way of an input: Send and StoreInput are two steps, because the code reads, decides and
later writes. One worker follows another (Claim); a checkpoint a former worker was saving may land
after. The harness is external: the contract it must keep is in StartTurn, AcceptSteer, PlaceSteer,
YieldTurn and EndTurn.

**SessionView** is the stream and its readers. A line has the epoch of its worker; `Shows` and `RankAt`
are uiRanker. A view is startTurn (Before, Look, Send and what decides a retry) and turnView (ReadLines,
GiveUp). Workers are only what writes lines: a claim, starts, ends, yields, and what a crash leaves unwritten.

**DurableNames** is one process with the agents created in it. A message is queued, wakes a group of
handlers, is looked up by its session's name, delivered or forwarded, run, and tried again by its queue.

**FxJournal** is the journal of agents that share a session. Event n has the seq base + n; a record is a range of
seqs. Flush, Answer and AnswerError are flushJournal; Settles and Wake are journalSettled for each of its callers;
CkStart, CkSettled, CkSnapshot and CkSaved are maybeCheckpoint, between whose awaits all else goes on.

**FxTurns** is one agent: one turn at a time with its phase, follow-ups, `known` (resumable, openTurnId,
lastTurnId), steers that wait for their prompt, tools, and unread output that stalls the core.

**PromptImages** is one input with its images: the limits applied to what is sent at once (Limited, ToolLimited) and,
image by image, to what must be read or resized first (Begin, BlobRead, ResizeImage, Finish), beside a caller that reuses its
buffers or cancels.

**CoreRuntime** and **NativeCore** are the two hosts of a core. In the first an import suspends the whole core, so
`call` is the one it waits in, and `mem` the operation that last wrote its memory. In the second the core is a thread; `bridge`
is the fetch bridge (its phases are those of `src/napi_fetch_state.zig`), `pump` the host's loop that moves a body.

**SubscriptionTokens** numbers credentials in the order the provider issued them. A request asks its host, joins or begins a
refresh, is sent, and is tried once more after a 401 or a failure. `descendants`, `refreshing` and `saved` are the maps of
the code; the exchange at the provider and the host's lock are external.

**SequenceFolds** has no behaviour. It proves of FoldLeft what a proof about a fold needs: one element more is one step more, and induction. What is
folded, and what is to be shown of it, are constants of the module, so a proof instantiates it once for each of its folds.

The broken forms beside some definitions (each named in a comment that begins "Broken form")
are plausible mistakes. PROJECT.json pairs every checked property with one that breaks it.

**MC modules.** MCSessionStore, MCSessionView and MCFxAgent hold several components that share no state: the variable `runs`
chooses in the initial state which of them a behaviour runs, and the others stay still. So one run answers
one question about parts that belong together: what is kept beside a log (SessionBlobs, SessionFolder, SessionCatalog), what becomes
of inputs, what viewers see and how the log in a World is written (DurableInputs, SessionView, WorldLog), and an agent and its core (FxTurns, PromptImages, CoreRuntime, NativeCore).

## 3. Plan

Done: the modules above, with proofs in SessionSyncProofs (also of SessionFolder), SessionStoreProofs (SessionBlobs, and SessionCatalog over
SequenceFolds), SessionReadersProofs (WorldLog and SessionView), DurableSessionProofs (over SequenceFolds), DurableNamesProofs, FxJournalProofs and FxAgentProofs (FxTurns,
SubscriptionTokens and NativeCore). In order, next:

1. **More proofs.** EndsAreTrue of CoreRuntime, ImagesAsGiven of PromptImages, StateIsFold of SessionFold (over SequenceFolds), RunsOnce of DurableInputs,
   ToldIsOver of DurableSession, FencedMeansReplaced of WorldLog. Proofs that belong together share a module.
2. **Compositions.** DurableSession over WorldLog instead of over the chain, FxJournal over the store that DurableSession gives it, catalog with folder.
3. **MCP core**: the slot table of request.zig, the process generations of stdio_conn.zig, then the engine that runs their effects.
4. **Credentials and sign-in** of the MCP host, **approvals and children**, **managed execution**: one module each.

Runs stay at two or three actors, two ids and one or two faults of each kind, and take at most five minutes on two cores.

## 4. What is checked

Every run is exhaustive for its bounds. Deadlock is checked where a caller can always go on or its end is a state that stutters (SessionSync, FxJournal); in the other modules the bounded supply of lines, versions, messages or turns runs out, and stopping is normal.

| run | instance | what holds |
|---|---|---|
| sync | 3 threads, 5 lines, 2 faults, 2 reopens, fair | AckedSurvive, SyncedIsStable, TurnEndsCovered, CallsReturn, and SessionSync implements DurableLog |
| fold | 5 lines, one fork, one damaged line | StateIsFold, ForkOwnsNoChildren |
| store | blobs: 2 threads with a body they share and one of their own, 2 lines, a fork, a delete and its purge, failures and deaths at every call, machine crashes; folder: 3 processes, 2 folders, 2 faults, 2 crashes, and 2 processes with imports of a deleted id and sweeps beside them; index: 2 actors with a root and its child; with one session, 2 faults and a machine crash; with one session, a fault and a damaged line | RefsSurvive, ForkIsWhole, PublishedStaysVisible, OneWriter, StaleIsReported, TombstoneIsFinal |
| session | 2 processes, 2 deliveries at a time; in one process, by leases, by a queue; 1 or 2 prompts; up to 2 faults, fair | TurnsInOrder, WorkIsDelivered, OnlyTheHolderWrites, PromptsEnd |
| view | inputs: prompt, retry, steers, cancels in five scenarios, 2 claims, a checkpoint; viewers: 2 calls, 1 or 2 prompts, 1 or 2 workers, without faults and with each of crash, lost write, failed opening, overrun lease; the log: 2 workers, 4 events, three kinds of World, one count or one per process | CheckpointKeepsState, RunsOnce, CancelHitsItsTurn, ReconnectAgrees, RepeatedIsTrue, NobodyWaits, AcceptedIsHeard, IsOneChain (WorldLog implements SessionChain) |
| journal | a native agent, a web agent, both; 2 events, a steer, a checkpoint, a crash, fair | NoGap, EffectIsStored, CheckpointCovers, ClosesEnd |
| agent | turns: a prompt, 3 follow-ups (one held), a steer, a tool, 2 turns, fair; images: up to 3 of 8 kinds beside 3 lengths of text; WebAssembly: 8 mixes of work, 3 bytes, 2 operations; addon: 2 responses of one piece | FollowUpsInOrder, KnowsTheJournal, CancelsEnd, ImagesAsGiven, EndsAreTrue, WritesOnlyForItsCall, UsesLiveCore |
| names | 2 agents in six arrangements, 2 sessions, 2 messages, one retry, fair | OneConfiguration, Served |
| tokens | 2 sessions on one server, on two under a lock, with stores of their own; 3 credentials, 3 requests, 1 fault, fair | SpentOnce, RequestsEnd |

Why the bounds are enough: the interesting cases need one leader and one follower of an fsync and a third thread that
appends meanwhile; a snapshot, lines behind it and a fork point on either side of both; a publisher, a process that resumes and one
that deletes; a worker that believes it holds a lease beside its successor (2 slots in 2 processes), and a fault at each
step of either; two writers that continue one entry and an input between them (4 events); a call and its retry; a batch in
flight, one queued behind it and a caller that waits for both; three images, so that the limit is passed by the second and a third is still unread; a refresh, one that it makes
stale and one after that (3 credentials). The modules state further invariants that these runs do not list; each was
found to hold at the same bounds by adding it to the configuration: the type invariants; WaitedIsWritten, TurnsAlternate and NothingAfterFailure (sync); SnapshotsAreFolds, TurnsNumbered,
OneOpenWork and ResumeSettles (fold); NamedIsWhole, VisibleIsWhole, OpenIsNotTrashed, DeletedIsGone, ListedIsNotRemoved and
ChildrenGoFirst (store; the second and third without the races); ToldIsOver (session); FencedMeansReplaced,
RefusedLeavesNothing, NoInputLost, CancelStands, ViewsAgree, EndsAreLogged, EndsLast and OneOutcome (view); BytesAreTail, AwaitedIsTold,
AcceptedIsStored, CloseKeepsAll and CallsReturn (journal); QueuedWillRun, WaitingSteersHaveAPrompt, ToolsAnswerTheirTurn,
CloseLeavesNoneQueued and the others of CoreRuntime and NativeCore (agent); RunsAtHome, NothingStray, CloseWaits and OneWorker (names); HostsAreTold,
FailsForAReason and DeniedTwice (tokens). Of these, WaitedIsWritten, NamedIsWhole, VisibleIsWhole, OpenIsNotTrashed, DeletedIsGone, ListedIsNotRemoved, ChildrenGoFirst, DeniedTwice, BytesAreTail, AwaitedIsTold, AcceptedIsStored, CloseKeepsAll, QueuedWillRun,
WaitingSteersHaveAPrompt, ToolsAnswerTheirTurn, CloseLeavesNoneQueued, CoreIsServed, NoLostWakeup, DestroyWaits and CleanExit of NativeCore, RunsAtHome, NothingStray, CloseWaits and OneWorker are also proved (section 5), as are the type
invariants of SessionSync, SessionFolder, SessionCatalog, SessionBlobs, WorldLog, SessionView, DurableSession, DurableNames, FxJournal, FxTurns and SubscriptionTokens.

**Fairness.** Nobody is ever asked to call anything, and faults are never forced.

- SessionSync: a thread inside a call goes on (weak fairness of `Continue` per thread): fx runs on preemptive threads and `std.Io.Mutex` wakes a waiter.
- DurableSession: a call that stored its input queues it; a queue makes a delivery it keeps (strong fairness, because a slot must
  be free; the queues promise at-least-once delivery); a worker goes on, because every await of it settles or its process dies; time passes, so an unrenewed lease lapses.
- FxJournal and FxTurns: appends are answered, the core answers, reads or exits, microtasks run; no fairness for callers, so a view nobody reads stalls.
- DurableNames: a delivery goes on and an opening ends, per message and per agent, as promises of the event loop do.
- SubscriptionTokens: a fetch or a call of the host ends and a free lock is given to one that waits.

**Known differences.** Three runs end in a counterexample, each against a sentence of the repository that PROJECT.json quotes under "findings":

- `session_reruns`: a turn that ended without a record (a prompt the harness refused, a cancel before its start) does not move the chain, so a takeover that read the log before
  that end, and that starts its turn early, runs it again (durable.js:1582 against the comment at 1813).
- `store_heals`: a load that finds a damaged line waits for index.lock and then writes back what it had folded without it, over a tombstone a delete appended since, so the deleted
  session is in the index again (catalog.zig:330 against lines 6-7); a list drops it once it finds the folder gone.
- `tokens_own_stores`: the map of newest credentials is one refresh deep, so a session whose store is two refreshes behind spends a token twice (subscription.js:222 against the comment at 153).

More statements are in the modules that the code does not keep. Each can be seen by putting it into the configuration named, with the constant given:

| module | statement | with | what happens |
|---|---|---|---|
| SessionSync | AckedSurvive, NoSyncAfterFault | FsyncDropsDirty = TRUE in SessionSync.cfg | after a failed fsync a close fsyncs the same file again and reports success, though the first may have marked its pages clean (session.zig:828) |
| SessionFold | ForkInItsWorkspace, ForkKnowsItsChildren | SessionFold.cfg | a fork is listed under the workspace its source moved to; a fork whose last copied line is damaged forgets the child it spawns in its place |
| SessionFolder | LiveIsVisible, FailedIsInvisible, DeletedStaysDeleted, SweepSparesStaging | an instance of its own (the last two with a setting that reimports and sweeps) | a resume waits for the flock of a folder that a delete renames away (session.zig:1211); the sync of the root fails after the rename (560); a tombstone that was never durable; a sweep beside an import (catalog.zig:642) |
| SessionBlobs | ReturnedIsDurable | SessionStore.cfg | storeBlob returns on a stat of a name that another thread, or a store that failed or was killed, gave and did not sync (session.zig:663, against 616-618); a line may then be durable whose blob a machine crash takes |
| SessionCatalog | NoOrphans | SessionStore.cfg | a child spawned while its parent is deleted |
| DurableInputs | RunsWithItsContext; RunsOnce | Scenarios of MCSessionView; {A, B, SameId} | a turn whose first worker died before its first record is continued with the settings of the next message; a prompt and a steer with one id are both stored and both run |
| SessionView | ViewsAlwaysAgree, EndsAlwaysLast, NobodyEverWaits | SessionView.cfg | a view that read on has another newest epoch than the session's stream; an openFailed turn ends for viewers and starts again; a worker that dies between the log and the stream never tells its viewers |
| FxJournal | SteersSettle | FxJournal.cfg | a steer whose event the journal's failure dropped before the core answered waits on |
| FxTurns | ResumeHasATurn, SkipsWhatEnded, RetryContinues | FxAgent.cfg | a turn that yields or is cancelled before its first progress is taken for resumable, or for ended |
| SubscriptionTokens | SpentOnce | SlowHost = TRUE | a refresh is forgotten when its exchange ends, and a host that answers or saves late starts another with the old token (subscription.js:185) |

Rows that name a constant or a setting are about a case the passing runs switch off. In `store` nothing of blobs and index is switched off; three of its properties make an exception of exactly what the code gets wrong,
and no more:

- RefsSurvive excepts a body while it is in `hasty`. Once a sync of the folder finds its name there, the body counts again.
- ForkIsWhole excepts the bodies in `purged`, not those lost for any other reason.
- StaleIsReported excepts a session while it is in `crossed`: of two calls on a session that overlap, the one with the older summary may put it last (api.zig:590), and nobody reports that. The first put or rebuild after it that nothing crosses makes the property bind again.
  It also excepts sessions reported stale, which is what it is about.
- TombstoneIsFinal is an action property and excepts, of a heal, the sessions it missed a record of. Every other step, a late put and a rewrite among them, keeps every tombstone. `store_heals` checks the statement of the code without the exception.

Reading the code for the models also showed, outside what a property states: a failed onCredentials of a shared refresh is not tried again for
that session (subscription.js:173); a routed delivery that waits for an opening while its agent closes is acknowledged and dropped when the agent owns its World
(durable.js:797); two local() objects for one folder do not find each other; a lagging count can fence a worker nobody replaced; a follow-up's promise does not settle after the core exits; a failed journal leaves queued
follow-ups until close(); a read of the core's input returns an end on a bare wake; abort() without an error closes a core that is already destroyed.

## 5. What is proved

SessionSyncProofs, for every set of threads, every set of batches and all bounds:

- `TypeCorrect`: Spec => []TypeOK.
- `AckedLinesSurvive`, `SyncedLinesAreStable`: AckedSurvive and SyncedIsStable, under the
  assumption ~FsyncDropsDirty (without it both are false, see above).
- `WaitedLinesAreWritten`: the assertion of syncThrough never fails.
- `TurnEndsAreCovered`: TurnEndsCovered, under the same assumption.
- `SessionImplementsDurableLog`: with the log as its lines and `acked` as its promise, SessionSync implements DurableLog.

The argument: neither AckedSurvive nor SyncedIsStable is inductive. What makes them so is where a
thread is. `LockInv` says which steps are only taken with `mutex` or `sync_mutex` held, and that `sync_mutex` has one
holder. `DurInv` says, for each step of a call, what is known of its line: the target
read before an fsync is in the log and stays there while the fsync runs (only a
resume, with no file to sync, replaces the log), the seq a call waits for is at most
`written_seq`, and `written_seq` is at most the length of the log.
`DurStep` goes through the actions one by one.

SessionSyncProofs, of SessionFolder, for any finite number of processes, any settings, folders and failed calls:

- `FolderTypeCorrect`: FolderSpec => []FolderTypeOK.
- `FolderOneWriter`, `FolderStaysVisible`: OneWriter and PublishedStaysVisible, which the run `store` checks; `FolderStaysGone`: DeletedIsGone. These need nothing further: they hold beside sweeps and imports of a deleted id.
- `FolderIsWhole`: VisibleIsWhole, where no setting lets a sweep judge `.tmp` beside an import.
- `FolderOpenStays`: OpenIsNotTrashed, an action property, where no setting imports a deleted id again either.

The argument. OneWriter says that two processes in the visible folder are one; what carries it is `OwnersHold`: whoever is in a session, or stages one and is past the lock step, has the flock of its folder, so the folder is locked before the rename
that shows it. The rename goes by name, and `StagersHold` says what that can show: before it the id is not in the root, and `.tmp` holds the folder of the one process that stages, or (a sweep came) nothing. `FoldersHold`
says that no folder has two names and that folders are made one after the other. PublishedStaysVisible is not inductive because of the machine crash: `PublishedHolds` adds that `pending` is empty once a folder was reported and until a
delete, so there is nothing to undo. What an undo may leave after that is itself a fold, over the renames it takes back from the last to the first, and `Undoing` (an instance of SequenceFolds) shows of it that it moves folders between names and never makes
one or gives one two names. `DeletesHold` says that what a delete has moved returns under no name but that in `.trash`, which is what makes DeletedIsGone inductive. VisibleIsWhole needs `WholeHolds`: for each step of a stage, what it has written, synced and locked
so far. It is inductive only without a sweep, which may empty the folder of a stage. OpenIsNotTrashed needs `AloneHolds`: the folder a delete is about is the one in the root, which a new import of the id would replace.

SessionStoreProofs, of SessionCatalog, for any number of sessions, parents, actors, changes, faults, damaged lines and crashes, in every order of calls, heals, rebuilds and rewrites; no theorem has a premise:

- `CatalogTypeCorrect`: CatalogSpec => []CatalogTypeOK.
- `CatalogIsReported`, `CatalogTombstones`: StaleIsReported and TombstoneIsFinal, which the run `store` checks.
- `CatalogDeletes`: ListedIsNotRemoved and ChildrenGoFirst.

The argument. The index is a fold of its lines, and a rewrite replaces the lines. `FoldSays` reads the fold of one session as a statement about the lines ("an intact tombstone is among them, or the last intact put is this one"), from SequenceFolds'
induction; `FoldAppend`, `FoldPrefix` and `FoldDamaged` are what an append, a lost tail and a rotten line do to it, and `FoldLines` that a rewrite of an entry folds back to it. StaleIsReported is not inductive: it says nothing of a session that is about
to be written, rewritten or listed. `KnownHold` says that a session with an entry was made, and that one with a tombstone has left the root, so no tombstone hides a visible session. `OwedHold` says that two calls owe a session's record only where it is in `crossed`, and that a
call that will put a session which is not puts it as it is. `HealHolds` says that what a heal will write of a session, unless it missed a record of it, has its tombstone and is what the index says, or the session is stale;
`RebuildHolds` that a rebuild has every tombstone, and has each session it has read as it is unless a record is owed, it is stale or it is crossed. A session that is removed has left the root
for good (`RemovedHold`), so a page looked up by stat cannot hold it, and the children a delete found and has passed are out of the root and stay there (`KidsHold`).

SessionStoreProofs, of SessionBlobs, for every set of threads, every set of bodies and all bounds:

- `TypeCorrect`: Spec => []TypeOK.
- `NamesAreWhole`: NamedIsWhole, without any further assumption: whatever fails or crashes, a name
  only ever stands before a synced file.
- `ReferencesSurvive`: RefsSurvive, for threads that share bodies, and stores that fail or are killed before any of their calls.
- `ForksAreWhole`: ForkIsWhole, beside deletes and purges of the source.

None of them has a premise. The argument: `CallInv` says what a call knows of its own body, so a rename always moves a synced file and
NamedIsWhole is inductive with it. RefsSurvive is not inductive: a line may only refer to what a store
returned, so what matters is why a return is durable. `DurInv` says that what was returned, and what a line refers to, is durable or `hasty`, and that a durable name
has its body. A store returns in two ways: after its sync of the folder, which covers every name there is, or on a stat, which puts the body into `hasty` unless the name is durable.
Whatever is durable stays until a purge, and a purge is after the delete, when there are no lines. `ForkInv` says that what a fork read in its first step is still there to link in its second, or in `purged`.

SessionReadersProofs, of WorldLog, for every set of workers, every kind of World, shared or separate counts and any number of events:

- `TypeCorrect`: WorldSpec => []WorldTypeOK.
- `Accepted`: AcceptedIsHeard, what a worker is told is written is in the chain every reader folds.
- `OneChain`: IsOneChain, WorldLog implements SessionChain.

The argument: a reader hears event n when it continues the newest event heard before it. `IInv` says that `head` is the last
event heard, that what a worker continues (its `head`) was heard, and that a worker which has published its event and found no rival between the two
(`NoRival`) was heard at the moment of its publication. That look, not the World's counts, carries the proof: every kind of World is covered, and the counts only decide whether a
worker is refused before its event lands. For the refinement `Call` maps a worker to the chain's view of its call: a publication
that is heard is the step that extends, one that is not is the step that refuses, and every other step stutters (`StepChain`).

SessionReadersProofs, of SessionView, for any prompts, calls and workers, all setups and faults and any number of claims:

- `ViewTypeCorrect`: ViewSpec => []ViewTypeOK, from the inductive `ViewInvariant`.
- `ReconnectsAgree`, `RepeatsAreTrue`: ReconnectAgrees and RepeatedIsTrue, which the run `view` checks. Neither needs a premise: they hold beside crashes, lost writes, overrun leases and failed openings.

The argument. ReconnectAgrees says that ranking from a line that shows is ranking from the start. A line with an epoch that shows is itself the highest so far (`RankFrom`), which is unique; what takes the induction is only that
every epoch is a number up to the bound, so that a highest exists (`Greatest`). RepeatedIsTrue is about who stored a prompt, which `first` remembers. `ViewOk` says of a view that has sent nothing that it stored no prompt, and of an end in the stream before the view began that somebody
else stored its prompt. That needs that every line of a turn, written, waiting or late, is of a prompt the log holds (`OfTheLog`), and so that what a worker runs is (`WorkerOk`, which also bounds a worker's epoch by the log's). A view reads several lines in one step; that it changes nothing but what it was shown is an
induction over them, by an instance of SequenceFolds.

DurableSessionProofs, for any processes, slots, prompts, budgets of steps and faults, and all three ways to know that a holder lives:

- `TypeCorrect`: Spec => []TypeOK.
- `TurnsFollowEachOther`: TurnsInOrder. A turn starts only after the one before it ended, and none whose start a record names starts again.
- `WorkIsNotDropped`: WorkIsDelivered. While the log holds work that a call stored and queued, a delivery is queued or a slot is busy.
- `RecordsAreTheHolders`: the action property OnlyTheHolderWrites.

The argument: what a log says is a fold of its entries, and every step of the code adds at most one, so an entry more is one step more of the fold (`FoldedAppend`,
over SequenceFolds). An entry either leaves the head, the lease and the open turn as they are (`Still`: inputs, answers of halted turns, refused entries) or moves the head to itself and so past
everyone else (`Moved`). What a slot knows (`Knows`) is stated under "the head is where I found it": before the claim that its state is what the log says, under its lease that it
holds it, and in a turn that this turn is the open one, or that none is and no record started this one. So another's entry either leaves what a slot knows true or makes it void, and a record
that does not continue the head does not land. `TrailHolds` (the trail of starts and ends ends with the open turn's start, and all of it is taken) then makes TurnsInOrder inductive. WorkIsDelivered is not inductive
because "a slot is busy" says nothing of what it will do: `QueueHolds` says that some slot sees to the work (`SeesTo`: it read of it, will claim it, holds the head, or broke and has its
message delivered again) and that a request keeps its message queued while it runs. The entries of this module are prompts, leases, releases, records and answers; steers, cancels and checkpoints
are DurableInputs' subject and not part of these theorems.

SequenceFolds, for any operator and any sequence: `FoldEmpty`, `FoldAppend`, `FoldOne`, `FoldAgrees` (folds that agree on each element agree) and `FoldInduction` (what holds of the base and
is kept by each step holds of the fold). FoldLeft chooses a function by its equation, so the first step is that there is one, by the least length without. The library's induction theorems take
an operator as a parameter, which the provers cannot instantiate; here it is a constant of the module, and an instance of the module has it as a definition.

DurableNamesProofs, for any agents, stores and Worlds of a process, and any number of sessions, messages and tries:

- `TypeCorrect`: Spec => []TypeOK.
- `OneNameOneConfiguration`: OneConfiguration.
- `SessionsRunAtHome`, `NothingStrays`, `ClosingWaits`, `SessionsHaveOneWorker`: RunsAtHome, NothingStray, CloseWaits and OneWorker.

The argument: an agent that is up has claimed its name among those that know their store (`ClaimsHold`). A claim is made twice, when an agent is created and when it learns its store, and both look
at all others, so whichever comes last sees the other. A message's input is in the log of its sender's store (`MessagesOnStore`), and consume compares both store and owner before it runs (`RanByOwner`). An agent
that is gone has nothing under way and its backend is off (`GoneAreOff`). The workers of two sessions are distinct while either is in use, which needs that a new worker's number is taken by none (`WorkersHold`, from the bound on
how many deliveries there are).

FxJournalProofs, for any agents of a session, native or web, any steers, any setup and any length of the log:

- `TypeCorrect`: Spec => []TypeOK.
- `LogHasNoGap`, `EffectsAreStored`, `CheckpointsCover`: NoGap, EffectIsStored and CheckpointCovers, which the run `journal` checks.
- `BytesStayTail`, `SteersAreStored`, `CloseLosesNothing`, `WaitsAreTold`: BytesAreTail, AcceptedIsStored, CloseKeepsAll and AwaitedIsTold.

The argument: NoGap says nothing of what is on its way. What makes it inductive is that a write names the record it follows and starts at the seq where that record ends, so that if the store takes it the log
goes on without a gap, whoever sent it and however late it lands. An agent's queue goes on from the seq it was last told of, first the batch in flight, which is what its write
carries, then the rest. Everything an agent tells the core, its callers and close() is bounded by that seq, and that seq by the log, also after an error whose write had landed: then the agent drops its queue
and settles nobody with success.

FxAgentProofs, of FxTurns, for any prompts, follow-ups, steers and host tools, whatever the journal held and however many turns start:

- `TypeCorrect`: Spec => []TypeOK.
- `FollowUpsRunInOrder`, `RetriesAgree`: FollowUpsInOrder and KnowsTheJournal, which the run `agent` checks.
- `OpenTurnsAreKnown`: between turns, a turn the journal holds open is one the agent resumes (OpenIsKnown, stated in the proof module).
- `QueuedAreLookedAt`, `SteersHaveAPrompt`, `CloseRejectsTheRest`, `ToolsAnswerTheirOwn`: QueuedWillRun, WaitingSteersHaveAPrompt, CloseLeavesNoneQueued and ToolsAnswerTheirTurn.

The argument has two parts that share only the active turn. A follow-up that has not run is in the queue once, in one of two lines (those the journal held, those callers asked for); the queue keeps the order
of each line, and none that ran is behind one of its line that waits (`QueueHolds`, `LinesHold`, `OrderHolds`). KnowsTheJournal speaks of the agent between turns; `KnownHolds` says what it knows while one
runs: the journal holds open what the agent takes for open or the turn that runs, and never the one that ended last. `strayed` (a turn that ended otherwise than the journal has it) is the one
exception, and a premise of RetriesAgree and OpenTurnsAreKnown.

FxAgentProofs, of SubscriptionTokens, for any number of sessions, servers, stores, credentials and requests:

- `TokensTypeCorrect`: TokensSpec => []TokensTypeOK, from the inductive `TokensInvariant`.
- `TokensSpentOnce`: SpentOnce under ~SlowHost. Whatever the sessions do, no refresh token is spent twice where one server, or the host's lock, covers a store.
- `DeniedAfterTwo`: a request ends with its 401 only after a second credential, another than the first, was refused too.

The argument: the newest credentials are either bad (near their expiry, or refused) or good. While they are bad nothing older is under way: every refresh is of them, only one is past
the lock, and only it can issue the next. Those are good, and until they go bad every refresh left is of the ones before and will not spend: it finds the newer token in its store, in what is remembered
(`descendants`), or from the host. Without a lock, the refresh itself and then what it leaves remembered keep a second one from beginning. The proof needs that no save of the host is still to land when credentials go bad
(HostIsQuick). With two sessions that may be left out and TLC finds nothing; a third, on another server, can begin the refresh that the late save undoes.

FxAgentProofs, of NativeCore, for any number of responses, pieces and messages and any room on the bridge:

- `CoreLives`: UsesLiveCore, which the run `agent` checks, and `DestroyIsInTime`: DestroyWaits.
- `WaitersAreServed`: CoreIsServed, NoLostWakeup and CleanExit.

The argument: a core is destroyed only after the end, and the steps that go on after it call the addon only where they looked at the end first (`EndOk`, `CallsLive`). That an end destroys in time needs CoreIsServed's other side: why a pump was stopped. `CauseOk` says that before the end it is stopped or drains
only for its reasons (cancelled, aged, or the core has consumed its response), and that what it takes for consumed the bridge knows to be; `PlaceOk` that a pump is of the newest request or an older one, and which phases of the bridge go with its place. So while somebody waits for a response the cleanup action is
"forward" (`AwaitedForwards`), no step stops the pump, and one that ends tells the bridge (`PumpEndsOk`). `WakesOk` and `OutputOk` carry NoLostWakeup and CleanExit.

**Assumptions on constants.** They are ASSUMEs of the modules, which TLC evaluates in every run: counts are natural numbers; a value that stands for nothing is none of the things (None, NoTurn, "none"); WebAgents are
agents; FxJournal's setups name the acts of an agent, and steers are not plain events; follow-ups the journal held are distinct; ids of follow-ups are made by the agent (`in_` and a uuid) and are not ids of prompts; a process has finitely many
agents, and one durability object of each id; a session's budgets name its prompts and one of the three modes. The premises ~FsyncDropsDirty, ~SlowHost and those on the
folder's settings are stated in the theorems that need them. Settings and budgets name processes and sessions of the module; a parent is a session or nothing.

**Only model-checked**: everything under fairness (liveness and ENABLED are out of TLAPS's reach), the properties of the modules not named in this section (SessionFold, DurableInputs,
PromptImages, CoreRuntime), NobodyWaits, ViewsAgree, EndsAreLogged, EndsLast and OneOutcome of SessionView, ReadsItsBody of NativeCore, and ToldIsOver, FencedMeansReplaced, RefusedLeavesNothing, TurnsAlternate and NothingAfterFailure of modules that are. StateIsFold of
SessionFold is a statement about folds that SequenceFolds brings within reach; it is not yet proved.

## 6. Not modelled

**Session manager**: readPage, readBlob, verify and resolve (they change nothing), the line codec and its
checksums (a line is good or damaged), opened records (times of a merge by maximum), the size
limits of a line, memory exhaustion, and the exact clock. A flock is exclusive
and dropped by a crash. A rename is atomic and durable once its folder is synced, as
storage_fault.zig has it. In `store`, the index with a child has no versions of a summary, the index with faults has one.

**Durable agents**: what an input or a record says, contexts and settings (only who gave them), the admission checks of
arguments, tracing and error texts. WorldLog assumes that a World publishes in-band writes of a run one by one for each place that counts them, counts one before it answers it, and
reports with a list a count from before it; the branches that retry an own idempotency key are left out. In DurableSession a turn whose
deadline cut it off too often is cancelled when it is resumed; the code does so unless the open turn has calls under way, and then resumes it without running them again (durable.js:1728, 1777). No property depends on it. SessionView reads
lines whole, and leaves out halted sessions, resume messages acknowledged by a fenced worker, and the settings of a second prompt. DurableNames leaves out calls on session
objects after close() began, duplicates of the backstop, the order in which copies take turns, and windows of single microtasks. Reading a World's stream again after it failed is left out.

**Bindings**: parsing and checking of options, hooks, observation and metrics, the updates of a turn as events for a caller, terminal layout. FxJournal assumes of the core that it
asks for a flush only with something new and answers an error only before it recorded anything; CoreRuntime that it asks for a body only after its status, and reads a terminal only when poll said there is input. CoreRuntime merges
the microtasks between an answer and the core's return, counts a steer's size by its id, and leaves out attachments and poll_oneoff. PromptImages leaves out the bytes a reference takes in a frame,
the limit on the number of images and what throws before any limit; each image is a step of its own, though those nothing is awaited for go on at once.

**Credentials**: every refresh gives a new refresh token; the cache of 256 accounts never overflows; a session's next request waits for the end of its cancelled one; the host always takes new credentials; a
read under the lock is one step; headers are left out.

**Elsewhere**: the rest of the SDK is adapters, requests of a sign-in, types and packaging. The MCP parts, subagents, managed execution and the session adapter are stateful and planned (section 3). The agent loop, ACP server, hooks, indexer and terminal drive I/O and
processes around state that is modelled here or is small. Permissions, auth, compactor, gateway, config, skills, workspace and tooling are sequential policy, parsing and
remote calls; UI, input and output are rendering.
