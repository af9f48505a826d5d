# Crest: formal models of its restore, its turns, its agent sessions and its jobs

Crest is a terminal with a coding agent in it. An Electron main process (`src/emain`) runs
agent sessions (`src/packages/agent`, `src/packages/coding-agent`) in process; a Go server
(`src/cmd/server`, `src/pkg`) keeps blocks, jobs, files and connections; a renderer
(`src/frontend`) shows both. The agent writes the user's files, and the user can take a turn
back: *rewind* puts the files and the conversation where they were, *redo* undoes that.

This directory models five parts of it. The first is that operation: it is the one place where
the program promises atomicity over three stores without a common transaction (the user's
files, a private Git commit chain, the session's entries), under crashes, failing calls, and
writers that take no lock. The second is what a turn of the agent does to the commit chain, on
which the first relies. The third is how messages become runs of the agent and how their
promises are settled. The fourth and fifth are the output and the input of a job on a remote
machine, which have to survive lost connections and disorder. The other components are listed
below, and the plan says what would come next.

## Contents

| file | what it is |
| --- | --- |
| `WorkspaceRestore.tla` | the restore executor, recovery, the pending record, the commit chain, another session's turn, the user's editor, crashes and throws |
| `AtomicRestore.tla` | the abstract specification: chain and conversation change together |
| `WorkspaceRestoreProofs.tla` | inductive invariant and theorems, proved by TLAPS for every value of the constants |
| `PathApply.tla` | the replacement of one file, system call by system call, and its reconciliation |
| `TurnCheckpoint.tla` | turns of several sessions of a workspace: lease, drift, pending boundary, capture, status, recovery |
| `TurnLedger.tla` | the abstract specification of `TurnCheckpoint`: turns one after the other, what each left in commits of its own, one true report of each |
| `AgentSession.tla` | sends and aborts: the session runtime over the harness and the loop |
| `JobStream.tla` | a job's output: ring buffer, windows, reader, output loop, file, reconnection |
| `ByteStream.tla` | the abstract specification of `JobStream`: an output of which a file holds more and more, with counted gaps |
| `ReorderQueue.tla` | a job's input: the queue that puts keystrokes back in order |
| `QueueLemmas.tla` | lemmas on sequences without repetition and on least elements, used by four proof modules |
| `TurnCheckpointProofs.tla`, `AgentSessionProofs.tla`, `PathApplyProofs.tla`, `ReorderQueueProofs.tla`, `JobStreamProofs.tla` | the same for the other modules |
| `JobStreamWindowProofs.tla` | the second half of the proofs about `JobStream`: that no reader holds more than its window |
| `MC<Module>.tla`, `MC<Module>*.cfg` | the instances of these for TLC |
| `PROJECT.json` | components, runs, mutants, the map from definitions to source lines, findings, hazards, theorems |

Definitions named `X_Something` beside a definition `X` are mutants: the same operator with a
plausible bug. Putting one in the place of `X` makes the property named with it in
`PROJECT.json` fail, which shows that the property depends on that piece of the code.

## Inventory of the system

Paths are below `src/`; `rewind/` stands for `packages/coding-agent/workspace-rewind/`.

### Workspace rewind

**Restore transaction** (`rewind/workspace-restore-executor.ts`). State: none of its own; it
holds the session's mutation lease and the workspace writer lease and moves files, head, and
session leaf. Operations: verify the sources, publish `pending.json`, replace each file,
publish the result commit as the head, append the marker, verify, remove the record; in its
catch block, hand over to recovery. Hard: every step can throw before or after its effect is
durable; the process can die between any two. Correct when the marker never precedes the
commit, no outcome is torn, nothing uncommitted is overwritten, and what the caller is told
is true.

**Recovery** (`rewind/workspace-recovery.ts`). Reads the record, decides by the head alone
whether to roll back or complete, clears up what replacements that were cut short left beside
each file, classifies every path before it undoes any, verifies, and removes the record;
anything unexplained is left to the user. Called at start-up, by the write
gates, by the retry button, and by the executor. Hard: it is itself interrupted; it takes the
session lease and the writer lease in the order opposite to discovery. Correct when it removes
the record only for an operation that is whole or undone, and when it gets there.

**Pending restore record** (`rewind/pending-restore-store.ts`). One file, published without
replacement and removed under its expected head. Correct when a record that was published is
found, and found whole.

**File replacement** (`rewind/filesystem-apply.ts`). A worker process per file: prepared file,
quarantine directory, exclusive link, clean-up; and `reconcileArtifacts`, which reads from the
leftovers how far a dead worker came. Hard: an editor between any two calls; death between any
two calls. Correct when no bytes of the user are lost and nothing is left behind.

**Commit chain** (`rewind/workspace-mutation-log.ts`). Linear, one head moved by
compare-and-swap under the writer lease. Correct when a head is never published over another.

**Rewind engine, plans, confirmations** (`rewind/rewind-engine.ts`, `restore-plan.ts`,
`confirmation-token.ts`, `live-path-state.ts`). A preview freezes a plan and binds it to a
one-time token; apply consumes the token and refuses a plan that commits or entries have
overtaken. Hard: time passes between the two. Correct when a stale plan never runs.

**Turn checkpoints and writer lease** (`rewind/checkpoint-manager.ts`,
`workspace-writer-lease.ts`, `snapshot-source.ts`, `pending-boundary-store.ts`). A turn takes
the lease at its first writing tool, commits drift, records its boundary, and commits its own
net change at the end. Hard: calls that throw with or without their effect, crash between the
boundary's writes, another session in between. Correct
when every turn's change is attributed once and the lease always passes on.

**Session runtime gates** (`packages/coding-agent/agent-session-runtime.ts`,
`emain/agent-workspace-recovery-gate.ts`, `emain/agent-rewind-service.ts`). Refuse prompts and
tool calls while a record is pending; lock a session for a restore.

**Snapshot store, workspace lock and journal, Git runner** (`rewind/snapshot-*.ts`,
`workspace-lock.ts`, `journal-directory.ts`, `durability.ts`, `git-runner.ts`).
Content-addressed I/O, retention, cross-process locking, durable publication. The restore
model takes a lock as a lock and a publication as atomic; `TurnCheckpoint` takes apart the
publication and removal of a boundary's file.

### Agent

**Harness and loop** (`packages/agent/harness/agent-harness.ts`, `packages/agent/agent-loop.ts`).
State: phase, steering and follow-up queues, a drain in flight, an abort controller.
Operations: prompt, steer, followUp, abort, compaction, the loop's polls. Hard: awaits between
a check and its use. Correct when no accepted message is lost or answered twice, what an abort
cleared does not run, and every promise of a send is settled.

**Runtime registry and mutation barriers** (`packages/coding-agent/agent-runtime-registry.ts`,
`session-mutation-barrier.ts`, `packages/agent/harness/session/session-id-mutation-fence.ts`).
State: runtimes by session, leases, retained ones, tombstones. Hard: eviction, deletion and a
new lease overlap. Correct when no one uses a disposed runtime and no deleted session returns.

**Session storage** (`packages/agent/harness/session`). Entry transactions with an expected
leaf over JSONL or SQLite. Correct when a failed transaction leaves no entry.

**Compaction, context, tools, commands, permissions, providers**. Text processing, single calls
to files, shells and language servers, and adapters to external services.

### Main process

**Window, quit and workspace-switch handshakes** (`emain/emain-quit-coordinator.ts`,
`emain-workspace-close-handshake.ts`, `emain-workspace-switch-transaction.ts`,
`agent-session-state-broadcaster.ts`). Requests to every window, answers in any order, and a
commit or a cancellation sent to all. Correct when windows end all closed or all open.

### Go server

**Job output streaming** (`pkg/jobmanager`, `pkg/streamclient`, `pkg/jobcontroller`). A ring
buffer between a pty and a client that may leave and return; windows and acknowledgements.
Correct when what the client reads is what the job wrote, except for counted gaps, and the job
is not stuck while a client reads.

**Reorder and work queues** (`pkg/utilds`). Sequence numbers with a timeout for gaps. Correct
when items are delivered once and in order, and late ones are handled.

**Object and file stores** (`pkg/wstore`, `pkg/filestore`, `pkg/wcore`), **events and RPC**
(`pkg/wps`, `pkg/wshutil`, `pkg/eventbus`), **blocks, connections, shells**
(`pkg/blockcontroller`, `pkg/remote`, `pkg/shellexec`, `pkg/cmdblock`). SQLite transactions and
a write-back cache; a publish-subscribe broker and a router; process and SSH lifecycles.

### Left aside

`frontend` (user interface state), `tsunami` (a separate framework), `eval`, `docs`,
`aiprompts`, `third_party` (not part of the running program).

## WorkspaceRestore: state and actions

| variable | in the code |
| --- | --- |
| `live` | the workspace files, a function from numbered paths to contents |
| `beside` | what a cut-short replacement of this operation left beside each file: the quarantined entry, the prepared file, whether the file has one of them as a second link |
| `head` | `refs/crest/workspace-head`; `ver` is the commit's place in the chain, `op` the restore it is the result of |
| `own` | what the session's own history last left on each path, or `Foreign` when another session committed it last (`findCrestHistoryBlockers`) |
| `leaf`, `markers` | the session's leaf entry, and the restores that have a marker entry |
| `pending` | `pending.json`, with the trees of the two commits it names |
| `confirmed` | the plan behind the one-time token, and the paths commits have touched since |
| `lease`, `gate` | the workspace writer lease; a tool call that has passed the write gate |
| `pc`, `txn` | where `executeUnderLease` stands, and its locals |
| `rec` | where recovery stands, whether it holds the session, the paths still to do, and the file as it saw it before it reconciles it |
| `restores`, `reply`, `edited` | history: restores with a commit, the last answer to a caller, paths others wrote since the record was published |
| `count` | how much of each bound is used |

Actions follow the code's steps: `PreviewNormal`, `PreviewForce`, `BeginRestore` (the token,
the lease, the freshness check), `VerifySource`, `PublishPending`, `ApplyPath` in path order,
`PublishHead`, `AppendMarker`, `VerifyCommitted`, `ClearCommitted`, `Catch`; recovery's
`StartRecovery`, `ReadFacts`, `TakeSession`, `TakeLease`, then path by path `LookAtPath` and
`MendPath` (`reconcileInterruptedArtifacts`: the file is inspected, and a worker puts back or
removes what is beside it), then `ClassifyForRollback`, `UndoPath` in reverse order,
`VerifyUndone`, `ClearUndone`, or `ClassifyForCompletion`, `CompleteMarker`, `VerifyCompleted`,
`ClearCompleted`; and the world's `ExternalEdit`, `SessionAppend`, `ToolGate`, `TurnAcquire`,
`ToolRun`, `TurnEnd`, `Crash`. A call that throws does so before its effect or after it; the
executor's steps have both outcomes where they write, and where the publication of the record
throws after its effect, the catch block's reading of it may throw too (`PublicationUncertain`).
Throws and crashes in the middle of a replacement or a reconciliation leave the file and what is
beside it at any of the places these can stop (`Stop`, `LeftByReplacing`, `LeftByMending`).

Simplifications, and why they keep the properties meaningful:

- Replacing one file is one step, reconciling one is two (the look and the rest), and what is left
  where they are cut short is chosen from a set: the states between the system calls that
  `PathApply` takes one by one. Somebody else's write replaces a file by name. A file whose
  quarantine or prepared file cannot be explained (`Odd`, `Explained`) makes recovery throw, and one
  with a second link is passed over, as in the code.
- A plan's target on a path is any state other than the one it replaces. The real planner picks
  one from the history; the transaction must be right for each.
- turn-undo and turn-redo run the same executor with another marker and are not distinguished
  from rewind and redo.
- A redo is blocked by any later commit on its paths. The model compares the head's bytes with
  the session's, so a foreign commit that was exactly taken back does not block it.
- Reading the source states and taking the lease are one step with the freshness check: all
  happen under the lease, and the files are verified again afterwards.
- One recovery runs at a time (the code serialises them by workspace), and a crash and the next
  start are one step.
- A corrupt record is not modelled: the code refuses it before any step. The refresh of
  caches after a commit (`onCommitted`) changes none of the stores.

## PathApply: state and actions

`leaf`, `prepared`, `dir`, `entry` are the names the worker uses: the file, the prepared file,
the quarantine directory and its entry; `twin` says which name is a second hard link of the
file. The worker is a list of system calls still to make (`script`), each taken by `Call` with
the precondition `Possible` and the result `Effect`, failing by `Fail`, which replaces the list
by the catch block's. `WorkerDies` stops it anywhere. `Inspect`, `Decide`, `Reconciled`,
`Classify` and `StartUndo` are recovery's look at the path, the decision of
`reconcileArtifacts`, its repairs, and the rollback of the path. `Edit` is the user's editor, which
replaces the file by name. `kept` follows the editor's bytes that no commit holds.

The worker knows what it moved into quarantine only after an `lstat` of its own (`identify`). If that
fails, its catch block puts nothing back (`Identified`, `PutBack`). `prepareFile` removes the prepared
file by itself and swallows the failure of that (`Swallow`); once the file is prepared it is the catch
block that removes it, if it is still the one that was made (`drop`, `discard`). `slip` remembers that
one of the two happened.

Not modelled: symbolic links, created parent directories and their anchoring checks, the pipe
protocol, a writer that keeps the file open, the completion direction (it starts after a
successful apply, which `SuccessIsClean` shows to leave nothing), a worker that outlives the
main process. The two attempts of `restoreQuarantine` are one. A call of recovery that fails for
an I/O reason is `WorkerDies`.

## TurnCheckpoint: state and actions

| variable | in the code |
| --- | --- |
| `turns`, `marks` | the user entries and the checkpoint entries of each session, in its storage |
| `log`, `dirty` | the commits of `workspace-mutation-log.ts` with whose writes they hold; whose writes are in the files and in no commit |
| `ref`, `file`, `temp` | `refs/crest/pending/<session>/<token>`, `journal/pending/<token>.json`, and the temporary files beside the latter |
| `at`, `b` | where the checkpoint manager of each session stands, and its `ActiveBoundary` |
| `count` | `userTurnCounter` of the harness, from which tokens are made |
| `lease` | the queue of `WorkspaceWriterLeaseRegistry`, the active acquisition first |
| `epoch` | runs of the process, the identity of its boundaries' owner |
| `wrote`, `lost`, `cut` | history: turns that wrote, whose status could not be appended, in which the process died |

A turn: `StartTurn`, then at its first writing tool `ToolCall` (queue for the lease),
`Synchronize` (drift becomes an external commit), and three times the same persistence, once
each for `begin`, `bind` and, at the end, `recordAfter`: `Anchor` (the ref), `WriteTemporary`,
`Rename`. Tools then write (`ToolWrite`) until `Capture` or `EndTurn`, `AppendMark`, and the
removal, `Unref` and `Unlink`. Each of these has a throwing counterpart that may come after
the effect, and what its catch block does is `PersistThrows`, `RetireThrows`, `AcquireRefused`
and `AppendFails`. A session that is opened lists the directory (`Open`), reads what it listed
(`ReadRecords`; another session may remove a file in between) and settles the records of dead
processes one by one (`Recover`). A harness whose terminal event failed is `stuck` until it is
closed.

Simplifications: a user entry is in the session when the turn starts (a tool runs after it, so
`bind` follows `begin` at once, in `acquireBoundary`). The ref holds the whole record, as in the
code; a record is told by session, turn and process, and the snapshots it names are `base` and
`mark`. The user's own edits are left out: they go into whichever commit comes next. The abort of
a queued acquisition, hosted commands (their effect, an unavailable status, is a choice of
`EndTurn`), and rewinds are left out. An append to the session that throws appends nothing
(`appendEntries` takes an entry over when its one write has succeeded). Throwing counts against `MaxFailures`, the process dies at
most `MaxCrashes` times.

`TurnLedger` says what all of this is for, without lease, boundaries, refs or recovery. There is a
writer or none, a set of turns with writes in no commit, a history of commits, and the reports of each
session. `Begin` puts what was left over into a commit of nobody's, and the turn that begins has
neither written nor been reported; `Capture` ends a turn with a commit that holds its writes and no
others, `End` without one; `Report` adds one report of a turn that is over and has none yet, and it may
say "available" only if everything the turn wrote is between the two commits it names and nothing else
is. Under the mapping of `ImplementsTurnLedger` the writer is the turn between `Synchronize` and its
capture (`Writing`), `dirty`, `log` and `marks` are the other three:

| step of `TurnCheckpoint` | step of `TurnLedger` |
| --- | --- |
| `Synchronize`, and one that throws after the commit | `Begin`; `CleanUp` |
| `ToolWrite` | `Write` |
| `Capture`, and one that throws after the commit | `Capture` |
| a capture that does nothing, `EndTurn`, a `begin` or `bind` that throws, `Crash` | `End` |
| `AppendMark`, `Recover` of an unfinished turn | `Report` |
| everything else | a stutter |

## AgentSession: state and actions

| variable | in the code |
| --- | --- |
| `running`, `pending`, `send` | `running` and `pendingSends` of `AgentSessionRuntime`, the promise and flags of each send |
| `lead` | the send behind the present `promptDispatch` |
| `at`, `msg` | where the asynchronous functions of a send and of the run it started stand, and which message the run is about |
| `phase`, `runPromise`, `controller` | of `AgentHarness`, with `runAbortController` |
| `followUps`, `drain` | `followUpQueue` with its parallel arrays, `inFlightFollowUpDrain` |
| `turn`, `finalizing` | `activeUserTurn`, `userTurnFinalizationPending` |
| `aborted`, `abort` | signals that are aborted, a call of `abort()` under way |
| `recorded`, `cleared`, `odd` | user messages in the session; history |

`SendMessage` is `send()`, with or without a preparation; with `Serial` a send waits for the
promise of the one before, as `sendWithExecutionConfig` has it. `Prompt` and `FollowUp` are the
two ways on. A run goes `Start`, `Prepare`, `AfterPrepare`, `UserMessage`, `Stream`, then `Poll`
and, for a message from the queue, `BeginFollowUp`, `Activate`, `FollowUpTurn` and round again;
`AgentEnd` ends it. `Promote` and `Promoting` try the queue when the prompt's own message could not
be prepared. A step ends where the code awaits a hook, a listener or I/O, so that sends and
`Abort` come in between exactly there. `Stream` does not look into a response, and stands for tool
calls and steering too.

What the code does when a listener, a hook or an append fails in the middle is modelled
(`Fails`), and the module remembers in `odd` what went another way than usual: a message put back
after its activation, a message drained by a run that was aborted already, a message lost with a
failing append, a send rejected by an abort although its prompt goes on, two sends at the gate at
once. `SendsSettle` excepts runs in which one of those happened, `SendResolvesOwn` all of them but the
second; they are the places to look at if these promises matter.

## JobStream and ByteStream: state and actions

| variable | in the code |
| --- | --- |
| `ring` | `CirBuf`: bytes ever written, bytes held, mode, effective window |
| `writer` | `readLoop`: what it has read and not yet written, whether it waits for room or has a signal to give |
| `mgr`, `asleep`, `prep` | `StreamManager`, its sender waiting on `drainCond`, a `PrepareConnect` between two of its locks |
| `link`, `net`, `acks` | the connection, packets and acknowledgements under way, as sets: they arrive in any order |
| `readers`, `loops`, `current` | `Reader` and `runOutputLoop` of each stream, `jobStreamIds` |
| `restart` | `restartStreaming` |
| `file`, `gap`, `saved` | the job's output file and `MetaKey_TotalGap` in the cache, and what of them is in the database |
| `done` | `StreamDone` of the job |
| `late`, `stale` | history: a loop appended after a restart had looked at the file; a client was told a start that is not in the ring any more |

A byte is its position in the output, so that contents can be compared with positions. Steps that
hold `sm.lock` are one action; the ring has its own lock, and `PrepareHead` and `PrepareSet` are
separate because the pty's goroutine writes in between. `Absorb` is `RecvData` of the reader: what is
in sequence by this packet or by one kept from before (`Taking`, `InSequence`), what is kept for later
(`KeepEarly`). `WriteRing`, `SignalSender`, `EndPty`,
`Sender`, `RecvAck` run in the job manager; `RecvData`, `LoopRead`, `LoopAppend`, `FlushFile` in the
main server; `Drop` and `Crash` lose the connection with all that is under way, and after
`Reconnect` the restart is `StatFile`, `SetStream`, `PrepareDisconnect`, `PrepareHead`, `PrepareSet`,
`Prepared`, `StartStream`, `Started`, or `GiveUp` at a call that fails or times out. Between `StatFile`
and `SetStream` the loop of the stream before is still the current one and goes on appending.

`ByteStream` says what the user is promised: a file that holds the bytes up to a position, but for
a counted number that is missing; bytes are skipped only by being counted; a crash takes back the
end. `ImplementsByteStream` maps the file's length plus the gap to the position. What is excepted is
`late'`: from the step on in which a loop appends although a restart has looked at the file already,
be it that the loop passed its test before it was superseded, or that the new stream is not set yet.

A loop takes its reader's buffer whole, where the code reads 4096 bytes at a time; an append in
several pieces is several reads here. `PrepareHead` merges the calls by which `ClientConnected` reads the
head, consumes up to the client's position and reads the head again: a writer between them can make the
ring lose more of its oldest bytes, which the head that is read last then counts.

Not modelled: how a job starts and ends, its exit status, the Cancel acknowledgement (it names a
stream that is not the manager's any more), failing appends, the terminal emulator fed from the
loop. The manager notices no lost connection, as in the code (see below).

## ReorderQueue: state and actions

`order`, `next`, `buffer`, `timer`, `closed` are the fields of `QuickReorderQueue` (`sessionOrder` as
the order in which sessions were first seen), `emitted` and `taken` its channel with what was taken
from it, `callbacks` the timers that may still run: `Stop` is too late for one that waits for the lock.
`QueueItem`, `OnTimeout`, `CloseQueue` are its methods, each one action under the lock, with
`ensureSessionTs`, `flushBuffer` and `processBuffer` inside. `TakeInput` is the job manager's
`processInputQueue`. Time is abstract: when a timer set for an item runs, that item and any prefix
of later arrivals have waited long enough. Two sessions first seen in the same millisecond, which
the comparison cannot tell apart, and `SetNextSeqNum`, which nothing but a test calls, are left
out.

## Properties and runs

Bounds count occurrences (`MaxEdits` is the number of saves by the editor, and so on). Every run
finishes its whole state space, with symmetry over the contents of files where no liveness is
checked.

| run | instance | states | shows |
| --- | --- | --- | --- |
| `restore_two_paths` | 2 paths, 3 contents (one of them "absent"), one each of restore, edit, turn, throw, crash | 3.4 million | `TypeOK`, `ClearedOnlyWhenDecided`, `NoTornRestore`, `OverwrittenBytesAreCommitted` |
| `restore_sequence` | 1 path, 2 restores, one each of edit, turn, write, append, throw, crash | 2.7 million | `MarkerAfterCommit`, `CommittedOrPending`, `ReplyTruthful`, `ImplementsAtomicRestore` |
| `restore_resolved` | 1 path, one restore, one turn, 2 edits, 2 throws, 2 crashes, with fairness | 1.9 million | `EventuallyResolved` |
| `path_apply` | 5 contents, 3 edits, 2 failing calls, 3 deaths | 139 thousand | `TypeOK`, `FailedApplyUndone`, `SuccessIsClean`, `ApplyKeepsUserBytes` |
| `turn_checkpoint` | 2 sessions, 2 turns in all, 2 throws, 1 death of the process | 1.9 million | `TCTypeOK`, `OwnChangesOnly`, `OneStatus`, `WritesAccounted`, `RecordsReadable`, `DeadRecordsRetired`, `ImplementsTurnLedger`, `LeaseGranted` |
| `agent_session` | 3 sends, 2 aborts, 1 failing call | 336 thousand | `STypeOK`, `OneRun`, `SendResolvesOwn`, `QueuedOnce`, `ClearedNotDelivered`, `AbortWaitsForRun`, `SendsSettle` |
| `job_stream` | 3 bytes, ring of 3, windows of 2, packets of 1, 2 streams, 1 timeout, 1 crash | 1.1 million | `StreamTypeOK`, `CountsAgree`, `ReaderWithinWindow`, `NobodySleepsOnWork`, `ImplementsByteStream`, `EofMeansAll`, `OutputArrives` |
| `input_queue` | 2 sessions and none, numbers to 3, capacity 3, 4 inputs | 156 thousand | `QTypeOK`, `NeverBlocks`, `ExactlyOnce`, `InOrderUnlessLate`, `EventuallyHandedOn` |
| `turn_past_gate`, `path_apply_stuck`, `agent_send_hangs`, `turn_checkpoint_open` | small | | one disagreement each, see Findings |

Why these bounds are enough to be worth running. Two paths are the least with a half-done
restore, and paths interact only through "all" and "some". Three contents, one of which is that of
no file, tell source, target and an unknown state apart, and creation, removal and replacement; `PathApply` has five, for two committed states and three different saves.
One throw plus one crash reaches a restore that fails in the middle of a replacement, whose recovery
is then killed in the middle of its reconciliation, whose next recovery finds what both left; the
liveness run has two of each. The other session's turn writes nothing in the run with two paths, to
keep it in bounds; it does in the one with two restores. Two restores in a row are the least in which a record, a marker or
a confirmation of the first could be taken for the second's. What the bounds exclude, more
restores, crashes, or paths, is covered for every safety property by the proofs.

Two sessions are the least with another one in the lease's queue, in the directory and on the
chain. Two throws reach a clean-up that fails too, and with the death a recovery of what both
left; two turns reach a token that is used again, in one session after a restart or in two at the
same time. Three sends are the least with a run, a message in flight and one queued behind it; two
aborts the least where the second finds what the first left. Three bytes with windows of two reach
a packet under way, one acknowledged and one in the ring, a writer that waits, and a disconnected
ring that drops; two streams are one reconnection, with the superseded loop still alive. Four
inputs and a capacity of three fill the queue with one left over, and reach a gap that is given up
with something behind it.

Deadlock is not checked: when the bounds are used up and nothing is pending the systems are
rightly at rest, and `PathApply` ends when the path is decided.

### Fairness

No specification makes a failure, a crash, a user, a job or a network fair. `FairSpec` of
`WorkspaceRestore` adds weak fairness to four things:

- `Executor`: its steps are awaited one after the other in one process.
- `StartRecovery`: the start-up scan, each write gate and the retry button call `resolvePending`
  again for as long as the record is there. That somebody comes to a gate is an assumption about use.
- `Recovery`: the steps of a recovery that runs, including the wait for a lease that is free again.
- `pending = None /\ TurnEnd`: a turn ends. The conjunct leaves out a turn that holds the lease
  while a record is pending, since its next tool call waits in the write gate for a recovery
  that waits for the turn's lease.

`EventuallyResolved` accordingly excepts a lease held by a turn, and states of the stores that the
code leaves to the user (`NeedsUser`).

`TCSpec`: the steps of a handler that was called (`Step`) and the end of a turn (`EndTurn`: a run
ends by its own limits or the user's abort). Nobody has to open a session, send, or call a tool.
`LeaseGranted` needs no more than that, since the lease passes on in every catch block.

`FairSession`: what the code awaits returns or fails, providers time out, so the functions of a
send and of a run (`Prompt`, `FollowUp`, `RunStep`) and the end of an `abort()` go on. Nobody has to
send or to abort.

`FairSpec` of `JobStream`: goroutines run (`Sender`, the rest of a read that has begun, the reader,
output loops, both sides of a restart) and packets on a live connection arrive. The job need not
write or end, a connection need not return.

`QSpec`: a timer that was set runs, and the job manager takes its input.

## What is proved

Every invariant, every action property and every refinement of the passing runs is a theorem for
every value of the constants. Each
proof module states the inductive invariant `IInv` of its module, proves that `Init` implies it and
that every action keeps it (one lemma or step per action), and derives the properties from it. TLC
checked each `IInv` on the instances of the runs before it was proved.

### WorkspaceRestoreProofs

For any number of paths, any contents and any bounds:

| theorem | statement |
| --- | --- |
| `TypeCorrect` | `Spec => []TypeOK` |
| `Invariance` | `Spec => []IInv` |
| `MarkersFollowCommits` | `Spec => []MarkerAfterCommit` |
| `NoRestoreIsLost` | `Spec => []CommittedOrPending` |
| `RepliesAreTrue` | `Spec => []ReplyTruthful` |
| `RecordClearedOnlyWhenDecided` | `Spec => ClearedOnlyWhenDecided` |
| `RestoreIsAtomic` | `Spec => ImplementsAtomicRestore` |
| `RestoreIsNotTorn` | `Spec => NoTornRestore` |
| `OverwritesAreCommitted` | `Spec => OverwrittenBytesAreCommitted` |

Assumptions: `PathsAssumption` (at least one path), `BytesAssumption` ("absent" is a content),
`BoundsAssumption` (bounds are natural numbers).

The properties are not inductive as they stand. `CommittedOrPending`, for instance, says nothing
about where the executor is, so a state in which it is about to remove the record of an operation
without a marker satisfies it. The inductive invariant is `IInv == TypeOK /\ Safe`, and `Safe` adds
to the three state properties what ties control to stores:

- `LeaseInv`: who holds the lease, by the control states of executor, recovery and turn;
- `OpsInv`: operation ids are given out once and in order, so a new one is in no store;
- `ExecutorInv`: at each step of the executor, which of record, commit and marker its operation
  has, and that the head is still the source or the planned one while it holds the lease;
- `RecoveryInv`: the same for each step of recovery, from its first look at a path on;
- `HeadInv`: the head's place and operation decide whether the pending operation is committed.

`ClearedOnlyWhenDecided` follows since the record is removed by three actions only, whose guards
together with `ExecutorInv` or `RecoveryInv` give the conclusion; the refinement from the same
facts, each step being `Open`, `Commit`, `Abort` or a stutter of `AtomicRestore` under the mapping
that hides the pending operation's effects.

The two properties about files need two more invariants, proved on top of `IInv`. `FilesInv`: what
the last verification found (`verifyCommittedState`, `verifyClassifications`) stays true until the
record is removed, on every path that nobody else wrote, because the lease keeps everyone but the
editor away. `SeenInv`: what a plan says was seen is the session's last commit of the path, as long
as `overlap` does not name the path, and the source commit's state once a forced plan has been
verified; so it is right of `assertConfirmedRestoreFresh` to look at the overlap only.

`OverwritesAreCommitted` speaks of every step of executor and recovery and of everything that can cut
them short. Two lemmas say what a cut-short replacement and a cut-short reconciliation take away:
`ReplacingLeaves` (the expected bytes, or bytes that are now in the quarantine, which was empty) and
`MendingLeaves` (the operation's other state, or what was written after the look; out of the quarantine
only source or planned bytes, since anything else is unexplained). `StopIsAccounted` puts them together
with `SeenInv`, so that the expected bytes are committed ones.

### TurnCheckpointProofs

For every set of sessions and all bounds (`CheckpointAssumption`: some session, at least one turn):

| theorem | statement |
| --- | --- |
| `TypeCorrect` | `TCSpec => []TCTypeOK` |
| `OnlyOwnChanges` | `TCSpec => []OwnChangesOnly` |
| `StatusIsOne` | `TCSpec => []OneStatus` |
| `NoWriteForgotten` | `TCSpec => []WritesAccounted` |
| `EveryRecordReadable` | `TCSpec => []RecordsReadable` |
| `NothingDeadLeft` | `TCSpec => []DeadRecordsRetired` |
| `TurnsKeepALedger` | `TCSpec => ImplementsTurnLedger` |

The reasons these hold, none of which they mention, are the parts of `IInv`. Only the holder of the
lease writes files, commits and boundaries' files, and nobody else's writes are uncommitted while it
holds it (`LeaseInv`, `DirtyOf`, `WriterOf`). A token's file and ref belong to the session that
created them in this process, at a stage that says how much of them is there (`PendingOf`), or to a
dead process, and then every session that is open has settled them or still has them in its list
(`DeadOf`). A status is appended only in a turn that has none (`StatusOf`, `WroteInv`). `Local(s)`
collects what is said of one session, and the proof of a step has two halves: the session that
moves, and `OthersStay` and its kin for the rest, which see only the lease, the commits and the
directory change.

The refinement follows from the same `IInv`, action by action (`SynchronizeMoves`, `WriteMoves`,
`CaptureMoves`, `RecordMoves`, `AppendMoves`, `RecoverMoves`, `CrashMoves`; `QuietMoves` for those that
stutter). That there is one writer at most no guard
asks: a session that writes is at the head of the queue (`WriterHolds`), and the queue has one head.
That a turn begins unreported and with nothing written follows from `StatusOf` and `WriterOf`; that a
report comes after its turn, from the stage of the session that appends it, which does not write; and
that an "available" one is true, from `MarkOf`, which carries what the capture found (`Owned`) until
the status is appended.

### AgentSessionProofs

For any number of sends, aborts and failures, whether or not sends are serial (`SessionAssumption`):

| theorem | statement |
| --- | --- |
| `TypeCorrect` | `SSpec => []STypeOK` |
| `OneRunAtATime` | `SSpec => []OneRun` |
| `AnswersAreOwn` | `SSpec => []SendResolvesOwn` |
| `NoMessageTwice` | `SSpec => []QueuedOnce` |
| `ClearedStaysCleared` | `SSpec => ClearedNotDelivered` |
| `AbortOutlastsRun` | `SSpec => AbortWaitsForRun` |

`IInv` says where a message is: in the hands of its send, in the queue, in `inFlightFollowUpDrain`,
or in the session, in one of these only (`QueueInv`, `DrainInv`); that a run that is not over is the
one of `runPromise`, with the phase and controller that go with it (`RunInv`, `RunOf`); that messages
are cleared only by the `abort()` that still waits (`AbortInv`); and which promises wait for an event
(`PromiseInv`, `AnswerInv`): as long as nothing odd but a drain after an abort has happened
(`Straight`), only that of the message the run is about. So `SendResolvesOwn` holds in more cases
than its statement first allowed: a message drained by an aborted run is no exception to it.

### PathApplyProofs

For any contents of files and any bounds (`StatesAssumption`: being absent or half written is no
content; `LimitsAssumption`):

| theorem | statement |
| --- | --- |
| `TypeCorrect` | `Spec => []TypeOK` |
| `FailureUndoes` | `Spec => []FailedApplyUndone` |
| `SuccessLeavesNothing` | `Spec => []SuccessIsClean` |
| `ApplyDestroysNothing` | `Spec => ApplyKeepsUserBytes` |

What the names may hold depends on how far the worker is. Its script is always the rest of one of a
few lists (`ApplyRests`, `CatchRests`, `ReconcileRests`), so that the next call tells the stage. For
each stage `IInv` says what is known of file, prepared file, quarantine and second link whatever the
editor does (`ApplyInv`, `TidyInv`, `CatchInv`, `ReconcileInv`, `BetweenInv`), and what more is known
as long as the editor has done nothing (`UndisturbedInv`, `UndoneInv`).

### ReorderQueueProofs

For all sessions, numbers and capacities (`QueueAssumption`: "no session" is one of them):

| theorem | statement |
| --- | --- |
| `Invariance` | `QSpec => []IInv` |
| `TypeCorrect` | `QSpec => []QTypeOK` |
| `NoWriterBlocks` | `QSpec => []NeverBlocks` |
| `NothingLostOrDoubled` | `QSpec => []ExactlyOnce` |
| `HandedOnInOrder` | `QSpec => []InOrderUnlessLate` |

`QueueItem` does up to four things under the lock. `Core` says what is right of the queue between any
two of them: what was accepted is handed on or held, not both; what is held belongs to the present
session and waits for a lower number; what was handed on is in order. Lemmas say that handing on an
item, starting a session, holding an item, passing a gap and handing on a run keep `Core`, and the
method is their composition. `NeverBlocks` is a matter of counting: accepted minus taken is at most
the capacity. `SortedIs` rests on `Enumeration` of `QueueLemmas` (a sequence that lists a finite set
in order), since the model sorts by choosing a sorted sequence.

### JobStreamProofs

For all sizes of ring, windows and packets and all bounds (`SizesAssumption`: sizes are positive):

| theorem | statement |
| --- | --- |
| `Invariance` | `Spec => []IInv` |
| `TypeCorrect` | `Spec => []StreamTypeOK` |
| `ClientCountIsExact` | `Spec => []CountsAgree` |
| `NoLostWakeup` | `Spec => []NobodySleepsOnWork` |
| `EofComesLast` | `Spec => EofMeansAll` |
| `FileIsOutput` | `Spec => ImplementsByteStream` |

`IInv` has a part for each place a byte can be in, so that a byte keeps its position from the ring to
the file: `RingInv`, `MgrInv`, `NetInv` (a packet's bytes are those of its sequence number, an end is
at the end: `PacketTrue`), `ReadersInv` (`ReaderTrue`), `LoopsInv`, `FileInv`. `RestartInv` says that the
reader of a restart stands where the file does until the manager has answered; `QuietInv` that for a
stream in preparation nothing but an end can be under way; `CountInv` and `SleepInv` are the two
properties. What is true of a packet stays true while the job goes on (`PacketStaysTrue`), so most
actions concern one part. `AbsorbTrue` shows that taking in early packets yields consecutive bytes,
by a least counterexample in the place of an induction. In the refinement `WriteRing` is `Write`,
`LoopAppend` is `Deliver`, `Prepared` is `Skip`, `Crash` is `TakeBack`, and all else a stutter, unless a
loop appends late (`late`).

### JobStreamWindowProofs

Under the same assumption:

| theorem | statement |
| --- | --- |
| `WindowInvariance` | `Spec => []WindowInv` |
| `WindowKept` | `Spec => []ReaderWithinWindow` |

The window is kept by nobody in particular: the sender counts bytes against the last window it was
told, acknowledgements overtake each other, and the reader never refuses a packet. `WindowInv` says,
on top of `IInv`, what the parties agree on. `FitInv`: the bytes of a stream that its reader has not
taken, under way or come early, lie without overlap beyond what it has taken, and end within a window
of what it has passed on (`Spread`, `Ahead`). `AckInv`: an acknowledgement under way promises no more
than there is room for, however old it is. `ServedInv`: what the manager has sent, and what it may send
before it hears more, is within the room of the reader. `KnownInv` and `PrepInv`: nothing is under way
on a stream the manager has not been given, and the start a restart is told is not beyond the ring's head.
Without its second case `ServedInv` is not inductive, for a reason that lies in the code: when the pty
drops bytes between the two locks of a preparation, the client is told a start that is not in the ring any
more (`stale`), and its reader waits for a byte that never comes. Such a reader is in `FitInv` as `Beyond`:
all that comes is beyond the byte it waits for, so it acknowledges nothing and gets one window at most. `ReaderWithinWindow` is stated by positions
and not as a number of bytes: all that a reader holds lies within one stretch of `ReadWindow` positions
and no position is held twice. That is more than a bound on the number, and it needs no sum over a set.

### Only model-checked

All liveness (`EventuallyResolved`, `LeaseGranted`, `SendsSettle`, `OutputArrives`,
`EventuallyHandedOn`): fairness and ENABLED are outside what the provers handle.

## Findings

Each is a run that ends in a counterexample to what a document of the repository says.

1. `turn_past_gate`. A tool call that passed the write gate and waits for the lease is granted it
   when a restore ends frozen. It moves the head, so the record can no longer be resolved, and writes.
2. `path_apply_stuck`. A worker that dies between `mkdir` of the quarantine and the rename, or in the
   middle of writing the prepared file, leaves something that every retry of recovery refuses.
3. `agent_send_hangs`. A response that ends in an error ends the run without a look at the
   follow-ups. A queued message stays in the idle harness and its promise stays open; by
   `sendWithExecutionConfig` every later send waits behind it until somebody aborts.
4. `turn_checkpoint_open`. A process that dies while it writes a pending boundary leaves a temporary
   file in `journal/pending`. `scanPendingBoundaryRecords` takes the name for damage, nothing removes
   it, and no session of the workspace opens again.

### Properties that do not hold

Four more properties are stated in the modules and checked by no run of `PROJECT.json`, because the
code does not have them. A configuration with only that property, and the constants given here, shows
the behaviour.

- `RollbackRestoresConfirmed` (`WorkspaceRestore`; the constants of `MCRestoreLive.cfg`). A rollback
  restores the tree of the source commit; a normal plan expects what was on disk. They differ when a
  force preview committed a drift the user then took back, and the rollback brings it back.
- `UserBytesSurvive` (`PathApply`; `MCPathApply.cfg`). `reconcileArtifacts` compares the file once and
  then renames the quarantined entry over its name; a save in between is destroyed.
- `InterruptedInstallReconciled` (`PathApply`; `MCPathApply.cfg`). A worker that dies between `link` and
  `unlink` leaves a file with two links, which recovery calls unknown and skips, so the case for it in
  `reconcileArtifacts` is reached by its unit test only.
- `LostClientReleasesJob` (`JobStream`; `MCJobStream.cfg`). `handleJobDomainSocketClient` defers
  `disconnectFromStreamHelper` and returns as soon as its goroutines run, so a client lost later is
  never disconnected from the stream; the ring stays in the mode that blocks, and the job with it,
  until the next connection.

What other properties except is the same kind of thing, and is named in their comments: recovery's
reconciliation does not notice what was written to a file after it looked (`rec.view` in
`OverwrittenBytesAreCommitted`), a worker whose `lstat` after the move fails leaves the file in
quarantine, and one that cannot remove a half-prepared file says nothing (`slip` in
`FailedApplyUndone`), a stream that ends in an error loses what its reader still holds, a start is told
that the ring no longer has (`stale`), a loop appends after a restart has looked at the file, and its
bytes come twice or are in a gap too (`late`), a restart that is told "done" leaves a tail uncounted, a
boundary's file is removed by another session with the same token (`Robbed`), an abort or a failing
listener leaves a promise to the wrong event (`odd`).

## Not modelled

The session runtime registry, the handshakes of windows and workspaces, and the entry transactions
of session storage repay a model and are next in the plan. Compaction, context, tools, commands,
permissions and the providers are text processing and single calls to files, shells and services. The
snapshot store and the Git runner are content-addressed I/O, the workspace lock a lock file. The Go
server's stores are SQLite transactions; its broker, router, block and connection controllers are
candidates, mostly I/O. The renderer is user interface state, Tsunami a framework of its own; `eval`,
`docs`, `aiprompts` and `third_party` are not part of the running program. Most of the repository's
lines are in these, so the map covers a small share of them.

## Plan

Done: `WorkspaceRestore` with `AtomicRestore`, `PathApply`, `TurnCheckpoint` with `TurnLedger`,
`AgentSession`, `JobStream` with `ByteStream`, `ReorderQueue`, each with its proofs.

Theorems worth proving next: that a worker's replacement, seen from `WorkspaceRestore`, is the atomic
one of `ApplyPath` (a refinement between the two modules for one path); an abstract specification of
the sends (each message answered once), with its refinement.

Modules to write: `RuntimeRegistry` (leases, retention, eviction, deletion and tombstones),
`QuitCoordinator` (windows closed all or none; the workspace switch beside it), session entry
transactions, the file store's cache, the event broker; in `PathApply`, a worker that survives the
main process; in `TurnCheckpoint`, the abort of a queued acquisition and a rewind that takes the lease.
