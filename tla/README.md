# TLA+ models of pi-dashboard

pi-dashboard is a web dashboard for the `pi` coding agent. Its backend (one
Node.js process, one JavaScript thread) mirrors `pi` sessions that run in
terminals, lets browsers and phones send commands to them, keeps chat slots of
its own, and talks to a hub so that a phone can reach a session from outside.
This directory holds TLA+ models of the parts of the backend, and of the
browser's store, where ordering, failure and time decide whether it is correct, TLC configurations that check
them on small instances, and TLAPS proofs of what can be proved for every
instance. Source paths below are relative to the repository.

## 1. Inventory

| Part | Where | State it keeps | What it does |
|---|---|---|---|
| Live-session registry | `backend/live-sessions/registry.ts` | per session: transport, generation, summary, promise chain `dispatchTail`, pending commands, lease, timers; `exclusiveSessionIds` | connect, snapshot, event, disconnect, detach; dispatch of commands; claim, renew, release; remote input; exclusive operations; resync |
| Live-session broker | `backend/live-sessions/broker.ts`, `protocol.ts` | sockets, hello state, one promise chain of lines per socket, the lock file | accepts the bridges, parses lines, hands them to the registry; heartbeats |
| Browser store | `frontend/src/store/liveSessionsSlice.ts`, `features/live-sessions/useLiveSessions.ts`, `detachGrace.ts` | per session a row and a detail with its revision and event sequence, pending detaches, a WebSocket | merges frames and HTTP answers, asks again after a gap, holds a detached row for a minute |
| Remote control | `backend/machine-connector.ts`, `machine-session-outbound.ts` | per connection: dispatch queue, `inFlight`, `clients`, `revoked`; per process: `inputTombstones`, `activeClientOwners` | claim, release, input and revocation for devices behind a hub; reconnects |
| Durable input reservation | `backend/machine-input-replay.ts` | a lock file, a journal file, its copy in memory | `reserve(client, request)`: true at most once, for ever |
| Session order, groups, metadata | `live-sessions/{order,groups,meta}.ts` | a map in memory, a JSON file, a write queue | load, change, save |
| Restart, close, discard, fork | `live-sessions/session-*.ts` | operations under way | multi-step operations under the registry's exclusive lock |
| Launcher | `live-sessions/launcher.ts` and helpers | spawned processes | starts `pi` in tmux or a terminal |
| Session tree and goals | `live-sessions/session-tree.ts`, `session-goal*.ts` | caches | parse session files |
| Routes, auth | `routes/live-sessions.ts`, `auth.ts` | browser sessions | check requests and call the above |
| Chat slots | `pi-manager.ts`, `pi-session.ts`, `pi-sdk-session.ts`, `routes/chat.ts` | slots, child processes, pending RPC calls | start, prompt, abort, restart |
| Session store, settings | `session-store.ts`, `settings-store.ts`, `server.ts` | files | persist slots |
| Extension bridge | `extension-bridge/*` | providers, calls under way | RPC between extensions and front end |
| Supervisor | `supervisor/*` | reports, runtime | an agent that watches sessions |
| Services, tasks, jobs | `services/registry.ts`, `tasks/*`, `meme-jobs.ts`, `routes/jobs.ts` | probes, links, jobs | around external programs |
| Ledgers | `usage-ledger.ts`, `timing-ledger.ts`, `memory-store.ts` | caches of files | incremental scans |
| Lark channel | `channels/lark/src/*` | dialogs, progress cards, mapping | the dashboard in a chat application |
| Other front ends, plugins, packaging | `frontend`, `android`, `apple`, `desktop`, `plugins`, `scripts` | | not part of the core |

How they interact. A `pi` process runs a bridge extension that opens a socket
to the **broker**; the broker turns its lines into calls of the **registry**
(`connect`, `applySnapshot`, `applyEvent`, `handleCommandResult`,
`disconnect`, `detach`). Browsers reach the registry by **routes**
(`claim`, `sendBrowserCommand`, ...) and hear of it by the frames that the
routes broadcast, and by what they fetch; the **browser store** merges both; **restart, close and discard** wrap
themselves in `withExclusiveSession`. The **outbound connector** is one more
client of the registry: requests of the hub become `claim`, `release`,
`sendRemoteInput` and `releaseByBrowser`, and an input first passes the
**journal**, whose `reserve` must succeed before it enters the queue.
**Chat slots** share none of this: a slot is a session object of one of two
transports, with the same operations behind `routes/chat.ts`.

What is hard, and which properties answer it:

- *Registry.* Every operation is a promise chain: conditions are checked, the
  chain is awaited, a command is sent, its result, a timeout, a disconnect or a
  reconnect settles it, and only then the caller continues and writes the lease.
  Between any two of these steps the entry may be detached, replaced, switched
  to another session or claimed by another client. Correct means: commands of a
  connection keep their order, a remote input reaches only what it was checked
  against, an exclusive operation is alone, a claim can always be released and
  ends by itself, nobody's claim is overwritten, nothing is left of a detached
  entry, and everything that was asked for settles.
- *Journal.* Two processes, crashes, power loss between write, rename and
  fsync, a lock that survives its owner. Correct means: an id is accepted at
  most once, and what was accepted is on the disk.
- *Remote control.* Answers that are lost and requests that are repeated, a
  12 second answer that comes before the outcome, a device revoked while its
  claim is pending, a connection that ends with requests queued, a dashboard
  that dies. Correct means: an input is sent at most once, its answer never
  misleads, no lease outlives the connection or the revocation of the device,
  the limit on requests is exact, and the connection can always be made again.
- *Event stream.* Lines that are handled long after they were received, because
  hello and snapshot await the path policy; sockets that are replaced, closed
  and timed out meanwhile; a bridge that drops events, misses a resync, or is
  built anew and numbers from the start. Correct means: the transcript is an
  unbroken stretch of one session's log, a gap is noticed and healed, and a
  session that is back is not detached.
- *Browser store.* Frames race HTTP answers, frames are lost with the WebSocket,
  the numbering starts again. Correct means the same for the page's transcript.
- *Chat slots.* Child processes that hang, crash, ignore signals or go on
  speaking after their exit; timers that do not know for which process they
  were set; a start that no kill stops; prompts that wait for a process that is
  replaced. Correct means: no second Pi is left at work, no prompt is
  forgotten, a stop ends, a held tool call never runs without approval.
- *Sidebar stores.* Calls that come before the file was read, writes of
  overlapping calls, failures in the middle of the write queue, restarts.
  Correct means: what was answered as saved is in the file, and what is shown
  is what is saved.
- *Broker lock, extension bridge, Lark.* A lock file whose check and use are
  separated, calls to processes and users that vanish. Not modelled.

`PROJECT.json` lists the hazards at their lines, with the properties that cover
each and a note where none does yet.

## 2. Modules

| Module | Models | Remarks |
|---|---|---|
| `LiveDispatch` | one entry of the registry: connections, command chain, lease, exclusive operations | `MCLiveDispatch` adds symmetry and a view |
| `LiveDispatchProofs` | theorems about `LiveDispatch` | |
| `InputLedger` | what the remote-input path promises: each input is taken at most once | abstract specification |
| `ReplayJournal` | the journal of reserved inputs, several processes on one disk | implements `InputLedger`; `MCReplayJournal` adds symmetry |
| `ReplayJournalProofs` | theorems about `ReplayJournal` | |
| `RemoteControl` | the outbound connector, over reconnects and crashes, controlling one session | implements `InputLedger`; instances `MCRemoteControl` |
| `RemoteControlProofs` | theorems about `RemoteControl` | |
| `SessionMirror` | what a reader of a transcript is promised: an unbroken stretch of one session's log | abstract specification |
| `LiveStream` | broker connections and the registry's event mirror | implements `SessionMirror`; instance `MCLiveStream` |
| `LiveStreamProofs` | theorems about `LiveStream`: types and the grace timer | |
| `StreamMirrorProofs` | theorems about `LiveStream`: what its mirror shows | builds on `LiveStreamProofs` |
| `BrowserMirror` | routes, WebSocket, HTTP answers and the browser's store | implements `SessionMirror`; instance `MCBrowserMirror` |
| `BrowserMirrorProofs` | theorems about `BrowserMirror` | |
| `RpcSlot` | a chat slot whose Pi is a child process | |
| `SdkSlot` | a chat slot whose Pi session is in the dashboard's process, with the tool gate | |
| `ChatSlot` | a slot over both transports and the change between them | composes `RpcSlot` and `SdkSlot`; instance `MCChatSlot` |
| `ChatSlotProofs` | theorems about `ChatSlot` | |
| `SidebarStores` | the stores of the sidebar: order, groups and metadata | `MCSidebarStores` adds symmetry |
| `SidebarStoresProofs` | theorems about `SidebarStores` | |

A definition whose name begins with `Bug` is a plausible mistake in the
definition that follows it. It is used by no specification: replacing the
definition by it shows which property notices the mistake.

### LiveDispatch

One JavaScript thread: an action is one macrotask (a socket message, a timer, a
request) or one microtask (the continuation of a settled promise). Microtasks
run before the next macrotask; the guard `Drained` of every macrotask says so.
A command is a number in the order of issue, and `info[c].after` is the command
whose promise was `dispatchTail` when it was chained, 0 for a resolved promise.

| In the code | In the model |
|---|---|
| `entries.has(id)`, `attached`, `summary.sessionId`, `generation`, `awaitingResync`, `reconnectTimer` | `present`, `attached`, `session`, `generation`, `awaitingResync`, `grace` |
| `dispatchTail`, `pending` | `tail`, `{c : st[c] = "inflight"}` |
| `leaseOwner`, `summary.claim.leaseId`, `claim.expiresAt <= now`, `leaseTimer` | `owner`, `claim`, `lapsed`, `leaseTimer` |
| `exclusiveSessionIds` | `Exclusive`, from the phases of `op` |
| `connect`, `disconnect`, `detach`, `applySnapshot`, a sequence gap | `Reconnect`, `Disconnect`, `Goodbye`/`GraceExpires`, `ApplySnapshot`, `SequenceGap` |
| `dispatch`, `claim`, `renew`, `release`, `sendRemoteInput` up to their first `await` | `BrowserCommand`, `Claim`, `Renew`, `Release`, `ReleaseRefused`, `RemoteInput` |
| the chained `run()` and `dispatchNow` | `Start` |
| `handleCommandResult`, the command timer | `CommandResult`, `CommandTimeout` |
| the code after the `await` of claim, renew, release | `Resume` |
| `withExclusiveSession` before, at and after its `await` | `OpRequest`, `OpWake`, `OpEnd` |

The bridge is external. It holds a lease of its own (`held`), answers as it
likes (`CommandResult`), may grant a claim the registry has given up
(`BridgeGrants`) and may end a lease (`BridgeLeaseEnds`); while attached and
not resyncing, the registry hears of it (`Tell`). Time is abstracted: an armed
timer may fire at any moment.

### InputLedger and ReplayJournal

`InputLedger` has one variable, `taken`, and one action: an input that was not
taken is taken. `ReplayJournal` cuts `reserve()` into its system calls
(`Reserve`, `WriteTemp`, `Rename`, `SyncDirectory`), because a crash, a power
loss, an error or another process may come between any two. `file` is what
processes see and `versions` is the set of contents a power loss may leave:
a rename adds one, the fsync of the directory leaves only the last. `ReserveFails`
is the `catch` clause that poisons the journal. `Crash` leaves the lock, and
`RemoveStaleLock` is the administrator of guide/config.md:579, who removes it
only when its owner is dead; without this assumption two journals would be open.

### RemoteControl

The connector of one dashboard process after another, one connection after
another, and one live session. `queue` is the promise chain `dispatchTail`
with the task being run at its head, `reg` tells how far the head is in the
registry, `late` that the 12 second answer was given.

| In the code | In the model |
|---|---|
| the message handler for claim, release and input | `RequestClaim`, `RequestRelease`, `RequestInput`, `RepeatInput` |
| `revoke_client` | `Revoke`, and a `forget` task in the queue |
| `fail`, `close` with `cleanup` | `Close`, and a `leave` task in the queue |
| `run()` up to its call of the registry | `SkipHead`, `StartClaim`, `StartRelease`, `StartInput` |
| the `CONTROL_TIMEOUT_MS` timer | `ControlTimeout`: answered, but the head stays |
| the promise of the registry and the `finally` of the queue | `SettleClaim`, `SettleRelease`, `SettleInput`, `SettleCleanup` with `Done` |
| `releaseClients`, the cleanup of a revocation | `StartCleanup`, `CleanedUp` |
| `startMachineOutbound` | `Connect`, only when `closed` has resolved |
| `controlError` | `ControlError` |
| the error codes of `check()`, of `transport.send`, of a command given up, of the bridge | `CheckCodes`, `SendCodes`, `LostCodes`, `BridgeCodes` |
| `inputTombstones`, `activeClientOwners` | `tombs`, `owners`: they survive a connection but not `Crash` |

Requests that the handler refuses change nothing and are not steps; the
repetition of an input may prune the tombstones. The registry is seen through
its lease (`LocalClaims` and `LeaseEnds` are everybody else) and through
promises that settle in their own time, `LiveDispatch!CommandsSettle`; the journal
through the set `reserved`, which grows once per id and survives a crash, the
promise proved of `ReplayJournal`. `taken` counts the times an input was sent
to Pi, `verdict` is what Pi made of it, which it decides at any time
(`PiDecides`), also when nobody waits for it any more, and `told` are the answers
to requests that were queued. An input's promise is resolved when the bridge answers
`ok: true`, and that a bridge answers so when Pi has accepted the input, and `ok: false`
when Pi has refused it, is assumed. Otherwise the promise is rejected with an error code, which
`ControlError` turns into the answer without knowing the verdict; `Rejections` says which
codes are possible before the input was sent and after. An answer that is sent may
still be lost: the hub then repeats, which it may always do.

### SessionMirror and LiveStream

`SessionMirror` has the log of each session and a copy, which may be lost and
built again but is always a stretch of one log. `LiveStream` is one Pi process
with its connections, one after another or two at once.

| In the code | In the model |
|---|---|
| `ConnectionState.socket` | `sock`: open, ended by us, destroyed, closed |
| `processInstanceId`, `closedIntentionally`, `messageTail` | `bound`, `intent`, `line` (the head is handled at any later time) |
| `Entry`: transport, `attached`, `awaitingResync`, `cursorStale`, cursor, `entries`, `pendingUi`, `reconnectTimer` | `entry`, a record, or `Nil` |
| `handleLine` with `connect`, `applySnapshot`, `applyEvent`, `detach` | `Hello`, `Snapshot`, `Event`, `Goodbye` |
| a handler that throws, `reject` | `Refuse`, `Reject` |
| the socket's close event, `checkHeartbeats`, the grace timer | `CloseEvent`, `Watchdog`, `GraceEnds` |
| `sendResync`, `retryResync` | `Ask`, `RetryResync` |
| `stop`, or a crash of the dashboard | `Restart` |

Only the handlers of hello and snapshot await something; every other line that
was read is handled before the next event of the event loop (`Settled`,
`Awaits`). The bridge is external: `Connect`, `Publish`, `OpenDialog`,
`CloseDialog`, `AnswerResync`, `SwitchInPlace`, `Rebuild`, `Exit`, `Drop`. It
may drop an event and it numbers from revision 1, sequence 0 when it is built
anew, as the comments of the registry say. A transcript entry is a pair of its
session and its position, so that mixing, loss and order can be seen; an event that
only updates an entry is not distinguished from one that adds none.

`Spec` is the code. `HeardSpec` leaves one kind of step out, `Unheard`: a line of
the entry's own connection that is refused when its socket is gone already.
`reject` then does nothing, and the mirror is none any more: `stream_merge` shows
the code doing it, and what holds without it is checked and proved under `HeardSpec`.

### BrowserMirror

The registry is reduced to what it shows (`reg`, `shown`), the routes to the
frames and answers they send, the browser to the row, the detail and the
pending detach of one session. `Receive` is `applyFrame` with all reducers,
`ReceiveList` and `ReceiveDetail` the two answers, `Effect` the hook that fetches the
detail when a gap was seen, `GraceEnds` the flush of detached rows. A frame is
of type `attached`, `snapshot`, `event`, `summary` (claim changed,
reconnecting), `detached` (a reason that may be transient), `ended`
(`session_shutdown`), or the `list` that greets a WebSocket. `Restart` is the bridge that
numbers from the start again.

### RpcSlot, SdkSlot and ChatSlot

| In the code | In the model |
|---|---|
| a child process, its signals, stdin, turn, lines after its exit | `life[n]` |
| `proc`, `_readyPromise`, `running`, `_stopping`, `_outstandingPrompts`, whether the manager lists the slot | `slot` |
| the timers of `kill`, `abort` and `gracefulShutdown` | `timer.kill`, `timer.stop`, `timer.shut` |
| `prompt` cut at its awaits | `Prompt`, `Decide`, `Asked`, `Send`; `Reload` for /reload |
| `start`, `ensureRunning`, `kill`, `deleteSlot`, the change of cwd | `Start`, `EnsureRunning`, `Kill`, `Delete`, `SetCwd` |
| events of the child, `exit` | `AgentStart`, `AgentEnd`, `PromptFails`, `Exit` |
| `_init` of the SDK session, cut at its awaits | `Created`, `Bound`, `InitFails` |
| `prompt`, `triggerAutoTurn` of the SDK session | `Call`, `Continue`, `Returns` |
| `_toolCallGate`, `armToolApproval`, `respondToolApproval`, the switch | `ToolCall`, `ApprovalTimer`, `Answer`, `Toggle` |
| `recreateSlotWithTransport`, conductor-detach | `ToRpc`, `ToSdk` |

`Micro` and `Due` say that continuations of settled promises run before the
next event. `CheckHealth` visits the slots the manager lists; a slot that was
deleted is not among them. The slot object of the old transport goes on after a change: its
process shuts down, its start may still succeed, its timers fire.

### SidebarStores

The three stores differ in their contents and operations and, at one point, in
their write queue; a behaviour is that of one of them (`kind`).

| In the code | In the model |
|---|---|
| `order` and `sectionOrder`, `groups`, `meta` | `mem` |
| `loaded` and the two halves of `start()` around `readFile` | `load`, `got`; `Read`, `Loaded`, `LoadFails` |
| an operation up to its `await this.persist()` | `Replace`, `AddMember`, `Update`, ... with `Call` |
| `writeQueue`, rejected | the pending `calls`, `broken` |
| the write with its rename, and the answer | `Write`, `WriteFails` |
| the `catch` clause of `update` (meta.ts:146) | `Undone` |
| the JSON file | `file`, with the number of the call that wrote it |
| the end of the process, a crash included | `Restart` |

`start()` marks the store as loaded before it reads, so that a call is possible
at any time; only the first half of a call is cut from its write. `ShownIsSaved` holds
unless the history `astray` says that something came which the stores do not repair: a
call before the load, a file that cannot be loaded, or a failed write of those
that `Unrepaired` names (section 6 has what they lead to). An update that fails while
another one of the same session is pending is not among them. The stores
share nothing: `followSessionSwitch` of the routes calls their `rekey` side by side.

## 3. Runs

All runs finish; deadlock checking is off only where the bounds on commands
and connections make a behaviour end.

| Run | Configuration | Instance | What it shows |
|---|---|---|---|
| `dispatch` | `LiveDispatch.cfg` | 2 sessions, 2 clients, 1 operation, 4 commands, 2 connections, 1 switch | `ExclusiveFence`, `InOrder`, `RemoteInputFenced`, `ClaimHasOwner`, `DetachedIsClean`, `ClaimNotDisplaced` |
| `dispatch_live` | `LiveDispatchLive.cfg` | 1 session, 1 client, 1 operation, 3 commands, 2 connections | `CommandsSettle`, `ExclusiveStarts`, `LeaseEnds` |
| `journal` | `ReplayJournal.cfg` | 2 processes, 3 ids, room for 2 | `AcceptedIsDurable`, `NeverFoundChanged`, `ReservesOnce` |
| `remote` | `RemoteControl.cfg` | 1 device, 2 request ids, 2 in flight, 2 connections, a queue of 2 | `EndedHoldsNothing`, `RevokedHoldsNothing`, `TruthfulAnswers`, `Accounting`, `AtMostOnce`, `RevocationCompletes`, `CloseEnds` |
| `stream` | `LiveStream.cfg` | `FairSpec`: 2 sessions, 1 dialog, 2 connections of 2 lines, 2 events, a window of 2 entries, 1 fault | `MirrorsOneSession`, `UpToDate`, `Heals`, `GraceIsForClosed`, `DialogsOfSession` |
| `stream_merge` | `LiveStreamMerge.cfg` | `Spec`: 2 sessions, 1 connection of 3 lines, 1 event, 1 fault | a violation of `NeverMerged`, see section 6 |
| `stream_ghost` | `LiveStreamGhost.cfg` | 1 session, 1 connection, no fault | a violation of `LostIsDetached`, see section 6 |
| `browser` | `BrowserMirror.cfg` | 1 session, 3 events, 2 changes of the registry, 1 rebuilt bridge, 1 fault, 3 frames on their way | `MirrorsOneSession`, `GapHeals`, `GraceIsForGone` |
| `browser_switch` | `BrowserMirrorSwitch.cfg` | 2 sessions, 2 events, no fault | a violation of `NeverMerged`, see section 6 |
| `slot` | `ChatSlot.cfg` | 1 prompt and 1 call, 1 tool call, 2 processes or sessions, 1 kill timer | `OneOwner`, `PromptReturns`, `StopEnds`, `GateFailsClosed`, `NoneStranded` |
| `slot_kill` | `ChatSlotKill.cfg` | a small instance of the same | a violation of `ForceKills`, see section 6 |
| `sidebar` | `SidebarStores.cfg` | each store with 2 sessions, 2 groups, 3 calls, 2 faults | `AnswersAreTrue`, `ShownIsSaved` |

Why the bounds are enough. *Dispatch*: four commands are the resync of the first snapshot, a
claim, a command in flight and an input that waits behind it while the bridge
reconnects, the session is switched, the lease lapses or an exclusive operation is
asked for; or commands of another client in the place of the last two. The
second connection is the reconnect that resets the chain, and one switch separates the
generations; longer chains are left to the theorems. The
exclusive operation of interest waits for one tail. `LiveDispatch.cfg` compares
states by `View`, which forgets of each command only what no later step reads and no
property can turn on any more; the comment of `MCLiveDispatch` says why that is sound.
The liveness properties are checked without it, with three commands. *Journal*: with two
processes a lock can be stolen, with three ids and room for two the journal is
full; power loss is unbounded. *Remote control*: the device and a browser of the dashboard
compete for the lease, a queue of two holds a pending claim with another request or
a cleanup behind it, and two request ids are an input that is repeated and the one
beside it. The second connection follows a close or a crash; that several
devices do not disturb each other is left to the theorems.
The limit of 16 requests is 2 here, and it is reached.
*Event stream*: two connections are a socket and its successor, two sessions a
switch, and two events with a window of two a gap and the entry after it. With
three lines on a connection, a snapshot and two lines behind it, a refusal can
do the harm that `stream_merge` shows. The fault is a lost resync, a refused line, a dropped
socket, a heartbeat timeout or a restart; the theorems hold for any number of faults.
*Browser*: three events are one before, one in and one after a gap; the fault
loses the WebSocket or a fetch. After `Restart` the refinement claims nothing,
which is the subject of `browser_switch`.
*Slots*: two processes are the old and the new one, or one of each transport.
One prompt suffices for `PromptReturns`; two at once are a hazard that no
property covers. *Sidebar stores*: three calls are one whose write is under way and
two behind it, or one before, in and after a restart; two faults are a failed write and a
restart, or two failed writes. What the bounds cannot show the theorems of section 5 show
for every bound.

Every property of a passing run has a mutant in `PROJECT.json`, a plausible bug
of the code after which TLC finds the property violated.

## 4. Fairness

- `LiveDispatch!Fairness`: microtasks run, armed timers (command, lease, grace)
  fire, the close event of a dead socket is delivered, and an exclusive operation
  ends (each is a sequence of calls with timeouts). Nothing is assumed of
  the bridge or of the clients.
- `LiveStream!FairSpec`: lines that were received are handled, close events are
  delivered, the grace timer and the sweep of `retryResync` run, no line is refused
  unheard (`HeardSpec`), and a live
  bridge answers a resync that it hears of. Without that last assumption,
  which is the bridge's part of the protocol, no registry could heal.
- `BrowserMirror!FairSpec`: the browser handles what arrives, the dashboard
  answers requests, timers fire and the WebSocket is reconnected
  (`scheduleReconnect`). Faults and changes are bounded but not fair.
- `ChatSlot!FairSpec`: timers fire, continuations run, the question for the
  child's state is answered or times out, and `_init` ends in some way.
  Nothing is assumed of the child: it may hang, speak or not, and ignore signals.
  The health check runs, but for listed slots only.
- `RemoteControl!FairSpec`: weak fairness of `HeadStep`, the continuations of
  promises. That a promise of the registry settles is `CommandsSettle` of the
  registry, whose commands time out after 30 seconds. `ControlTimeout` needs no
  fairness, nor do requests, revocations or closes.

## 5. Proofs

TLAPS checks every theorem for all values of the constants: any finite or
infinite set of clients, sessions, requests and processes, and any bounds. The
assumptions are those named in the modules: bounds are natural numbers, and
`Nil`, `Local`, `Nobody` and `Missing` differ from the members of the sets
they stand beside (`NilIsNoShape` among them); in `LiveStream` and
`BrowserMirror` the first session, 1, is a session (`FirstSession`; in `LiveStream`
sessions are numbers), and a
bridge has finitely many dialogs (`FiniteDialogs`), which it sends one by one;
`Nil` is no dialog and no record of one (`NilIsNoDialog`).

**LiveDispatchProofs.** None of the invariants is inductive alone. `TypeInv` adds to
`TypeOK` that the generation counts reconnects and switches, which bounds it.
`ChainInv` describes the promise chain: the commands of the current connection
end in `tail`, and each waits for one at least as late as every earlier command of its
connection. From it follow

- `ChainInOrder`: commands of one connection start in order (`InOrder`). A
  command starts when the one it waits for has settled, and that one started
  after everything before it;
- `GenerationsPin` and `RemoteInputsFenced`: `GenInv` says that what was
  accepted in this generation was accepted on this connection and for this
  session, so the comparison of generations in `run()` is enough to keep a
  remote input from another session (`RemoteInputFenced`);
- `ExclusiveOperationsFenced`: `OpInv` says that while an operation waits or
  runs, every command of its session on its connection or a later one is at or
  before the tail the operation captured. When the operation runs, that tail
  and so everything before it has settled (`ExclusiveFence`);
- `ClaimsHaveOwners` (`LeaseInv`) and `DetachedStaysClean` (`DetachInv`, with
  the fact that the closed transport of a detached entry sends nothing);
- `ClaimsAreNotDisplaced`: `GrantInv` says that the dashboard shows only claims
  the bridge granted, that the bridge grants each once, and that while the
  result of a granted claim waits to be resumed the bridge does not hold another
  claim that is shown. So no step overwrites a claim the bridge still honours.

**ReplayJournalProofs.** The invariant `Inv` joins the lock (`LockHeld`: at most
one process is up), the memory (`MemoryMatches`: a process that may still
reserve remembers what the file holds), `TargetIsNew` and `AcceptedIsDurable` (what was
accepted is in every content a power loss may leave). It gives `JournalTypes`,
`AcceptedSurvives`, `JournalUntouched` and the refinement `JournalIsLedger`: each
step of the journal is a step of `InputLedger` or a stutter.

**RemoteControlProofs.** `BaseInv` says what the queue looks like (a cleanup of
the connection is last; an ended connection has nothing queued) and that
`inFlight` is the number of requests queued. `InputInv` follows an input: it is
queued at most once, it is unsent and unanswered until it is the head of the
queue, and its tombstone is pending exactly while it is queued. For the answers it
takes a fact about `controlError` (`ControlAnswers`): the codes of a command given up
and of a failed send are indeterminate, and only those of `check()`, before the
input is sent, and of a bridge that refused it become a definite refusal. So an
input that was answered with one is either never sent or was refused by Pi (`Harmless`), and Pi's
verdict, which may come after the answer, cannot contradict it. This gives
`AnswersAreTruthful`, `RequestsAccounted` and the refinement `ControlIsLedger`.
`LeaseInv` follows a device: whoever has the lease, or has a claim pending, is
in `clients`, whose members are those the cleanup releases, and a revoked member has its
cleanup queued. This gives `NothingOutlivesConnection` and
`NothingOutlivesRevocation`; `ControlTypes` is type correctness.

**ChatSlotProofs.** `Inv` joins `RpcInv` (types, `OneOwner`, and that no process
is current that was not born) and `SdkInv` (types, `GateFailsClosed`,
`NoneStranded`). Most steps change the processes through `Start`, `Kill` and
`Signal`, whose lemmas (`Starts`, `Kills`, `KeepsProcess`) say what they do to
the process that is given up: it was signalled, or its input was ended, in the
same step in which `proc` leaves it. None of this says that it has ended. This gives `TypeCorrect`, `OneProcess`,
`FailsClosed` and `Decidable`, for any number of prompts, processes and tools.

**LiveStreamProofs.** `Inv` joins the types, `Known` (connections are numbered in
the order they are made, and neither a waiting line nor the entry knows a later
one than the bridge) and `GraceIsForClosed`. The step that matters is the hello
that takes over an entry: it stops the timer of the connection it replaces, and
the close event of that one, which may still come, is told from that of the new
one. This gives `StreamTypes` and `GraceSparesTheLiving`.

**StreamMirrorProofs.** The lines of a connection are a thread: each event has
the next number of the line before it, or a higher one when an event was dropped,
and belongs to its session and revision; each snapshot is of another session or
a higher revision; the bridge's counters follow the last line (`Woven` and
`Tied`, by `Follows` and `Reaches`). A mirror that is reading stands where the
rest of the thread of its connection begins (`Aligned`): so the next number means the next entry, and
a mirror that has come to the bridge's number has seen everything, or has seen a
gap. This is the reason for

- `GapsAreNoticed` (`UpToDate`), which holds under `Spec`: an unheard refusal may take
  a line from between the mirror and the rest of its thread, but only on a socket that is
  gone, and the property speaks of a linked bridge. The invariant asks for `Aligned` only
  while the connection lives (`LiveAligned`);
- `SessionsStayApart` (`NeverMerged`), `EntryImplementsTheMirror` (the refinement
  of `SessionMirror`) and `DialogsFollowTheSession` (`DialogsOfSession`) under
  `HeardSpec`, where `Aligned` holds on dead connections too: what an
  entry shows ends in the position of its cursor, and an event that is in
  sequence is of its session and the entry after it. `Asking` and `Truths` follow a dialog:
  whoever is unanswered belongs to the session of the bridge, and a line about
  it to the session that it is a line of.

The condition cannot be dropped: with one unheard refusal `NeverMerged` is
false (`stream_merge`).

**BrowserMirrorProofs.** `Inv` joins the types, `Numbered`, `Graceful` and `Written`.
`Numbered` says that before any `Restart` a datum on its way, in a frame or in an answer,
carries the length of the transcript when it was sent, which is at most that
of the log, and that the page holds exactly as many entries as its sequence
number. So a snapshot or an answer is a prefix of the log, and an event is
appended only where it belongs: `PageIsMirror`, the refinement of `SessionMirror`.
`Graceful` says that a `detached` frame on its way for a session that is back
has a frame behind it that cancels the grace: `NoFlushOfTheLiving`.
`Written` needs no numbering and holds over every `Restart`: what the registry shows is the whole
log of its session, logs only grow, and so every datum on its way, however old,
speaks of entries that were written: `NothingIsInvented`, which
no run repeats, and with the bound on the logs `PageIsTyped`. That an entry is shown once is not among them (section 6).

**SidebarStoresProofs.** `Inv` joins `Queue` (writes are pending in the order of
their calls, up to the last), `Saved` (`AnswersAreTrue`, and that the file is
that of a call which was made), `Maps` (the contents of meta.ts are maps) and
`InStep`: while nothing went astray, the memory is the content of the last pending
call, or else of the file, and taking back an update gives what the call
before it left, unless that one failed meanwhile (`shaken`). A failed update whose entry a
later call has changed is not taken back, so the memory stays that of the last
pending call. This gives `StoresAnswerTruly` and `StoresShowSaved`.

Only model-checked are the liveness properties (they need `ENABLED`, which the
prover does not handle). Every safety property of a passing run is a theorem.
No definition of the modules is recursive.

## 6. Where documents and code disagree

- *Sessions merged in the browser* (`browser_switch`). The design
  (docs/live-pi-session-takeover-tech-design.md:755) forbids to merge the events of
  two sessions. A bridge that is built for the next session numbers from
  revision 1, sequence 0; the registry allows for it (registry.ts:227), the
  browser's reducer compares numbers only (liveSessionsSlice.ts:271). So the
  snapshot of the new session may be dropped as old, and an event of the new
  session be appended to the transcript of the old one.
- *Sessions merged in the registry* (`stream_merge`). The same sentence of the
  design. When a line is refused and its socket is gone, `reject` returns at once
  (broker.ts:374): the entry stays, and so do the lines behind the refused one. If
  that one was the snapshot of the next session, its first event has the number
  that follows and is appended to the transcript of the session before
  (registry.ts:296). The snapshot of the old session that came before it, applied after the close
  event, is what made the entry read on. The grace timer detaches the entry 15
  seconds later, if the process does not come back.
- *Sessions without a process* (`stream_ghost`). Section 15.3 of the design
  (:751) says that the end of Pi is found by the close of its socket and detaches
  the session. A hello whose path is authorised after its socket closed makes an
  entry that no close event follows (broker.ts:301); its snapshot attaches it, no
  timer runs, and the session stays in the list, dead, until the dashboard ends.
- *Killing by force* (`slot_kill`). The comments of pi-manager.ts:675 and :752
  speak of a kill by force. The timer of `kill()` (:777) sends SIGKILL only to a
  process whose `killed` is false, and SIGTERM has set it. A process that
  ignores SIGTERM runs on; if the slot has a new process by then, that one is
  killed. For the user the stop ends (`StopEnds`): the health check resets the slot,
  unless it was deleted first. A deleted slot whose Pi ignores SIGTERM stays `stopping` for
  ever, but nobody sees it.

Behaviour of the modelled code that no run reports, worth knowing:

- Commands of one entry are not always serialized, as the test plan of the design
  (docs/live-pi-session-takeover-tech-design.md:838) has it: `connect` (registry.ts:200)
  resets `dispatchTail` for a bridge that reconnects, while commands of the old
  chain are still queued. The reconnect rejects the one in flight, the next of the
  old chain starts on the new transport, and a command of the new chain starts beside
  it. Order within a chain is kept (`InOrder`), and remote inputs and exclusive
  operations are safe, the first because the generation is compared again, the
  second as far as `ExclusiveFence` says.
- guide/config.md:579 says that a repeated input id is always treated as
  indeterminate. The handler checks the number of requests in flight, the owner and
  the lease before it looks for the id (machine-connector.ts:297-303), so a repetition
  may be answered `offline` or `lease_invalid` while the first
  sending is queued or done. The input is still sent at most once (`AtMostOnce`).
- `applySnapshot` on a connection whose socket has just closed clears
  `awaitingResync`, and the grace timer then detaches an entry that looks alive.
- A dialog whose closing event falls into a gap stays in `pendingUi`; one opened while
  the bridge was disconnected is not replayed to an entry that was attached.
- A list that was answered while a session was detached removes its row when it
  arrives after the session is back; a detail answered before
  `session_shutdown` brings a dead row back.
- After `Restart`, a fetch that is answered in the new numbering may overtake frames
  of the old one. An event of the old numbering that has the next number is then
  appended a second time: the page shows an entry twice, until the next snapshot.
  `appendEvent` (liveSessionsSlice.ts:173) keeps that only from a completed message
  among the last three entries.
- A resync fetch that fails is not repeated before the details change again.
- `_outstandingPrompts` survives the exit of its process, so the next prompt is
  sent as a follow-up; two prompts that wait for one ready promise are both
  sent as fresh ones.
- A start of the SDK session that is under way survives `kill`, deletion and a
  change of transport; a prompt of a disposed session that fails late disposes
  the session that the slot has by then. So two of them may work in one slot, which the
  comment at routes/chat.ts:103 excludes. `OneOwner` does not speak of it: it says that
  a child process given up was told to end, not that it has ended.
- A request for a sidebar store that comes while its file is read works on an
  empty store: its write replaces the file, and the load then replaces the memory. A
  file that cannot be read leaves an empty store, which the next change saves.
- After one failed write order.ts and groups.ts save nothing more until the
  dashboard is started again (meta.ts:191 avoids this; order.ts:19 claims the
  same guarantees), and go on showing what was refused: the page that
  "simply refetches" (useLiveSessionOrder.ts:9) gets the refused order back.
- Two updates of one session's metadata that are under way together and both fail leave
  the first of them in memory; a failed one followed by a successful one of the same or
  another session is saved with it, and in the second case no longer shown.
- A session that a Pi switches to keeps the groups it is in and gets those of the session
  before it, so it may be in two groups, which `addMember` never allows.

## 7. Not modelled, and the plan

Not modelled at all: restart,
close, discard and fork of live sessions beyond the exclusive operation, the
broker's lock file, launcher, session tree and goals (process I/O and
parsing), authentication, session store and settings, extension bridge,
supervisor, ledgers, services and jobs, the Lark channel, plugins, and the
front ends beside the live-session store.

Left out of the modelled parts: goals and the folding of message updates into one
entry (registry); tokens, parsing and size limits (broker); the handshake and
frame validation of the connector; file permissions and links in the journal
(an unsafe file is an error that may come at any call); notifications, owned
leases and authentication of the browser; of chat slots the extension dialogs,
slash commands other than /reload, streaming, history, titles and the idle
reaper after 30 hours; a slot changes its transport at most once in each direction.

What would come next, in this order:

1. `SessionRestart` and `SessionDiscard` over the registry's exclusive
   operations; `BrokerLock`.
2. Extension dialogs of both transports, the extension bridge's calls, the Lark
   dialogs.
3. The registry, the routes' `followSessionSwitch` and the three sidebar stores
   in one module, to follow a row over switches and restarts.
4. Two prompts of a chat slot at once, and what a second one may break.
