# A TLA+ verification of AgentStart's daemon and its clients

AgentStart is a local daemon (Rust, `src/apps/daemon`) that runs coding agents in
terminals, with clients in several shells (browser extension, menu bar, mobile,
web, command line). This directory models three parts of it in which actors that
know nothing of each other change shared state:

* the *orchestration authority*, through which a coordinator agent owns a Run, hands
  Tasks to worker agents and exchanges mail with them;
* the *runtime protocol*, on which client and daemon call each other over one
  connection with flow control, cancellation and streams;
* the *workspace session*, one document that clients edit without asking each other
  and that the daemon keeps, changes and stores.

## 1. Inventory

### 1.1 The parts of the system

| Part | State | Operations | What is hard about it | Correct when |
|---|---|---|---|---|
| **Run mailbox and coordinator binding** (`orchestration/authority.rs`, `records.rs`, `mod.rs`) | tables `runs`, `messages`, `deliveries`; a revision watch channel | run-create, run-use, check (`--wait --ack --peek --all --type`), send, reply, reset | a check is several closures with a takeover possibly between them; waiting and waking; re-delivery | one consumer per batch, nothing lost, nothing settled that was not handed out, waiters are woken |
| **Tasks, Dispatches, workers, gates, questions** (`authority.rs`, `authority/workers.rs`) | `tasks`, `dispatch_contexts`, `worker_dispatches`, `decision_gates`, `question_threads` | task-create/-update, dispatch, worker-start/-show/-stop/-abandon, worker_done, ask, reply, gate-create/-resolve, reset | worker-start takes seconds and spans many closures; decisions on stale reads; daemon restarts | a dispatched Task can be settled, a revoked Dispatch is powerless, dependants become ready, asks end |
| Direct, dispatch and group mailboxes (`authority.rs`) | `messages` | send, check | a group send is several transactions | each member gets each message once |
| Mutation receipts (`rpc/orchestration.rs`, `authority.rs`) | `mutation_receipts` | begin, complete, discard | crash or cancellation between the command and its receipt | a retry never repeats a command |
| Federated workers (`authority/workers.rs`) | federated attachments, outbox, inbox | pull, ack, import, relay | duplicated and reordered events, restart of either side | every event applied once, in order |
| **Protocol calls, daemon** (`rpc/protocol_calls.rs`, `protocol_session.rs`, `protocol_connection.rs`, `protocol_reverse.rs`, `reverse_protocol.rs`) | calls in flight, their credit, held payloads and unread input; calls made of the client, retired ones | start, payload, end, cancel, credit, handler outcomes, deadlines; the same for reverse calls | a call is over on one side and not on the other; deadlines cross answers; buffers at their limit | an answer or an error, once; both sides agree on what a call is and what credit is left |
| **Runtime peer of the clients** (`packages/protocol/typescript/src`) | pending calls, byte budgets, the sender's queue, duplex requests, ids of cancelled calls, incoming calls | unary, subscribe, duplex, read, return, cancel, send, end; serve reverse calls | cancellation of what is queued, full queues, late frames, waiting sends | budgets are exact, a complete stream was read whole, nobody waits for ever |
| Dangerous action approval (`dangerous_approval/`) | challenges, grants | request, approve, consume, expire | two consumers of one grant; expiry | a grant is used once, for what was approved |
| Terminal multiplexing (`rpc/terminal/multiplex.rs`, `terminal_session/multiplex_admission.rs`) | tickets, stream slots | admit, attach, release | slots at their limit, takeover | slots are bounded and returned |
| Workspace journal (`persistence/workspace_journal/`) | event log, broadcast | append, snapshot, replay, subscribe | a broadcast that lags behind the replay | a subscriber sees every event once |
| Client events, latest snapshots | bounded queues | publish, take | full queues | the latest state arrives |
| **Workspace sessions** (`workspace_session/`) | the document, its version, its file | set with an expected version, get, watch, PTY bindings, prune, persist, restart | writes without a flush, a crash between memory and file | an acknowledged save is durable, versions name one document |
| **Session document client** (`packages/client/src/runtime/session-document`, `application-shell/session-write-subscriber.ts`) | document at hand, pending edit with its base, queue of drains, what was typed | type, flush, drain (three attempts), confirm, watch, background read | merges against a moving base; a snapshot prepared while a save is under way; failed calls | no edit is lost or forgotten, a client at rest shows the daemon's document |
| Artifact store, transport and encryption, updates, hosts, worktrees, terminals | files, sockets, processes | I/O | the operating system | - |
| Clients and shells (`packages/`, `apps/extension`, `apps/mobile`, `apps/web`, `apps/macos`) | view state | issue commands | - | - |

`PROJECT.json` lists each of them with its sources and what is left out, and
under `hazards` the places where this code is hard to test.

### 1.2 How they interact

Every table of the authority lives in one SQLite connection owned by one thread
(`mod.rs`). A handler is an async function that posts closures to this thread and
awaits each. So:

* one closure is atomic, and it is **one step** of the models;
* two closures of one handler are not atomic: what the first read is kept in the
  handler and may be stale in the second. The models keep it in `calls[c]`, with a
  program counter `pc`; several requests are served at the same time (`Call`);
* after its commit a handler calls `notify()`, which changes a watch channel that
  waiting checks and asks subscribe to. It is a step of its own (`pc = "notify"`);
* a client that disconnects, or a deadline, drops a handler at an await
  (`protocol_call.rs`): action `Drop`. A closure that was queued before the drop
  still runs; that is the same behaviour as the drop coming after it;
* a restart of the daemon drops every handler and keeps the tables (`Restart`).

Terminals belong to another authority. The models know of a terminal whether it is
live and, in `TaskDispatch`, in which run of the daemon its process was started
(`process_incarnation`); it may exit at any moment (`TerminalExit`, external).

Client and daemon exchange frames over one WebSocket: a FIFO in each direction. The
client's event loop runs each callback to its end, so one callback is one step; its
sender transmits a queue of batches one frame at a time. The daemon's session is one
task that takes a frame, a handler's outcome, a control message or a timer at a
time: each is one step. Handlers, and the daemon's own callers of a client, are other
tasks; what they hand over arrives later.

The session document travels over these calls: `set` and `get` are unary calls, the
watch a stream. `SessionDocument` takes them as requests and answers that may be
lost, and does not repeat the frames.

## 2. Modules

| Module | What it is |
|---|---|
| `RunMailbox` | Runs, coordinators, generations, mail, deliveries, check |
| `RunLease` | abstract specification of a Run's mailbox: queue, one leased batch, settled mail |
| `RunMailboxProofs` | theorems about `RunMailbox`: types, bindings, deliveries, order of mail, wakeups, and that it implements `RunLease` |
| `MCRunMailbox` | small instances of `RunMailbox` for TLC |
| `TaskDispatch` | Tasks, Dispatches, workers, gates, questions, restarts |
| `TaskDispatchProofs` | theorems about `TaskDispatch`: types, Dispatches and their reports |
| `TaskWorkerProofs` | theorems about `TaskDispatch`: workers, questions, waiting Tasks and asks |
| `MCTaskDispatch` | small instances of `TaskDispatch` for TLC |
| `FrameLink` | the connection: the client's send queue, sequence numbers, frames under way |
| `PeerCalls` | the calls a client makes of the daemon, on both sides |
| `ReverseCalls` | the calls the daemon makes of a client, on both sides |
| `RuntimePeer` | their composition over one `FrameLink`, with the connection's end |
| `PeerFrames` | the types of what is under way on a connection, for the proofs |
| `PeerCallsProofs` | theorems about the calls of `PeerCalls` within `RuntimePeer` |
| `PeerCreditProofs` | their flow control, and the late frames of calls that are over |
| `ReverseBooksProofs` | lemmas about one reverse call: its frames, its records, what each operation does to them |
| `ReverseCallsProofs` | theorems about the calls of `ReverseCalls` within `RuntimePeer` |
| `MCRuntimePeer` | small instances of `RuntimePeer` for TLC |
| `SessionAuthority` | the daemon's session document, its file, and the merge of one edit |
| `SessionDocument` | the clients of that document, composed with `SessionAuthority` |
| `SessionDocumentProofs` | theorems about `SessionDocument` |
| `MCSessionDocument`, `MCEditsKept` | small instances of `SessionDocument` for TLC |

`PROJECT.json` maps every definition to its source lines. Definitions whose comment
begins with *Broken* or *Mutant* are mutants: plausible bugs that no specification uses and that
show that a property can fail.

### 2.1 `RunMailbox`

`runs`, `coord` and `gen` are the columns of table `runs`; `msgs` and `deliv` the
other two tables; `live` the terminals that `TerminalSessionAuthority::show` answers
for. `drawn` remembers ids that were drawn, since random ids do not come back.

* `RunCreate` is one transaction: it unbinds and fences every Run of the caller's
  pane and inserts the new one. `RunUse` is the read and the in-use test,
  `RunUseBind` the transaction after it.
* `CheckMessages` resolves the mailbox and the generation; `Subscribe` is the
  subscription to the revision; the transaction of `check_run_mailbox` is
  `CheckFenced`, `CheckLook`, `CheckReplay`, `CheckDeliver` or `CheckEmpty`, each
  with the `--ack` part in it; `WaitWoken` and `WaitTimeout` end a wait. The page
  limit and the filter on the Run are applied in the code's order
  (`OfRun(Oldest(...))`).
* `SendMessage` is a send to `run:<to>` under Run `r`, which may be another one;
  `Reply` a reply to mail that is not a question; `Reset` the three scopes.

Abstractions: a message is a type, an address and a Run; why a message is read is
kept with it (`acked`, `replied`, `suppressed`); `types` and `by` of a delivery are
history. Sequence numbers start again when a reset has deleted every message,
which keeps their order and nothing else.

### 2.2 `TaskDispatch`

One Run, whose coordinator is bound. `task`, `disp`, `worker`, `gate` and `quest`
are tables; Dispatches are numbered by rowid. The handlers that span closures:

* dispatch: `DispatchTask` (reads the Task) - `DispatchStore` or `DispatchRefused` -
  `InjectAccepted` or `InjectFailed`;
* worker-start: `WorkerStart` (reads) - `CreateStartingWorker` or `StartRefused` -
  `StartTerminal` - `StartDispatch` - `StartSent` - `StartReady`, and `StartFailed`
  from each stage before the last;
* worker-stop: `WorkerStop` (reads) - `StopMark` - `StopClose`, `StopDone`, or
  `StopUnknown`; worker-show: `WorkerShow` (reads) - `SetWorkerUnknown`;
* worker_done: `SendWorkerDone` (verifies on a read) - `Reconcile` or
  `ReconcileNothing`;
* ask: `Ask` (reads) - `AskStore` - `AskNotify` - `AskRead` - `AskWoken` or
  `AskTimeout`, with one deadline for the whole (`Deadline`).

The transactions overwrite rows unconditionally where the code's UPDATE has no
condition (`StartDispatch`, `Fail`, `WorkerSet`). Abstractions: the capability is
a Boolean, and a sender that uses one has the right one; each terminal is alone in
its pane; the mail that the commands also store is `RunMailbox`'s subject.

### 2.3 `FrameLink`, `PeerCalls`, `ReverseCalls`, `RuntimePeer`

`outbox` is the chain of batches in `ProtocolSender`. A batch gets its sequence
numbers when it is queued and is dropped when its AbortSignal (`aborted`) fires
before it is transmitted. The daemon tests of a number only that it follows the last
one, so a frame carries a Boolean `gap` instead of its number. Every payload counts
one byte: what matters is how many there are against the credit, and their order,
for which payloads are numbered.

* `PeerCalls`, client: `client` is `PendingCalls` with the streams' buffers,
  `requestBytes` and `responseBytes` the budgets, `duplex` is `DuplexRequests`, `ring`
  is `LocallyCancelledCalls`. Callers: `Start` or `StartRefused`, `Read`, `Return`,
  `Cancel`, `DuplexSend`, `DuplexFlush`, `DuplexFlushFails`, `DuplexEnd`. A send of a duplex
  call that has credit can still fail, on a full queue, the frame size or the bytes queued.
  Its failure settles the chain of sends first and cancels the call a few microtasks later;
  what waited behind it, the next send or the end, is queued in between (`Follower`).
  `lost` counts (history) the sends that were rejected. Frames: `ReceivePayload`,
  `ReceiveEnd`, `ReceiveFailure`, `ReceiveInputCredit`, and `RefuseFrame` for one that
  the client's books do not allow.
* `PeerCalls`, daemon: `daemon` is `ProtocolCalls`. Frames: `DaemonStart`,
  `DaemonPayload`, `DaemonEnd`, `DaemonCancel`, `DaemonCredit`, and `DaemonOversized`
  for a WindowUpdate that releases a payload which is too large for the client: an error ends
  the call, and the replies behind it are sent all the same (`torn`, history). Handlers and timers:
  `DaemonYield`, `DaemonComplete`, `DaemonConsume`, `DaemonFail`.
* `ReverseCalls`, daemon: `reverse` holds the maps `pending` and `retired`, the channel
  of items, and the control messages on their way from the caller to the session.
  `ReverseStart`, `ReverseReceive`, `ReverseDrop` are the caller's;
  `ReverseControlCredit`, `ReverseControlCancel`, `ReverseExpire`, `ReversePayload`,
  `ReverseEnd`, `ReverseWindow` the session's.
* `ReverseCalls`, client: `incoming` is `IncomingCalls`. Frames: `IncomingStart` to
  `IncomingCredit`; handlers and timers: `HandlerYield`, `HandlerReturn`,
  `IncomingFail`. That the byte budget of all requests is spent is a choice in
  `IncomingPayload`.
* `RuntimePeer`: both kinds of calls share the queue, the order of frames and the
  connection. `Disconnect` is a lost socket, a failed keep-alive or a GoAway;
  `RefuseGap`, `RefuseFrame` and `RefuseReverse` end the connection over a frame, the
  last also over a retired call that is not ended in time.

### 2.4 `SessionAuthority`, `SessionDocument`

`server` is the document in memory with its version (epoch and revision), `disk` its
file. `SetFlushed`, `SetUnflushed`, `Fact`, `Prune`, `Persist`, `Reload` and `Replace`
are the operations of `WorkspaceSessionAuthority`; the version test of `set` is in
`ServeSet`. `Merged` and `Conflicts` are the three-way merge by field under the three
ownership rules: `Content` conflicts, `Local` is the client's, `Remote` the daemon's.

A client types (`Type`), the store's subscriber flushes (`FlushTyped`), a drain takes
the pending edit (`DrainStart`), tries with the document at hand (`DrainFirst`) and then
twice with a fresh one (`ServeGet`, `DrainAgain`); its `set` is served (`ServeSet`,
`ServeSetUnwritten`), refused (`DrainAborted`, `DrainGivesUp`), lost (`CallFails`) or
answered (`DrainSaved`); a message offers a retry or a confirmation (`Click`). Snapshots
arrive by the watch (`WatchSend`, `WatchReceive`, `WatchApply`) and by background
reads (`Read`, `ReadApply`), both of which prepare for a while and judge again when
they apply. The history variables record what was wanted, edited, acknowledged,
deleted and lost. `write` is modelled as the store's subscriber calls it, with a patch.

## 3. What TLC checks

Passing runs:

| Run | Instance | Properties |
|---|---|---|
| `Mailbox` | 1 Run, 2 panes, 2 calls, 2 messages, 2 deliveries, 3 generations, page of 1; or 2 Runs with 1 message, 1 delivery and 2 generations each (`Small`) | `TypeOK`, `ExclusiveDelivery`, `AckedMailWasHanded`, `OneRunPerPane`, `OutstandingIsCurrent`, `ImplementsLease` |
| `MailboxLiveness` | 1 Run, 1 pane, 2 calls, 2 message types; waiting checks that consume with and without a filter, peeking ones | `NoLostWakeup`, `OldestFirst`, `MailWakesWaiter` |
| `Workers` | 1 Task, 1 terminal, 2 calls, circuit breaks at 2, and 2 Dispatches or 2 runs of the daemon; or 2 Tasks with a Dispatch; or 3 Tasks with every dependency graph (`Small`) | `TypeOK`, `DispatchedHasDispatch`, `UnknownIsHonest`, `NoForgottenTask`, `RevokedNeverReports` |
| `Questions` | 1 Task, 1 terminal, 1 Dispatch, 1 gate, 1 question, 2 answers, resets | `ClosedMeansSettled`, `NoLostAnswer`, `AskEnds` |
| `RuntimePeer` | a unary call and a stream; a duplex call; two unary reverse calls, one at a time; a reverse stream; a unary call of each side | `PeerTypeOK`, `CreditConserved`, `CompleteMeansAll`, `BudgetsExact`, `InputEndMeansAll`, `LateFramesTolerated`, `SendsSettle`, `ReverseTypeOK`, `ReverseAgreed`, `RetiredIsAnswered`, `ReverseCompleteMeansAll`, `ReverseCreditConserved` |
| `SessionDocument` | 1 client, a field of each kind, 2 values, and 4 events: up to 2 edits, a write or deletion of the daemon, a read and a fault (lost call, failed write, restart, replaced profile); with 4 events no fault, or one field (`Small`) | `TypeOK`, `SavedIsDurable`, `PendingIsAttended`, `RestMeansCurrent` |

Runs in which TLC finds the program to disagree with what the repository says of it:

| Run | Property | What the trace shows |
|---|---|---|
| `WaitTimeout` | `WaitEnds` | every notification restarts the timer of `check --wait`; traffic keeps the call open for ever |
| `EmptyMailbox` | `EmptyMeansNoMail` | the page limit is applied before the filter on the Run; foreign rows hide the Run's mail |
| `OneWorker` | `OneActiveDispatch` | two dispatches that both read `ready` give one Task to two terminals |
| `ShowWorker` | `ShowUnsettlesNobody` | worker-show overwrites an abandonment that came between its read and its write |
| `CancelIsLocal` | `CancelIsLocal` | a call cancelled while its batch waits in the queue leaves a gap in the sequence numbers, over which the daemon ends the connection and every other call on it |
| `OthersKept` | `UntouchedKept` | a pending edit is given a newer base and keeps its older values; the next save writes an old value over a field its user never touched |

`findings` in `PROJECT.json` quotes the lines.

**Bounds.** Every race in this code is between two handlers that interleave at
closure boundaries, so two call slots, reused without limit, show each pair of
handlers at each pair of points. Two panes are needed for a takeover and for its
reversal; three generations for a takeover there and back; two messages and a page of
one for a batch that leaves mail behind; two deliveries for the batch after an
acknowledged or fenced one. Two Dispatches of one Task are what "the latest" needs;
a failure limit of 2 has both a failure that does and one that does not break the
circuit; three Tasks give a Task two dependencies and chains; two runs of the
daemon give a restart with a stale `runtime_epoch`. When a bound is reached the
handler that would pass it is given up (`PastMaxGen`, `CheckOutOfIds`,
`OutOfDispatches`, `AskOutOfIds`), as a dropped handler would be. Symmetry is used
in safety runs only. Where one run has alternatives, `Small` in the MC module states
them as an action constraint: what it leaves out is two Runs, or two Tasks, at their
full bounds, and for a session four events, one of them a fault, on
different fields. The `TaskDispatch`, `RuntimePeer` and `SessionDocument` runs do not check
deadlock: ids, calls or events run out and then nothing is left to ask for.

In `RuntimePeer` every queue, buffer, credit and budget is 1 or 2, so that each is
reached, exceeded where it can be, and returned; a stream yields one payload more
than its credit, so that its handler must wait. Calls that are not made were refused
at the start (`Made` in `MCRuntimePeer`). With `MaxReverse = 1` the second reverse call
starts only when both sides have forgotten the first. A unary reverse call together with
a reverse stream, and a unary call together with a reverse stream, were checked
too (0.2 and 0.9 million states).

In `SessionDocument` one client is enough for the passing properties, since a write of
the daemon to any field is what another client's save is to this one; two clients
with three events and one value pass as well (6.1 million states), and so does the run without `Small`
(6.7 million states); `OthersKept` has two clients. Two
edits give one that is pending while the other is saved.

**Fairness.** `ServedSpec` has weak fairness of each handler's own step: the tokio
runtime polls every task that is ready and the SQLite thread takes closures in
order. Requests, terminal exits and, in `RunMailbox`, timeouts have no fairness:
nobody need ask, and a caller may ask for any timeout. `TimedSpec` adds that a timer
that nothing restarts fires, and `TaskDispatch` that time passes every deadline. No
handler is dropped under `ServedSpec`; a dropped one may have committed and not
notified, and a waiter then sleeps until the next notification. `NoLostWakeup` and
`NoLostAnswer` are claims about served handlers for that reason. `NoLostWakeup` speaks of
mail that the waiter itself would return: a delivery which another check of the same
consumer creates is announced to nobody, so a filtered check sleeps beside an
outstanding delivery of mail it does not ask for.

`RuntimePeer` has weak fairness of the sender, of each side's handling of the next
frame, of a duplex handler's reads and of the deadline of held payloads: event loops go
on, and the daemon's deadlines are set for every call. Nobody has to call, read,
cancel, yield or end. `SendsSettle` needs no more. `SessionDocument` states safety
only.

**Conditions.** `DispatchedHasDispatch` and `RevokedNeverReports` suppose that nobody
calls task-update with the status `dispatched`, which the code accepts;
`NoForgottenTask` supposes that nobody sets a Task back to `pending` by task-update,
and excludes Tasks created when their dependencies were complete already, which the
code leaves pending. `ReverseAgreed` excepts one frame, which the code does send: when
the client's timer of a reverse call fires between the frames of its request, the
rest of the request addresses a call it does not know, and the connection ends.
`RetiredIsAnswered` excepts a call whose CallEnd found the client's queue full: its
retirement ends the connection ten seconds later. `RestMeansCurrent` excepts behaviours
in which a restart lost revisions that were not flushed, since their numbers are given
out again. `InputEndMeansAll` excepts the messages whose send was rejected: its caller has
been told, and the daemon may see the input closed without them, because `end` waits for a
chain that a failure settles too. `LateFramesTolerated` excepts a call that the daemon answered on
after an oversized payload (`torn`), see 3.1.

### 3.1 Two more disagreements

Two configurations are kept for properties that the code does not have either. They belong to no
listed run; both end with a counterexample.

`ErrorEndsCall.cfg` (module `RuntimePeer`, property `ErrorEndsCall`). `frame.proto:87` says "A non-OK
status terminates the entire call." A WindowUpdate releases held payloads, and the session sends
these replies in a loop (`protocol_session.rs:131-134`). When a frame exceeds the client's
limit, `send_stream_payload` (312-321) cancels the call, sends a CallEnd with an error and returns Ok, so
that the payloads behind it and the OK status of the completed call follow. The client has dropped
the call with the first CallEnd and ends the connection over the next frame.

`EditsKept.cfg` (module `MCEditsKept`, property `EditsKept`: what a user typed and no save has
confirmed is in the store or in the pending edit; deletions by the daemon are excepted, and edits that
took a field back to its base). `client.ts:69-70` says that a background read keeps the snapshot as the
conflict base "while returning the user's pending value". The trace TLC finds, up to when exactly the user types:

1. The daemon writes `g`; a read is answered with this snapshot, in which `f` is missing, and is not applied yet.
2. The user types `g`. The save is ABORTED, its second attempt conflicts, and the message keeps the edit with
   that snapshot for a confirmation.
3. The user types `g` and `f` and confirms while the drain of these edits is queued. It saves both.
4. The user types `f` again before the save is answered; the pending edit gets the save as its base.
5. The confirmed drain runs and makes the older snapshot the document at hand (`client.ts:235`).
6. The read is no longer outdated. The merge takes the missing `f` for a deletion (`merge.ts:164-169`),
   without a conflict, and the result becomes the input.
7. The user's next edit, of any field, makes a desired document without the value typed into `f`.

It takes two contested fields and five edits. `Quiet` in `MCEditsKept` confines TLC to one order in which
the fields are typed into, after the daemon's write and the answer of the read, and leaves
drains, saves, the click and the application of the read in any order; with the order of edits free the 26th state
is out of reach, and with the bounds of the `SessionDocument` run it does not exist.

## 4. What is proved

TLAPS checks the following for every value of the constants: any numbers of Runs,
panes, terminals, messages, Tasks, Dispatches, clients, fields and concurrent calls, and
any bounds, credits and limits. The assumptions are `MailboxAssumption`,
`DispatchAssumption`, `DocumentAssumption` and those of `RuntimePeer`
(`BatchesAssumption`, `PeerAssumption`, `ReverseAssumption`, `IdsAssumption`): bounds are
natural numbers, credits and the ring of cancelled calls at least 1; `PaneOf` is a function,
`None` is none of the ids, values or records; the calls of a connection are finitely many,
of one kind each, and their ids are not those of reverse calls; and a client serves at least as
many reverse calls as the daemon may have (`MaxReverse <= MaxIncoming`: `MAX_ACTIVE_CALLS` of
`protocol_reverse.rs` is 64, `MAX_ACTIVE_REVERSE_CALLS` of `incoming-calls.ts` is 128), without
which a client could refuse a call the daemon may start. Two provisos are
hypotheses of the theorems they concern: `NoForcedDispatch` and `NoForcedWait` say that nobody calls task-update with the
status `dispatched`, or `pending`, which the code accepts and which voids the property.

| Module | Theorem | Statement |
|---|---|---|
| `RunMailboxProofs` | `MailboxType` | `Spec => []TypeOK` |
| | `PaneCoordinatesOneRun` | `Spec => []OneRunPerPane` |
| | `OutstandingDeliveryIsCurrent` | `Spec => []OutstandingIsCurrent` |
| | `DeliveryHasOneConsumer` | `Spec => []ExclusiveDelivery` |
| | `AckedMailWasDelivered` | `Spec => []AckedMailWasHanded` |
| | `MailboxImplementsLease` | `Spec => ImplementsLease` |
| | `MailIsHandedOutInOrder` | `Spec => []OldestFirst` |
| | `NoWakeupIsLost` | `ServedSpec => []NoLostWakeup` |
| `TaskDispatchProofs` | `DispatchType` | `Spec => []TypeOK` |
| | `DispatchedTaskHasDispatch` | `Spec => []DispatchedHasDispatch`, if `NoForcedDispatch` |
| | `SettledDispatchNeverReports` | `Spec => RevokedNeverReports`, if `NoForcedDispatch` |
| `TaskWorkerProofs` | `UnknownStartIsOver` | `Spec => []UnknownIsHonest` |
| | `ClosedQuestionIsSettled` | `Spec => []ClosedMeansSettled` |
| | `NoTaskIsForgotten` | `Spec => []NoForgottenTask`, if `NoForcedWait` |
| | `NoAnswerIsLost` | `ServedSpec => []NoLostAnswer` |
| `SessionDocumentProofs` | `SessionType` | `Spec => []TypeOK` |
| | `AcknowledgedSaveIsDurable` | `Spec => []SavedIsDurable` |
| | `NoEditIsForgotten` | `Spec => []PendingIsAttended` |
| | `RestingClientIsCurrent` | `Spec => []RestMeansCurrent` |
| `PeerCallsProofs` | `BudgetsAreExact` | `Spec => []BudgetsExact` |
| | `CompleteIsAll` | `Spec => []CompleteMeansAll` |
| | `InputEndIsAll` | `Spec => []InputEndMeansAll` |
| | `PeerTypes` | `Spec => []PeerTypeOK` |
| `PeerCreditProofs` | `CreditIsConserved` | `Spec => []CreditConserved` |
| | `LateFramesAreTolerated` | `Spec => LateFramesTolerated` |
| `ReverseCallsProofs` | `ReverseTypes` | `Spec => []ReverseTypeOK` |
| | `ReverseCompleteIsAll` | `Spec => []ReverseCompleteMeansAll` |
| | `GivenUpIsAnswered` | `Spec => []RetiredIsAnswered` |
| | `ReverseSidesAgree` | `Spec => []ReverseAgreed` |
| | `ReverseCreditKept` | `Spec => []ReverseCreditConserved` |

**`RunMailboxProofs`.** The inductive invariant `Inv` adds to the properties what
makes them inductive. `ExclusiveDelivery` needs that a batch was handed to the pane
that is the coordinator of its generation (`HeldByCoordinator`) and that a check
which still has the current generation is the coordinator's (`ChecksAreBound`): the
generation grows with every rebinding, so equality of generations is equality of
consumers. `AckedMailWasHanded` needs that a delivery lists mail of its own Run
only (`ListsOwnMail`), and `OneRunPerPane` that a coordinator belongs to a row
(`CoordinatorHasRow`). Each action has a lemma per part that it can disturb.

The refinement, `MailboxImplementsLease`, is in the same module. The mapping reads the abstract queue, lease and settled mail off
the tables: the queue of a Run is its unread mail outside of its outstanding delivery.
`CheckEffect` says of all four forms of a check that they create at most one delivery, from
a free id and only when nothing is held, and settle at most one; since a Run has one
outstanding delivery (`OutstandingIsCurrent`) and lists only its own mail, a check is a
step of the lease of its own Run and leaves the others alone. Every other action sends,
releases, deletes or stutters.

The last part of the module is about order. `OldestFirst` is inductive once sequence numbers are known to be
given in order (`NumbersInOrder`: new mail is younger than all listed mail) and deliveries
to list stored mail (`ListsStoredMail`); that a page holds the oldest is a lemma about
`Oldest` by well-foundedness of the numbers (`OldestHasNoGap`). `NoLostWakeup` needs
that a waiting check has settled what it was asked to settle (`WaitersHaveAcked`), so that
what it looks through is a page of the unread mail. A transaction that stores mail or
rebinds a Run is about to notify (`CommitAnnounces`); a check that settles a batch is
not. It removes mail of its own Run, so none that stands on the waiter's page while the
waiter has no mail, and the removal of what is not on a page brings nothing onto it
(`OldestWithout`, `NewestWithout`).

**`TaskDispatchProofs`.** `DispatchedHasDispatch` is not inductive: a Dispatch that a
late worker-start made active again would be enough for it, and such a Dispatch does
not report. `LatestIsFresh` says more: the latest Dispatch of a dispatched Task is
active *and never revoked*. It needs that rowids are used in order (`RowsInOrder`),
so that the latest Dispatch of a Task is the one inserted last, and that a handler
names a row that was inserted (`HandlersAreNamed`). A late `StartDispatch` then
cannot make an old Dispatch the latest, and `AcceptedReport`, which asks for a
dispatched Task and its latest Dispatch, accepts no revoked one.

**`TaskWorkerProofs`.** `WorkerInv` relates handlers to rows across closures and restarts.
`UnknownIsHonest` rests on epochs: a start under way belongs to this run of the
daemon, a worker-show that will write `start_unknown` read a row of an earlier one
(`EpochOK`), and no row is of a later one (`WorkersInEpoch`). `ClosedMeansSettled` has to
exclude that a worker-start which outlives a settlement makes the Dispatch of a closed question
active again: before the agent is ready its Dispatch is not active and no closed question
names it (`PlacingOK`), and a Dispatch has one start (`OneStart`). Most steps only continue what is
there; `FollowingKeeps` treats them all. `NoForgottenTask` follows step by step from
`Promote`, the promotion of dependants in every transaction that completes a Task.
`NoLostAnswer` needs that a waiting ask names its question (`AsksNamed`), and that each
step which settles or deletes a question goes on to notify.

**`SessionDocumentProofs`.** Durability is a property of the daemon alone: `FileFollows`
(the file is not ahead of memory, and equals it at the same revision; the last
acknowledged save is not ahead of the file) is inductive over every operation, restart
and replacement. `RestMeansCurrent` needs the clients: every snapshot in a client's hands
is one the daemon has sent (`KnowsOnly`), answers of a replaced profile are recognised
(`SameProfile`), and a client without a pending edit holds at least the revision its
stream has handled and the one it has projected (`CaughtUp`), or has the answer to its save
already. So at rest its snapshot has the daemon's version, hence is the daemon's
document, and is what it shows (`ShowsSnapshot`).

**`PeerCallsProofs`.** `Spec` is the one of `RuntimePeer`: reverse calls share the send queue,
both directions of the link and the connection's end. `StepOf`, shown of the steps of a
call of either kind, says that they leave the state and the frames of the other calls alone.
Four invariants build on one another.

* `BooksInv`, of the client alone: the credit of a live call is what its buffer leaves, a call
  that is over holds nothing, a live call is not aborted. Every step then changes the set of live
  calls and the set of buffered payloads by what it adds to or takes from the budgets, whose
  exactness is a statement about the cardinalities of those sets.
* `StartInv`, of one call on both sides: it has at most one Start frame, in the queue or under way,
  and until the daemon has taken it the daemon's record is untouched (`StartOK`). Without this a
  second start could reset the record that the other invariants count with.
* `ResponsesInv`: the numbers of the payloads under way to a live call continue what its client
  has received, and the successful end travels behind the last of them, when the daemon has
  completed the call. The numbers are those of the payloads in front of any CallEnd with an error
  (`Ahead`): the ones behind it, of an oversized payload, leave a hole that no live call sees.
  What was read, buffered, under way and held therefore adds up to what the
  handler yielded.
* `MessagesInv`: while a duplex call is heard and its request not given up, the messages the
  daemon has seen, those under way, the one in the queue and those whose sender still waits are the
  ones asked for, with those that were rejected (`Balance`); the number under way is an existential count along the
  link (`Tally`), which needs no recursion. The end of the request is made only when no message
  waits, so it travels behind all of them. Batches are dropped from the queue only for aborted
  calls, whose request is closed: the end of such a request, which is not bound to the signal,
  was queued before, or by the failed send that cancels, when no message is left in the queue, or is
  never made. TLC checked `MessagesInv` on the instance of the
  `RuntimePeer` run before it was proved.

**`PeerCreditProofs`.** `CreditConserved` speaks of calls that both sides know, and is not inductive: a call
becomes known to the daemon when its Start arrives, and what was queued before counts from then on. `CreditInv` therefore
starts with the call. `Lent`: the credit the daemon has left, the payloads it has handed out, and the bytes on
their way back, in the queue or on the link, are at most the initial credit and what the caller has read. It counts what was
handed out over the life of the call, so a payload does not move from one term to another when the client receives it,
and a lost WindowUpdate only makes the sum smaller. With `ResponsesInv` (the payloads under way are distinct and lie
between what was received and what was handed out) and `LateInv` below (no error is under way to a call the daemon
still has, so that all payloads under way are in front of one) the property follows. `Owed`: the input credit of the client, the message in
the queue, those under way and unread, and the credit on its way to the client are the initial input credit while the call is heard
(`Alive`: from its Start in the queue to its end at the daemon), and at most that afterwards. Here `MessagesInv` is needed: the queue
holds one message of a call at most (`Shape`, `Waits`). A step of the daemon trades with both accounts (`Trade`: `Funds` and `Charges`),
Transmit moves a frame from one term to the next, or drops a batch of an aborted call, which no live call is.
Since a WindowUpdate of a live call carries one byte, sums over queues are numbers of frames, and what a frame that joins or
leaves does to them is a statement about the cardinality of a set of places. TLC checked `CreditInv` on the instance of the
`RuntimePeer` run first.

`LateFramesTolerated` is an action property: it says what is true of a state in which the client refuses a frame. Each
disjunct of `Unexpected` is excluded by an invariant, except that of a payload of a call that is done and not remembered, where
enough calls were given up. Credit is the matter of `CreditInv`, and beside it `LateInv` says, of each call:

* `FirstOK`: nothing of it travels before its Start, in the queue or on the link. A call whose record the daemon has dropped,
  or that it never heard of, and whose Start is not under way is therefore over (not `Alive`) for good.
* `QuietOK`: an end under way to the client, of success or not, has every payload of the call before it and the call is not
  `Alive`; only one such end reports success, and a call that has read it (`ended`) has no payload and no success left under way;
  the payloads under way to a live call are at most its credit ahead of what was read; a unary call yields one payload.
  For a call that was answered on after an oversized payload (`torn`) only this is claimed: the daemon has dropped it.
  `QuietOK` is not inductive alone: if the daemon could answer an error and later a payload, an end would not be the last frame.
  `receive_payload` answers an error and keeps the record when it runs the call but has seen no request.
* `AskOK` excludes that: for calls that are not duplex, a CallEnd of the request has the payload of the request before it,
  in its batch, on the link or at the daemon, so a running call has `seen > 0`.

`RingInv` is about the memory of the client: the slots of the ring hold different calls, all of them given up; and a call that is
done is remembered, or is over with no payload under way, or more than `RingLimit` calls were given up. When `insert` reuses
a slot, the ring is full of given up calls and the one inserted is not among them, so that their number exceeds the limit
(`RingFull`). When an end makes the client forget an id, `QuietOK` says that nothing comes after it. TLC checked
`LateInv` and `RingInv` on the instance of the `RuntimePeer` run first.

**`ReverseBooksProofs`, `ReverseCallsProofs`.** The five properties of the reverse calls are not
inductive, alone or together: whether the daemon may have to refuse a frame depends on what the
client said before it, and that on what the client had heard when it spoke. `ReverseInv`
therefore says of each reverse call exactly what is under way, in all three queues. What a queue
says of a call is the subsequence of its frames about that call (`Extract`), and this has one
of two shapes. `Downward` is what the client will hear: the last `a` frames of the request, `w` bytes of
credit, `x` Cancel frames. `Upward` is what the daemon will hear: `v` bytes of credit, the payloads after
the `lo`-th up to the `hi`-th, and the CallEnd with its status `e`; the client's own queue has that shape
too, with `u`, `m` and `t`. `BookOK` relates these ten numbers to the two records of the call:

* `StageOK`, how far both sides are: the request is whole on its way until the client has heard of the call; a
  call that is over at the client has its CallEnd under way, or it did not fit the queue; a call the daemon gave up
  has its Cancel under way or is over at the client. `GivenUpIsAnswered` is this with empty queues.
* `OrderOK`, what the client queued leaves in order and is lost only for an aborted call; a CallEnd
  of success is that of a handler that returned.
* `FundsOK`, the credit: what the client may send, with all that is under way, is what the daemon has left,
  and that with the buffer is the initial credit; the byte of the request is lent at most once. `ReverseCreditKept`
  counts frames in three queues; the shapes make these counts `w`, `hi - lo` and `m`.
* `CallerOK`, what the caller has read and what waits in its channel are the payloads the daemon received, in
  order, or end with the error: `ReverseCompleteIsAll`.

`ReverseSidesAgree` follows from the first frame of a shape: each frame the daemon can be about to read is one that its
record allows. That the client never refuses a call for its number needs that the daemon knows at most `MaxReverse`
calls, and that those the client has are among them, hence the assumption above.

`ReverseBooksProofs` treats one call and no connection: how `Extract` and the two shapes change when a frame
joins or leaves a queue, and what each operation of either side does to the records and the numbers.
`ReverseCallsProofs` applies these lemmas to each action. The actions of other calls do not matter by
the `StepOf` of `PeerCallsProofs`; that a batch of a reverse call is a single frame (`OutboxOK`)
is what makes the send queue a queue of frames for these calls.

**Only model-checked.**

* Liveness (`MailWakesWaiter`, `AskEnds`, `SendsSettle`), for which the prover has no
  support.

## 5. Plan

In this order; each with its instance, mutants and, where it says so, a proof.

1. Done: `RunMailbox`, `RunLease`, `TaskDispatch` and their first theorems.
2. Done: `FrameLink`, `PeerCalls`, `ReverseCalls` and their composition `RuntimePeer`;
   `SessionAuthority` and `SessionDocument`.
3. Done: every safety property of `RunMailbox`, `TaskDispatch`, `PeerCalls` and
   `ReverseCalls`, the refinement of `RunLease`, and every property of the passing run of
   `SessionDocument` proved.
4. `MutationReceipt`: begin, run, complete and discard around any command, with
   cancellation and restart between each; a command runs at most once per request
   id, and a retry says `operation_unknown` only when the outcome is unknown. An
   abstract "at most once" specification, refined; proof of the invariant.
5. `FederationRelay`: two databases, an outbox with sequence numbers, pull, import
   and acknowledgement over a channel that loses, duplicates and reorders; refines a
   FIFO of events. Proof that an event is applied at most once.
6. Direct and dispatch mailboxes in `RunMailbox`: their check loop marks mail read as
   it returns it; group sends as several steps.
7. A composition of `RunMailbox` and `TaskDispatch`: a rejected report is mail, an
   accepted one both settles and is delivered.
8. `DangerousApproval`, `WorkspaceJournal`, multiplex admission.

## 6. Not modelled

Formatting of answers and preambles, listings, timestamps, SQL errors and a full
request queue (a handler that fails so is one that was dropped), the legacy Run row
(inspect-only), heartbeats beyond their suppression.

Of the runtime protocol: the handshake, keep-alive pings (their effect is
`Disconnect`), routing of calls to other hosts, the phase `Ready` of a call of the daemon,
the registry that picks a connection for a reverse call,
and `receive_cancel` of a reverse call, whose frame no client sends. The daemon's
request budgets are a `DaemonFail`. Some defensive arms are in the model and cannot be
reached in it: a credit message of a reverse stream past its limit, a second end of a
running call, and a full queue for the end of a duplex call.

Of the workspace session: subscribing, unsubscribing and reloading a client, its `flush` (which
queues a drain for every session and asks the daemon to flush), a `write` of a whole document,
the migration of an old file when the daemon opens it (a revision and a flush more), sessions of
remote hosts, the structural merge inside records and arrays (a field is one value),
the union of live sessions, scrollback files, the timing of debounces, and the
rotation and recovery of backups. The daemon's watch marks a change as seen and reads the
document in one step.

The other parts that section 1.1
and `PROJECT.json` list as not modelled are planned, or mostly I/O, cryptography,
processes and presentation.

## 7. Running

    tlc -workers 2 -config Mailbox.cfg MCRunMailbox
    tlc -workers 2 -config Workers.cfg MCTaskDispatch
    tlc -workers 2 -config RuntimePeer.cfg MCRuntimePeer
    tlc -workers 2 -config SessionDocument.cfg MCSessionDocument
    tlc -workers 2 -config EditsKept.cfg MCEditsKept
    tlapm RunMailboxProofs.tla     (and the seven other modules *Proofs.tla)
