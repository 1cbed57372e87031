# A TLA+ model of universal-peer-mcp

universal-peer-mcp lets sessions of coding agents (Claude Code, Codex) on one
machine send each other messages. One daemon per state directory keeps an
append-only ledger, writes messages into the sockets of other sessions, accepts
their answers, and rings a "doorbell" for messages that wait in an inbox. What is
hard about it is hard everywhere: processes die between two steps, a target is
replaced while it is being written to, several callers ask for the same thing at
once, and the ledger itself can fail. This directory holds TLA+ models of the
parts where that matters, TLC configurations that check them on small instances,
and proofs of their safety properties for instances of any size.

## 1. Inventory

Paths are under `src/`. "Rows" are the lines of `events.jsonl`, which are the
only durable state of most components.

| Part | State | Operations | Hard because of |
|---|---|---|---|
| Event ledger, `core/events.mjs` | the file, `events`, `chain`, `poisoned` | `init`, `append`, `reserveRequest`, `reserveRecovery`, `appendChecked`, `close`, the `onAppend` hook | partial writes, failed syncs, power loss, callers queueing on one promise |
| Peer core, `core/peer-core.mjs`, `core/wait*.mjs`, `adapters/claude-native-v1/transport.mjs` | `sendLocks`, listeners; rows `send_requested`, `send_recovery_reserved`, `socket_write_complete`, `send_failed`, `peer_*` | `send`, recovery, `acceptFrame`, `wait` | one id used by several callers, targets replaced between resolve and write, answers racing timers |
| Daemon lifecycle, `core/control.mjs`, `core/shutdown.mjs`, `daemon.mjs` | the files `daemon.lock`, `control.sock`, the token, `daemon.json` | `ensureDaemon`, `reclaimDeadDaemon`, start, stop | processes racing on files, kills between system calls |
| Doorbell, `core/doorbell-service.mjs`, `extensions/codex-queue` | `running`; rows `doorbell_*`; reservation files `codex-wake/*.json` | `onAppend`, `ring`, `sweep`, `ringAgain`, `ringRelinked`, `wake` | four starters of the same ring, crashes at every await, aliases that move |
| Posts, `core/posts.mjs`, `core/inbound-spool.mjs`, `core/orphans.mjs` | rows `peer_post*`, body files | `acceptPost`, `inbox`, `ackInbox`, `relinkPost`, `linkUnmatched` | body before row, who may read what after a succession |
| Receipts and attempts, `core/receipts.mjs`, `core/attempts.mjs` | rows | hook, `sweep`, `recordAttempt` | notices derived twice, causes that vanish while they are written |
| Targets and succession, `core/target-*.mjs`, `core/session-rebind.mjs`, `core/peer-directory.mjs` | `targets.json`, its history file, the daemon's reading of both | `rebind`, `register`, `unregister`, table refresh | files written one after another, requests that interleave at each of them |
| Receiver, `adapters/claude-native-v1/receiver.mjs` | connections, frames in flight, registry row, socket | `accept`, `close` with its drain, `reclaimStaleRegistrations` | bounds racing frames that are being recorded |
| Milestone, `extensions/milestone` | rows of its own beside the core's, a chain | `observeFrame`, `recover`, `reconcile` | two rows for one fact, with a crash in between |
| Code review, `extensions/code-review` | the same | `request`, `observeFrame` | ids that other callers may use, receipts nobody asked for |
| Retention, archive, backup, alerts, `core/*` | body files, archive files, `alerts.jsonl` | dispositions, deletion, maintenance | row and file out of step |
| Identity, readers, MCP server, CLI, setup | none of their own | questions to the kernel, printing, argument checks | - |

How they interact. A CLI or MCP call reaches the daemon through `ensureDaemon`
and the control socket. The daemon's components share one `EventStore`; a
component that must decide "not yet done" and write in one go passes the check
into the store (`appendChecked`, `reserve*`). The store calls `onAppend` after a
row is durable, which is how the doorbell and the receipts start. `PeerCore`
emits every row it appends, which is how waits wake up. The doorbell rings Claude
sessions through `PeerCore.send` under an id derived from the post. Frames come
in through the receiver and end as rows.

What makes each part correct:

* Ledger: a row somebody was told about is never lost; a reservation is unique
  even when an attempt failed half way; the file can be read back unless it has
  outgrown its limit.
* Peer core: bytes leave at most once per transport id and only under a
  reservation that names them; a status stands on bytes and on the right writer;
  waits miss nothing; calls end.
* Lifecycle: one daemon, which holds the lock; a serving daemon keeps its files; the
  directory recovers.
* Doorbell: one ring per attempt, only where the message is bound, `sent` only if
  it rang, and no post left without ring, processing or a row that it was noticed.
* Posts, receipts, retention: one row and one body per id; answered and
  acknowledged only by a session it was bound to or its successors; a sender whose
  message is stuck hears of it; no body stays that nothing will ever find.
* Targets: an alias is in one table and names only what was registered or descends
  from it by receipts; a daemon enforces the table it says it enforces.
* Receiver: an accepted frame is recorded or the stop says it was not; a reclaim
  removes what is dead and nothing else; a stop ends.
* Milestone and code review: one acknowledgement or request per transport, on
  record before it leaves; a result counts only on evidence bound to it.

## 2. Modules

| Module | Models | Lines of the code |
|---|---|---|
| `EventLog` | what the ledger promises its callers | abstraction of `core/events.mjs` |
| `Ledger`, `LedgerProofs` | the event store, the disk, crash and power loss | `core/events.mjs` |
| `PeerSend`, `MCPeerSend`, `PeerSendProofs` | send, recovery, frames, wait | `core/peer-core.mjs`, `transport.mjs`, `wait*.mjs` |
| `Delivery` | what a message id is promised, whoever sends under it | abstraction of `core/peer-core.mjs`, with `codex-queue/index.mjs` and `posts.mjs` |
| `DaemonLock`, `DaemonLockProofs` | start, lock, reclaim, stop | `core/control.mjs`, `core/shutdown.mjs`, `daemon.mjs` |
| `Doorbell`, `DoorbellProofs` | all ways a doorbell is rung | `core/doorbell-service.mjs`, `codex-queue/index.mjs`, parts of `posts.mjs` |
| `Mailbox` | what sessions that write to each other are promised | abstraction of `core/posts.mjs`, `receipts.mjs`, `retention.mjs` |
| `Mail`, `MCMail`, `MailProofs` | messages, bodies, answers, receipts, deletion, orphans | `core/posts.mjs`, `inbound-spool.mjs`, `receipts.mjs`, `retention.mjs`, `orphans.mjs`, `daemon.mjs` |
| `Targets`, `MCTargets`, `TargetsProofs` | the tables, the enforced copy, registration, succession | `core/peer-directory.mjs`, `target-*.mjs`, `session-rebind.mjs`, `rebind-sidecar.mjs`, `sender-auth.mjs`, `registry.mjs`, `daemon.mjs` |
| `Receiver`, `ReceiverProofs` | the receiving adapter from start to stop | `adapters/claude-native-v1/receiver.mjs` |
| `Extension` | the chain, the daemon and the target that both extensions have | `extensions/*/index.mjs` |
| `Milestone` | completions and their acknowledgement | `extensions/milestone/index.mjs` |
| `CodeReview` | review rounds and their receipts | `extensions/code-review/index.mjs` |
| `ExtensionProofs` | proofs about `CodeReview` and about `Milestone`, whose names for the same things begin with `Ack` | - |

`PROJECT.json` maps every definition to its lines. A module `...Proofs` extends the
module it is about and adds nothing to it but invariants, lemmas and theorems.

What one component needs of another it takes in the form that is checked there:
`PeerSend` uses the ledger as `EventLog` promises it; `Milestone` and `CodeReview`
use the steps of `PeerCore.send` that `PeerSend` has in full (resolve, reserve each
transport once, the extension's row, write); `Doorbell` and `Mail` see a succession
as an alias that moves, with or without proof, and `Targets` has the steps of one.
`PeerSend`, `Doorbell`, `Milestone` and `CodeReview` all implement `Delivery`: the same
promise about an id, for the ids that a caller states, that a ring attempt derives and that
an extension derives. `Mail` implements `Mailbox`, as `Ledger` does `EventLog`.

### EventLog and Ledger

`EventLog` knows a log that grows at its end, a prefix of it that a power loss
cannot take (`kept`), and the rows callers were told about (`told`). `Ledger` has
the promise chain (`chain`, with `stage` and `line` for each caller's operation),
the file as complete lines plus a flag for a torn end, the mark `synced`, the
rows in memory and `poisoned`. One action is the code between two awaits:
`Open` (build the row, open the file), `WriteLine`, `SyncLine` (sync, close, show,
tell), and a failing twin of each. A process crash keeps what was written, and
may leave part of the line that was being written. A power loss keeps the synced
lines and any number of those after them, again possibly with a torn end; that
the file system loses a suffix and not lines from the middle is an assumption.
A line written behind a torn one becomes a damaged line (number 0), which `Start`
refuses, as `init` does. `Start` refuses a file over its limit too (`MaxFile` stands
for the 64 MiB, counted in rows); nothing that writes looks at that limit, in the code
as in the model.

`Ledger` implements `EventLog` under `log <- disk`, `kept <- synced`.

### PeerSend

The ledger is used as `EventLog` promises it: an append is atomic and durable
(`Commit`), or it fails, poisons the store, and the row may or may not be found
by the next process (`CommitFails`). `mem` and `disk` are what the rows say of
each message: the reservation, the recovery, the outcome of each of the two
transports (`via`), the evidence. A caller goes through `queued` (the per-id
lock), `resolving`, `reserving`, `reserved`, `sent` or `broken`, which are the
awaits of `#sendOnce` and `#recoverSend`. `live` is the process that owns the
target; `Replace` hands it on. `wire` records every frame that reached a socket;
a write may fail after the bytes left. Frames come back from processes that got
the message, current or replaced, or from strangers. Emitting a row directly
follows its append in the code, with only microtasks between, and is one step
here. A frame that answers nothing is kept as unmatched, and an operator may link
it to a message (`LinkUnmatched`); that row is not emitted. Reports that decide
nothing (hold bound, status, unmatched) are appends that may fail and poison the
ledger. Not modelled here: the succession inside `#resolve` (see `Targets`),
snapshots of older builds, marker parsing.

### Delivery

`Delivery` has no caller, lock, daemon, file or memory. Of each message it knows the
`request` (content and target, or none), whether its one recovery is reserved, the frames
that `left`, the `outcome` that was said of each transport, the `evidence` that came back
and whether an operator `linked` an answer. `Reserve`, `Recover`, `Drop`, `Transmit`,
`Settle`, `Learn`, `Link` are all that can happen to them, one message at a time. A frame
leaves at most once per transport, with what is reserved and for whom it is reserved, before
anything is said of its outcome; "written" is said only of a frame that left; evidence is
about a message that left, or is linked. The four mappings:

* `PeerSend`: what the file holds (`disk`), and the wire. No reservation is ever dropped.
* `Doorbell`: a message of `Delivery` is an attempt (message and generation); its request is
  the carrier, for the session the generation is bound to; what left are the direct
  doorbells. A reservation may be dropped, as the wake drops its file when nothing was
  tried. Doorbells in the queue of the Codex CLI are outside, because no reservation is
  behind them (`doorbell_twice` shows what that costs).
* `Milestone`: an acknowledgement with its two transports; status rows are its evidence.
  Outcomes are not in that model.
* `CodeReview`: a request id, which the extension or another caller may reserve; what leaves
  in that model is a review and must have been reserved as one.

### DaemonLock

Each action is one system call of `reclaimDeadDaemon`, `daemon.mjs` or
`shutdownResources`. A process identity stands for a pid with its start time, and
a file is known by the process that made it, which is what its inode and its
content tell. A caller that finds no bun ends before it deletes anything
(`NoBun`). `signed` says that the lock holds its maker's identity already:
between the exclusive open and that write the lock is malformed. Any process can
be killed at any point. A pid used again by another process, which the code
answers with "ambiguous", is `Doubt`. A stop notes its files (`Stop`), waits
(`Close`), looks at each name again and unlinks it in a later step, the names in any
order (`Check`, `Remove`), and ends (`Exit`, or `ExitLate` when the bound elapses
amid the removals). `Close` stops nobody from appending: `EventStore.close` waits for
the appends it finds queued, so a process is in `Writers` from the moment it opened the
ledger until it ends. Which of its handlers still run, and what they append, is left open.

### Doorbell

A ring of a message in one relink generation is a `job` with a `stage` for each await.
`carrier` is its reservation: for Claude the row under the derived id, for Codex the
reservation file. `rung` is the history of doorbells that reached a session, `direct`
(socket, turn/start, turn/steer) or through the `queue`. Starters are the append hook
(`Post`), the sweep, a returning recipient (`ClaimAgain`, `RingAgain`) and the Owner's
relink. The row of an alert (`SweepAlert`) and its alarm (`Alarm`, which may fail) are two
steps with `toRaise` between, and a relink and its ring two with `relinkDue`; a crash loses
both. An append that fails makes the store refuse every later one, so it acts like a crash
here and is not an action of its own. The sweep visits messages in any order. Codes of
outcomes are folded into two classes: those that mean nobody waits for a ring (`quiet`), and
the rest. What the app-servers say of a thread is one of five `Findings`, and whatever is
handed to a socket, an RPC or the CLI may get through unanswered (`Exchange`). Whether the
settings configure Codex is left open at every ring. `MaxRerings` is the code's own
constant.

### Mail

A writer of an id (a caller who posts, a recipient who answers, the receipts) has a `job`:
it writes its body, which gets its name when it is whole (`Spool`, `Publish`), waits for its
append, or has lost and discards the body. A write that fails or dies before the rename
leaves a temporary file that nothing names (`litter`); one that fails after it leaves a body
without a row (`SpoolFails`). `rows`, `bound`, `processed`, `handled` and `expired` are what
the ledger says; `spool` is the directory. A failed append poisons the ledger until a
restart, and its line may be on disk all the same (`ghosts`): the next start then reads a
row whose writer was told of a failure and has discarded the body. The two receipts that
exclude each other are one kind. `Lineage` is the transitive closure of proven successions.
An acknowledgement decides by it and waits (`acking`). `Delete`, `Expire`, `Unlink` are the
deletion of a body with its row in the middle, and the unlink may fail; `Sweep` is the
orphan sweep of maintenance, which spares young files, and `Restart` has the one that does
not. That neither an append nor a sweep takes the ten minutes of that grace is an
assumption.

### Mailbox

`Mailbox` has no file, row, daemon or race. A message, its answer and its two receipts are
letters. Of each letter it knows who wrote it (`by`), whether its body is there (`bodies`)
and was released, and whether a writer was told that it failed; of each message to whom it
was `given`, who `processed` it and whether its doorbell is `stuck`; and who succeeded whom
(`heirs`). `Write` happens once for a letter and on its `Grounds`: a session answers if the
message was given to it or to one it descends from, and a receipt is about a stuck or a
processed message. `Process` needs the same entitlement, at the step that records it; the
code judges it earlier, before an await. `Give` is for messages that nobody has processed.
A body that is there goes only after its `Release`; a letter may be written without one
only if it `Fail`ed before. The mapping reads `by`, `given` and `processed` off the rows,
`released` and `bodies` off the rows, the expiries and the spool, and `failed` off `ghosts`.
A receipt whose cause is gone when its row is written is allowed, as in the code: the
message may have been processed since it was judged.

### Targets

`claude` and `codex` are the two tables on disk, `stamp` the version of the first, `history`
the file beside it; `table` and `watch` are what the daemon enforces and which version it
thinks that is. A request goes from await to await: it looks whether the table changed
(`Observe`, `ReadTable`, and `Assign` or `LoadFails`, which keeps the last table and sets
`unreadable`), identifies its caller or resolves its alias, may run a succession (`Find`,
`Rewrite`, `Remember`, then the table once more), and registers or removes (`queue` is the
chain of the writers). What the daemon sends of its own accord, a doorbell or an
acknowledgement, comes without a reading and without the caller's check (`Ring`). Sessions
are processes with an id and perhaps a receipt, `--resume`; they are launched, resumed,
forked, cleared and end at any time. Sessions in other directories, permission modes and the
verification of a row are one refusal that may happen anywhere. The daemon's memory of who
held an id, which forbids a process to succeed itself, is `seen` for registrations and
`sentTo` for sends, the two places the code looks in; of the rows that `seen` stands for,
those of posts are left out, which only admits more successions. There is one Codex thread.
`LineageIsProven` says that the id a table gives to an alias is in `Heirs(alias)`:
registered for it at some time, or reached from such an id over receipts, in any number of
steps. A receipt is what the code takes for one, the arguments of a process that advertises
the id; whether a succession takes place where the code means it to is asked by
`ReplacesItsOwn` and `OwnIdIsNotInherited`, which do not hold.

### Receiver

One daemon at a time, but several in turn: pids are few and are taken by other
programs too, which may publish a row of their own under them. Files carry the
number of the daemon that made them. A start looks at each row (`SkipRow`,
`ClaimRow` and four steps of a reclaim), refuses or listens, and publishes key
and row. A connection has three counters, what was sent, read and settled; `fate`
is what rows there are about each frame. A stop awaits its own row, then polls for
quiet or is ended by its bound, reports what is unfinished, and removes its files
in any order. The ledger may begin to refuse rows or never settle again.

### Milestone and CodeReview

Both extend `Extension`: a `chain` of operations whose head runs in steps (`at`). Rows of the core
(`core`, `status`) and of the extension (`reserved`, `own`, ...) are separate, and
the daemon may die between any two. The target process may be replaced at any
moment, frames come from any process that had the target, and in `CodeReview` any
caller may reserve a request's id first. A ledger that fails is taken as a crash,
since it refuses every later row.

## 3. What the runs check

Deadlock is off in every run: the bounds on calls and crashes are used up and a
system nobody calls may rest.

| Run | Bounds | Shows |
|---|---|---|
| `ledger` | 2 callers, 1 key, 3 rows, a limit of 2 rows at a start, 2 crashes | `ToldSurvives`, `OneReservation`, `OnlySizeRefuses`, `CallSettles`, `ImplementsEventLog` |
| `send` | 1 id, 2 contents, 2 callers, 1 waiter, 3 calls, 2 processes in turn, 1 crash | `ImplementsDelivery`, `AnswersAgree`, `StatusMeansSent`, `NoLostWakeup`, `CallsFinish` |
| `lock` | 3 identities, 1 caller at a time, 2 faults | `HoldersHaveTheLock`, `ServingKeepsItsFiles`, `Recovers` |
| `doorbell` | 1 message, 2 sessions, 1 relink, 1 move, 1 crash | `ImplementsDelivery`, `RungWhereBound`, `SentMeansRung`, `EveryPostSettles` |
| `mail` | 1 message with its answer and receipts, 2 sessions, 1 crash, and two of: a second caller, a move, a deletion (`MCLimits`) | `OneBodyPerPost`, `ImplementsMailbox`, `NothingIsStuck` |
| `targets` | 2 aliases, 2 requests, 3 sessions, 3 processes, 4 events of the outside | `AliasInOneTable`, `LineageIsProven`, `EnforcedIsCurrent` |
| `receiver` | 2 pids, 3 daemons in turn, 1 connection with 2 frames | `CleanMeansDone`, `ReclaimIsExact`, `CloseEnds` |
| `milestone` | 2 completions, 1 attempt, 2 processes in turn, 3 requests, 2 status frames, 1 crash | `AckIsAccounted`, `AckImplementsDelivery`, `EvidenceIsCredited` |
| `review` | 2 requests, 2 receipts, 2 artifacts, 2 rounds, 2 processes in turn, 3 calls, 1 crash | `RequestSentOnce`, `VerdictIsBound` |

Every run also checks one type invariant (`TypeOK`, `AckTypeOK`). `AtMostOncePerTransport`,
`FrameIsReserved` and `OneDirectRing` are parts of what `ImplementsDelivery` says and are
not run besides it, and `OnlyHoldersAct` is one of `ImplementsMailbox`; they are stated and
proved on their own. Why the bounds are enough:

* `ledger`: the chain serialises everything, so two callers show every overlap of an
  operation with the one behind it; a failed attempt, a retry by somebody else and a restart
  need two rows of one key, and a third row gives a torn line something behind it, and a
  file over the limit with a row that was promised. Two crashes allow one between a failure
  and its retry and one after.
* `send`: calls meet only through one id. Three calls are a first send, a rival and a
  recovery; two processes are the one addressed and its replacement.
* `lock`: a process that was killed or stops, one that reclaims and one that starts. A third
  fault would need a fourth identity, since identities of files are not given out twice.
* `doorbell`: messages meet only through their alias. One crash falls between any two steps,
  at the first ring, its retry, a ring for a recipient who is back or one after a relink.
  That each of them is cut short needs more crashes; the safety properties are proved for
  any number of them.
* `mail`: messages meet only in the spool's names, which differ. `MCLimits` lists the
  instances: two racing writers; one writer and an alias that moves; one writer and a body
  that is deleted; each with a crash. The three do not act on the same variables except
  through the rows, and all at once is out of reach.
* `targets`: `MaxWork` bounds launches, requests, edits, id changes and crashes together, so
  that each instance is some four of them in any order: enough for a succession that
  overlaps a registration, an edit or another succession, and for a crash in the middle of
  one. Two requests are needed to overlap; the third id is a second session that resumes or
  forks, or that an edit names. A chain of two successions needs more events than four: that
  chains of any length are lawful is proved (`NamesAreProven`), not checked.
* `receiver`: a daemon that died, one that reclaims it under the same or another pid, and
  one after a reclaim that was killed half way. Two frames give one that is settled while
  the next is read.
* `milestone`, `review`: the chain serialises operations, so two of them and the core beside
  them show every overlap; a first try, a recovery or a repeat, and a frame between them are
  three requests. In `milestone` both completions are of one attempt, so one is accepted and
  the other repeats or conflicts. In `review` the round limit is not reached, since a second
  round uses up the second id and the limit refuses a third.

Fairness. `ledger`: an operation that has begun goes on (file operations end);
nobody has to submit, stop or crash. `send`: the resolver, the socket (it has its
own timer) and the ledger answer, and timers fire. `lock`: running processes go
on, and somebody keeps asking for a daemon, as every control call does by
starting with `ensureDaemon`. `doorbell`: awaits end (socket, RPC and CLI have
timers), and the sweep runs at start and every five minutes. `mail`: the timers of
the receipts and of maintenance go on, and the daemon is started again.
`receiver`: the timers of a stop fire and its system calls return; an append that is
stuck stays stuck. `milestone`: the chain goes on and the daemon is started again.
No run assumes anything of peers, operators, frames or crashes.

`Recovers` excepts one state: a lock whose maker died before it wrote its
identity. The code refuses such a lock and its documentation tells a person to
remove it. Four more properties except, by name, the one case in which the code
does not keep them, so that they hold for the rest:

* `OneBodyPerPost` excepts a row whose append failed after its line had reached the
  disk (`Ghostly`): the body is discarded, and the next start reads the row.
* `NoLostWakeup` excepts messages that were linked by an operator: `linkUnmatched`
  does not emit its row.
* `EnforcedIsCurrent` excepts a daemon in which two readings of the table overlapped
  (`overlapped`), and a version that is marked `unreadable`. What happens there is
  `ReadingsAgree` and `RepairIsInForce` below.
* `CloseEnds` begins when the receiver closes: `shutdown` awaits the row
  `daemon_stopping` before that, under no bound.

`NothingIsStuck` is about files with a name of the spool's own form that no row names, and
`EveryPostSettles` about rows: the row that an unrung post was noticed, not the alarm, and
the first outcome, not that of a relinked generation. What is outside them is below.

### Where the code and its documents part

Three runs state what a comment or a document says and find it violated.

* `send_terminal` (`TerminalIsFinal`): a recovery looks for a terminal failure,
  then awaits the resolver and the ledger. A failure recorded meanwhile does not
  stop it, although `docs/troubleshooting.md` says such a message cannot be
  recovered.
* `lock_race` (`OneDaemon`): with two callers reclaiming the same dead daemon, the
  slower one unlinks the lock by name after the faster one has started a daemon,
  and a second daemon starts beside it. With one caller at a time this does not happen,
  whatever is killed (section 4).
* `doorbell_twice` (`NeverRungTwice`): the queue has no reservation, so a crash
  between the hand-over and its row makes the sweep ring the attempt again.

Ten more claims are stated beside the properties, as the strong forms of what the
exceptions above leave out. TLC finds each violated, with the configuration named here
(`tlc -config DaemonLockOverlap.cfg DaemonLock`; the `Targets...` files
go with `MCTargets` and the `Mail...` files with `MCMail`), and its counterexample is what the code does.

| Claim | Configuration | How it comes about |
|---|---|---|
| `OneWriter`: one process at most may append to the ledger (`control.mjs:221`) | `DaemonLockOverlap.cfg` | also with one caller, a daemon that stops has removed its lock and not yet ended, and its handlers may append (`events.mjs:143`, `shutdown.mjs:15`), when the next opens the ledger |
| `ServingIsPublished`: a serving daemon has its files (`control.mjs:171`) | `DaemonLockUnlinked.cfg` | the unlink of a stopping daemon comes after its check of the name and an await (`shutdown.mjs:23-25`); if its lock went first, the next may have published under the name. `ServingKeepsItsFiles` says that this is the only way |
| `EveryAlertIsRaised`: one alarm per message (`doorbell-service.mjs:37`) | `DoorbellAlarm.cfg` | the row comes before the alarm (242, 243), whose errors are swallowed, and keeps every later sweep from raising it |
| `EveryRelinkIsRung`: it is rung in the session that now holds it (`doorbell-service.mjs:315`) | `DoorbellRelink.cfg` | a crash after the relink row and before its ring (`daemon.mjs:669-672`); the sweep leaves a message alone that has an outcome, and a second relink is refused |
| `RepairIsInForce`: a repaired table is in force on the next call (`daemon.mjs:92`) | `TargetsRepair.cfg` | a load that fails for a passing reason counts as a look at that version (`target-table.mjs:44-49`) |
| `ReadingsAgree`: the check is against the table as it is now (`target-table.mjs:19`) | `TargetsOverlap.cfg` | of two readings side by side the older may be assigned last, under the fingerprint of the newer |
| `ReplacesItsOwn`: a succession replaces the id it found a successor of (`target-config.mjs:81`) | `TargetsStale.cfg` | it writes over whatever the row holds by then (112-116) |
| `OwnIdIsNotInherited`: a process under a new id is no successor (`registry.mjs:71`) | `TargetsCleared.cfg` | a session that was started with `--resume`, registered, was never sent to and changes its id by `/clear`: `previousGenerationOf` looks at sends only (`session-rebind.mjs:179`) |
| `StartFindsAll`: a start leaves no body outside retention (`daemon.mjs:148`) | `MailLitter.cfg` | the temporary file of a body whose write did not end (`state-paths.mjs:142-144`) has a name the sweeps do not look at |
| `ExpiredIsGone`: what the rows call expired is deleted (`inbound-hydrate.mjs:62`) | `MailExpired.cfg` | the unlink fails or never comes (`retention.mjs:70`), and the row keeps retention, disposal and the orphan sweep from the body |

One more was met and is not stated: the stale row of a doorbell is missing when the message
is processed while its doorbell is being queued.

Hazards that no property covers yet are in `PROJECT.json` with the reason.

## 4. What is proved

Every safety property of the passing runs of section 3 is a theorem `Spec => []Invariant`, for every
set of callers, messages, sessions, processes and so on, and for every bound; so is
the type invariant of every module. So are the refinement of `EventLog` by `Ledger` and
those of `Delivery` by `PeerSend`, `Doorbell`, `Milestone` and `CodeReview`, that of
`Mailbox` by `Mail`, and with them every action property they contain: no step of any of
these, crash and restart included, changes a reservation, takes back an outcome or evidence,
or adds a frame but as `Delivery` does, and none writes, answers or processes a letter, or
removes a body, but as `Mailbox` does. The theorems, with the properties they state, are listed in
`PROJECT.json`.

Each proof has the same shape: an invariant `IInv`, a lemma that `Init` gives it, one
lemma per action that the action keeps it (or, where the parts of `IInv` are kept
for different reasons, one per action and part), a theorem or lemma `Invariance`,
and for each property the step from `IInv` to it. Each `IInv` was first checked by
TLC under the bounds of its run.

What is assumed is the `ASSUME` of each module. They say that bounds are natural
numbers (some positive), and beyond that:

* `SendAssumption`: what callers ask for and what frames say has the right form.
* `MailAssumption`: there is a session; `Nobody`, which marks rows that no session
  wrote, is not one of them; the receipts are a writer of their own and no caller.
* `DoorbellAssumption`: there is a session.
* `TargetsAssumption`: `"free"`, the word for the idle queue, is no request.
* `LockAssumption`: `None` is no process, and the processes are a finite set, of
  which `Cardinality` can be taken.

Three theorems have a hypothesis that restricts the system: `TheLockIsHeld`,
`OneDaemonAtATime` and `OnlyALateUnlinkTakes` take `MaxClients <= 1`, because with
two callers the second is false, as `lock_race` shows. The excepted cases of section 3
are excepted in the theorems too, by the same formulas.

### Ledger

* `CallsOK`: an operation past `idle` belongs to a running store and has a
  request, so that the row it writes is well formed.
* `MemOK`: memory is the front of the file. It is shorter only while a line waits
  for its sync or after a failure, and then the store is poisoned; a torn end
  means poisoned as well. This is why a number is never used twice and no line is
  glued to a torn one, and so why a start is refused for size only
  (`OnlySizeStopsAStart`).
* `WriterOK`: who has the file open is the head of the chain, its row is still
  the next one and still has no prior. This carries a decision made against
  memory over two awaits to the moment the row is in the file.

Refinement follows action by action: `WriteLine` is `Grow`, `SyncLine` is `Promise`, a
sync that took place before its error is `Secure`, a power loss is `Lose`, and the
rest leaves the three variables of `EventLog` alone.

### PeerSend

* `LockOK`: a call that the lock of its message let in is the head of the queue, so
  that two calls inside are never about the same message. Everything a call knows
  at one await and uses after the next is safe for this reason.
* `MemOK`: the file holds what memory holds, and no more unless an append failed.
  `Extends` orders the two: no reservation, recovery or outcome changes once it is
  there. A restart that reads the file can therefore only learn facts.
* `CallOK`: what a call has established where it stands. Past its reservation the
  row is its own, its transport has no outcome, and while it is at `reserved` no
  frame has left under that transport. `AtMostOncePerTransport` follows from the
  last and `FrameIsReserved` from the first.
* `Backed`: an outcome stands on a reservation; `written`, and evidence that no
  operator linked, stand on bytes that left. `StatusMeansSent` is read off it.
* `CallsUnsettled`, for the refinement: a call past its reservation finds no outcome of its
  transport in the file either, so that its `Settle` is the first. `CallOK` says this of
  memory, and a failed append may put into the file what memory never learns.

`SendImplementsDelivery`: a reservation whose append reaches the file is `Reserve` or
`Recover`, whether the caller learns of it or not; `Transmit` is `Transmit`; the row about
how it ended is `Settle`; a frame or a link is `Learn` or `Link`; the rest leaves `Delivery`
alone. A failed append is the step if its row is in the file and none if it is not.

### DaemonLock

* `OneClient`: one process at a time is a caller. The hypothesis enters here only.
* `LockOK`: from the exclusive open to its release the lock is the reclaimer's, and
  from its signature to its check or its unlink the daemon's, also when the process that
  stops has the unlink on its way (`Claims`); a lock about to be unlinked is of a process
  that does not run. `HoldersHaveTheLock` is its first line, and `OneDaemon` follows, since
  two holders would be the maker of one file.
* `OnlyALateUnlinkTakes` needs no more: a reclaimer that clears, and a daemon that
  publishes, is a holder, and so is a daemon that serves; what is left is `Remove`, and its
  check has passed.

### Doorbell

* `Reserved`: a ring under way has its reservation in the ledger or in the
  reservation file, and nothing has rung while it is about to write; past the write
  it has rung; a result `sent` and a carrier `written` mean that it rang. A crash
  loses the job and not the carrier, so a second ring of the attempt finds it.
* `Placed`: a ring under way is of a generation that the message has, for the
  session bound to it then, in the way its recipient takes. `RungOK` says the same
  of every doorbell that rang, and `binding` only grows.
* `OnceOK`, `RowsEarned`: the two invariants in a form without cardinalities.
  `RowsOK` and `ClaimsOK` tie the starters to what was posted.
* `CarriedOK`, for the refinement: a carrier is of a generation the message has, so that the
  session of its request is defined and, since `binding` only grows, stays the same.

`DoorbellImplementsDelivery`: every step does one of five things to carrier and doorbells. It
reserves, drops, rings, completes, or touches neither (`Unreserved`); the lemma `RingShape`
says which for the rings and `OtherShape` for the rest, and each of the five is a step of
`Delivery` or none.

### Mail

* `WritersOK`: a writer, from the moment it begins to write a body, holds a file of its own
  that no row names; once the body has its name it is in the spool. With `RowsOK` (an
  id has at most one row, whose file was spooled for that id), two racing writers of
  one id end with one row, and the loser discards its own body and not the winner's.
* `GhostsOK`: a line that was taken for lost and has not been read since is the only
  one, and the ledger takes no row until a restart reads it. Without it, a restart
  could bring a second row of an id.
* `DeletersOK`, `DeadOK`: a body is unlinked after the row that says so; a process
  that died does nothing.
* `ActsOK` and the entitlements in `EntryOK` and `RowsOK`: whoever is about to answer
  or to acknowledge was entitled to when it was looked at, and still is, since
  `Lineage` and `bound` only grow (`Tied` is monotone).

`MailImplementsMailbox` needs one invariant more, `ClaimsOK`: who holds a letter that is not
written yet, and whoever's row was taken for lost, has the grounds for it (`Grounded`: the
message exists, is stuck or is processed, none of which is ever taken back), and a deleter
that has yet to record its deletion finds the body or an expiry of it. `ClaimsStay` names
what a step must leave alone for that, and `NextKeeps` shows it and the step of `Mailbox`
side by side, action by action. A row is `RowIsLetter`, whether a writer appends it or a
restart reads it; `GhostsOK` is why a restart reads one at most, and `RowsOK` and
`OneBodyPerPost` are why an expiry releases, and an unlink removes, the body of one letter.

### Targets

* `TablesOK`: the tables in the file and in the memory of the daemon name only
  proven ids (`Lawful`). `Heirs` is a closure over receipts and grows with them.
* `RequestOK`: the same for every copy of an id or a table that a request carries
  from one await to the next; and a request that is between its two writes has
  looked at the other table (`AliasInOneTable`).
* `ReceiptsOK`: a session that could succeed another has its receipt in the history.
* `WatchOK`: while the version last looked at is the newest, whoever holds a reading
  of the table holds the newest one, and with nobody reading it is enforced or marked
  unreadable; both unless readings overlapped.

### Receiver

The invariant has two parts, which are kept for different reasons.

* `DirOK`, of the directory: a daemon comes by socket, key and row in this order
  (`FilesOK`); who has the pid of an earlier daemon has made it a reused one
  (`PidsOK`); the socket of a dead daemon has the row of its maker beside it, unless
  it is torn or its pid was reused, and a start that looks at the rows has yet to come
  to it (`SocketOK`). This is why a start is refused for one of those two reasons only.
* `StopOK`, of frames and stop: frames are handled in order and leave a row while the
  ledger takes rows; a stop that has nothing to report has handled all it has read
  (`FramesOK`), and has not got what it has removed (`RemovedOK`).

### CodeReview

* `StepOK`: an operation past its judgement has a round; past its reservation the row
  in the core is its own, for the process it resolved, and nothing was written.
* `AnswersOwn`: a receipt that counted answers a send of the extension, whose row
  nobody can replace. `ReceiptsBound` is `VerdictIsBound` without its last conjunct,
  which follows from it and from the order of rounds.

`ReviewImplementsDelivery` needs nothing more: `TakeRefines` is the reservation, by whoever,
and `StepOK` says that what is about to be written is reserved as a review and has not left.
TLC checked this refinement too, under the bounds of `review`; it is no property of that run
because it would take most of its time.

### Milestone

* `AckStepOK`: an operation past `prepare` is of a completion on record, and past its
  reservation nothing was written under its transport. A completion just accepted
  finds its first transport free; only a recovery uses the second.
* `AckCoreOK`: a reservation is of a completion on record; the second was asked for
  and is for the process of the first.
* `AckWireOK`: bytes that left have both rows, and a fact that came back is about
  such bytes. `AckChainOK` carries this for frames that wait on the chain.

`MilestoneImplementsDelivery` follows from these: the first reservation is `Reserve`, the
second `Recover`, and a second frame is for the process of the first by `AckCoreOK`.

### What is only model-checked

* The liveness properties `CallSettles`, `CallsFinish`, `Recovers`, `EveryPostSettles`,
  `NothingIsStuck`, `CloseEnds` and `EvidenceIsCredited`: they follow from fairness and
  so from ENABLED, which the prover does not reason about.
* `TerminalIsFinal`, `NeverRungTwice`, `OneDaemon` with two callers and the ten claims of
  the table in section 3 are false.

## 5. Not modelled

* Identity proofs through the kernel (`bun:ffi`, `KERN_PROCARGS2`): the models take
  the answer, which process wrote and which is alive, as given.
* Parsing of frames, markers, settings and process arguments; message bodies and
  their limits: data that the properties do not tell apart.
* The quarantine rows of `acceptPost`, the rows of duplicates and conflicts, the
  rows of `trace_attempt`: they are appended and nothing decides by them.
* Archive, backup, day counters, the alerts' file: files derived from the ledger, written
  beside it. The closed list of alert kinds lacks two that are raised
  (`daemon_crashed`, `daemon_previous_unclean`), a matter of constants.
* The reread and `unlink` of a reclaimed receiver row seen by a third process that renames
  over the file in between, and a reclaim step that errors and is passed over.
* What a handler of a stopping daemon appends after its lock is gone: `DaemonLock` says that
  it may, `Ledger` has one process at a time.
* A durable row of the last life that was never synced, once it is loaded again
  (`Ledger` has the case, and no property promises anything of it).
* The MCP server and its protocol versions, the CLI, setup, doctor, overview and
  trace: adapters of one request to one control call, and readers.
* The update installer, a sequential script with a journal of its own: a crash between the
  two renames of a package leaves its path absent until somebody runs `--recover`.

## 6. What is left

No safety property of a passing run is without a proof. What would say more about the system:

* An abstract specification of `Targets`: who an alias is, and was, and who may speak as it.
* `OneDaemon` and `OneWriter` for a lock that is taken over by content and not by name and
  given up by the end of the process, which would hold for any number of callers and could
  be the basis of a correction.
* The same for the other claims of section 3 that are violated: each names the step after
  which a row or a file would have to come later, or be looked at again.
