# A TLA+ model of the messager broker

messager is a message broker: publishers call `Publish`, consumers hold a
bidirectional `Subscribe` stream, and every queue has a write-ahead log (WAL)
from which it is rebuilt at start-up. These modules model the log, the running
broker, its shutdown and the Node client, check them with TLC on small
instances, and prove the main properties with TLAPS for any number of messages
and consumers.

`PROJECT.json` lists, for every definition, the source lines it models.

## 1. The system

| Part | State | Operations | Talks to |
|---|---|---|---|
| `wal` (Writer, Reader, compactor) | the file, a temp file, the open handle | append (write, fsync), replay, Compact, Close | file system |
| `queue` (Manager, Topic) | FIFO per queue with a condition variable, `closing` flag | Enqueue, Dequeue, WriteTombstone, ExpireDLQOlderThan, Compact, BeginShutdown, Close, start-up replay | wal |
| `ackmgr` | map of in-flight messages | Register, Unregister, Ack, Nack, ScanAndTimeout, ExpireDLQInFlight, WaitDrained | queue, connmgr |
| `connmgr` | registered consumers, a counter and a bounded channel each | Register, Deregister, EligibleConsumers, Increment/DecrementInFlight | |
| `dispatcher` | one goroutine per queue and the message it holds | Run | queue, connmgr, ackmgr |
| `api` | dispatchers started; per stream a send, a recv and a drain loop | Publish, Subscribe | all of them |
| `retry`, `dlqttl` | none | a periodic scan each | ackmgr, queue |
| `cmd/broker` | the context, the signal goroutine, main's deferred calls | wiring, signal handling | all of them |
| `node-client`, `cmd/publisher`, `cmd/consumer` | map of open streams (node) | start, stop, answer | api |

A published message is logged, then queued. The dispatcher takes it, waits for
a consumer below its prefetch limit, counts a slot, registers the message as in
flight and puts it in the consumer's channel; the send loop forwards it. An ack
removes the entry, gives the slot back and logs a tombstone. A nack, a timeout
or a drained channel removes the entry, gives the slot back and enqueues the
message again with one more retry, or on `<queue>.dlq` once `MAX_RETRIES` is
reached.

What is hard here: these steps are separate critical sections, so goroutines
interleave between them; several parties go for one in-flight entry; a consumer
may leave between any two of the dispatcher's steps; a WAL write may fail, and
the process may end, between any two steps; torn bytes and temp files survive a
crash; at a shutdown logs are closed under goroutines that still run.
`PROJECT.json` lists these hazards, each at its line.

## 2. Modules

| Module | Content |
|---|---|
| `WalRecords` | log records and `Replay`, what reading a file back returns |
| `Wal` | one log: append, compaction, crash, restart |
| `Broker` | the running broker over one base queue and its dead-letter queues |
| `AtLeastOnce`, `BrokerContract` | what clients are promised, and `Broker` seen as an implementation of it |
| `Topic`, `Fifo` | one queue's mutex, condition variable and dispatcher start-up, and the FIFO they implement |
| `Shutdown` | `cmd/broker`: signal goroutine, gRPC server, main, composed with `Broker` |
| `NodeClient` | the HTTP front end `node-client` |
| `MCWal`, `MCBroker`, `MCTopic`, `MCShutdown`, `MCNodeClient` | instances for TLC |
| `WalRecordsProofs`, `WalProofs`, `TopicProofs`, `NodeClientProofs` | theorems on the module of that name |
| `BrokerProofs`, `MessageProofs`, `DeliveryProofs`, `SlotProofs` | theorems on `Broker`; the last one on `Shutdown` too |

How they fit together: `Wal` justifies the one-step log of `Broker`, `Topic`
justifies its one-step `Dequeue` (both implement `Fifo`), `AtLeastOnce` is what
is left of `Broker` for a client, and `Shutdown` runs `Broker`'s actions next to
the end of the process.

### Wal

`file` and `tmp` are sequences of records; `synced` is how much of `file` an
fsync has made durable. `Writer.mu` serialises append, Compact and Close, so one
`pc` says how far the holder is. Each system call that can fail or be the last
before a crash is an action. A crash keeps the synced records and any prefix of
the rest, its last record perhaps torn. `Torn` stands for bytes that `decode`
rejects; `Replay` stops at the first one, as the code does. A rename is taken as
durable at once: that holds when the process crashes; the code does not fsync
the directory, so after a power failure the old file may be back.

### Broker

Actions are what the code does between two lock operations. What a goroutine
still has to do for a message it has taken is a task in `work`, with the step it
is at: `dec` (give the slot back), `tomb`, or `enq`, `wal`, `topic` (the check of
`closing`, the log write and the in-memory append of `Manager.Enqueue`). A scan
that takes several entries works through its tasks one at a time, in any order
(Go's map order). A queue is its number of `.dlq` suffixes. The age of a message
is not modelled: a scan may find any set of entries too old. Payload, headers
and timestamps are left out, since no property tells them apart. A log is its
record sequence, each append and each compaction one step: `Wal` justifies that
for logs without torn bytes, and `EnqueueFails` and `WriteTombstoneFails` are
the appends that fail. Torn bytes themselves occur only in `Wal`.

Clients publish to any queue, dead-letter queues included, subscribe to any but the
deepest, and may answer with any message id, sent to them or not, while the recv
goroutine runs: `Ack` and `Nack` look up nothing but the id. They may stop reading
and keep the stream, or leave at any moment.

`settled`, `seen`, `acked`, `dead` and `lost` are history: ids with a tombstone
written or tried, ids sent to a client, ids whose in-flight entry an ack took, ids
that ran out of retries or were published to a dead-letter queue, ids whose enqueue
failed.

### AtLeastOnce

Sets and functions over message ids, no queues or goroutines. A message is
held from `Publish` on, may be delivered any number of times, is settled only
after an ack or as a dead letter, is dropped only when a log write has
failed or a shutdown has begun, and a restart holds again all that is owed. Under
`BrokerContract`'s mapping `live` is `Held`, and `trouble` is "a shutdown or a
failed write".

### Topic

`Enqueue` and `Close` change the topic under its lock and signal after the
unlock, so each is two actions. A dispatcher is in `initQueue`, about to lock, in
the wait list or busy with a message. `initQueue` may fail while the topic does
not exist. The refinement mapping makes the topic and all dispatcher goroutines
of its queue one FIFO with one server.

### Shutdown

`sig` is the signal goroutine, `main` the main goroutine from `Serve` to its return.
They are separate because `Serve` returns when the server has stopped, while the
signal goroutine goes on to `WaitDrained`. `shut` is the set of queues whose log is
closed: a write to one fails and leaves nothing behind. A queue that an `Enqueue` is
only about to open when `Manager.Close` runs (`Unopened`) may not be in it, since
nobody closes that log. Once a topic is closed and empty, or the context is done,
its dispatcher ends, undoing a registration it has made. A call may still arrive
until the server has stopped, since `GracefulStop` runs in a goroutine of its own.
The next process is `Broker`'s `CrashRestart`, which is not repeated here; the TTL
scanner is off in this module.

### NodeClient

JavaScript runs one handler, event or timer at a time, so each is one action and
`/publish` is one per await. Consumer ids are numbers, because a generated id can
equal one a request has given. The `end` event of a stream comes at any time after
its opening, also long after a cancel. The gRPC library and the HTTP server are
modelled as the code uses them: after `server.close` no request comes in.

Definitions marked "Variant" are deliberately wrong forms of the definition that
follows. They are not part of any specification; putting one in place of its
original shows which property notices.

## 3. Runs

| Run | Instance | Checks |
|---|---|---|
| `wal` | 2 ids, 4 appends, 2 crashes | `TypeOK`, `NoLossUnlessBuried`, `AckedStaysGone`, `CompactionNeutral` |
| `broker` | 2 messages, 2 consumers, prefetch 1, retries 0, TTL | `TypeOK`, `NothingForgotten`, `PrefetchRespected`, `NoSlotLeaked`, `OneCopy`, `DeadLetterFinal` |
| `life` | 1 message, 2 consumers, no prefetch request, retries 2, TTL, a consumer may serve the dead-letter queue, fair | `OneCopy`, `RetryCountKept`, `SettledWhenDue`, `EventuallyHandled` |
| `crash` | 1 message, 2 consumers, prefetch 2, retries 1, shutdown, 1 restart, 1 failing write | `NothingForgotten`, `PrefetchRespected`, `SlotsCovered`, `ImplementsAtLeastOnce` |
| `topic` | 3 messages, 2 subscribers, with and without a backlog, fair | `NoLostWakeup`, `OneDispatcher`, `ServedUnlessInitFailed`, `ImplementsFifo` |
| `shutdown` | 1 message, 1 consumer, prefetch 1, retries 1, two dead-letter queues, fair | `RedeliveredOnRestart`, `SlotsThroughShutdown`, `SignalEndsProcess` |
| `node_client` | 3 streams, 3 names, 1 publish request at a time of up to 2 messages, fair | `ListedIsRunning`, `UnlistedOnlyByReuse`, `ShutdownExits` |

Five more runs show where the code and its documentation disagree. TLC finds
each of these properties violated; the findings in `PROJECT.json` quote the text.

| Run | What happens |
|---|---|
| `wal_loss` | a record appended behind torn bytes is confirmed and never replayed |
| `dead_letter_restart` | a dead-lettered message is back on its main queue after a restart |
| `slot_leak` | two replayed copies of an id overwrite each other's entry and a slot is lost |
| `failed_requeue` | a failing log write during a nack leaves the message nowhere in memory |
| `shutdown_drain` | the logs are closed while `WaitDrained` still waits for messages in flight |

`DeadLetterFinal` and `NoSlotLeaked` hold without a restart and fail with one, for
one reason: a retry or a dead-letter copy is logged and the earlier record is not
tombstoned, so a restart finds both. `OneCopy` and `RetryCountKept` are for that
reason stated of one process only. `shutdown_drain` breaks an order the code
announces, but no promise to clients: `RedeliveredOnRestart` holds.

Visible in the model, without a run of their own:

- A message is delivered `MAX_RETRIES` + 1 times before it is dead-lettered, while
  the repository's README calls `MAX_RETRIES` the maximum of delivery attempts.
- `docs/connection-manager.md` says of the dispatcher that it "just drops a message
  into the channel and moves on". After a timeout the slot is free while the message
  is still in the channel, so `Send` may find the channel full and wait.
- `ServedUnlessInitFailed` needs its exception: a queue whose `initQueue` failed
  once in `Dequeue` is not served again by the process, although
  `Manager.Dequeue` says it returns false only at a shutdown.
- `UnlistedOnlyByReuse` needs its exception: after a stop and a quick start under
  one id, the late `end` event of the first stream removes the second from the map.
  `docs/stress-dashboard-plan.md` calls `/status` a snapshot of "all consumers".

**Bounds.** Two consumers let one take over what another lost; two messages let one
block the other and fill a channel of capacity one. One restart is enough for
several copies of an id, and prefetch 2 for one consumer to be given both, so that
the second overwrites the entry of the first. In `life`, two retries let a message
wait behind a dispatcher that waits for room. Four appends are a message, its
tombstone, and one record on either side of a crash. `MaxDepth` is the deepest
dead-letter queue; nobody subscribes to it, so the model never has to go deeper.
Three streams are an old one, its successor under the same id and a bystander. In
`shutdown`, one retry lets a message time out in a channel and come back, which is
how a dispatcher gets to wait for room when the context is cancelled. With a second
consumer the liveness check takes too long: that another queue's dispatcher has
registered the id again when `Unregister` runs is covered by the theorem
`SlotsUntilExit`. Messages and consumers are interchangeable, so safety runs of
`Broker` and `Wal` use symmetry except `wal_loss`; runs with a liveness property use
none.

**Deadlock.** Instances with finitely many messages and consumers really stop when
they are used up, the dispatcher of an empty topic waits, and `Shutdown` and
`NodeClient` end with the process, so the deadlock check is off. It is on in the
runs `broker` and `crash`, but says nothing there: with `CanCompact` a compaction
is always possible.

**Fairness.** A goroutine that can run does run.

- `life`: dispatchers, tasks, drains and the timeout scanner, which runs on a ticker,
  so an unanswered message is found in the end. `stream.Send` may block for as long
  as a client keeps its stream and does not read; nothing is assumed of clients.
  `EventuallyHandled` names what it needs of them as premises: some consumer stays
  on the queue (`Served`), and those that stay read (`ClientsRead`). They need not
  answer. Without `ClientsRead` it fails: after a timeout the slot of a consumer is
  free while its channel is full, the dispatcher chooses it and waits, and its queue
  with it. `docs/stress-dashboard-plan.md` lists this: "slow consumer blocks
  dispatcher".
- `topic`: a call of `Signal` or `Broadcast` is made, and a dispatcher in `Dequeue`
  goes on; nothing is assumed of publishers or of how long a message is held.
- `shutdown`: the timer of `SHUTDOWN_TIMEOUT` fires and main goes on. No fairness
  of handlers, of `WaitDrained` or of clients.
- `node_client`: every `Publish` call gets an answer or an error, which the code
  leaves to the gRPC library and the broker (`publishOne` sets no deadline), and the
  HTTP server closes connections without a request. Nothing is assumed of streams.

## 4. Proofs

The theorems hold for every value of the constants that satisfies the `ASSUME`
of the module (`WalConstants`, `BrokerConstants`, `TopicConstants`, `ClientConstants`:
only types, and at least one dead-letter queue).

- `WalRecordsProofs!ReplayIdempotent`: a replayed log replays to itself. The module
  also has the lemmas on `Select` that the others use.
- `WalProofs`: `TypeCorrect`, `ConfirmedNeverLost`, `AckedNeverReplayed`,
  `CompactionIsNeutral`. The properties speak of what a replay returns; the
  inductive invariant `IInv` speaks of the file. It adds that `tmp` is a prefix of
  the replay while copying, and all of it once copied (`CopyInv`); that nothing
  readable stands behind torn bytes (`TornInv`); that a tombstone in the file was
  asked for (`TombInv`); that the record being written is the last one
  (`WrittenInv`); and that confirmed records and tombstones are in the synced part
  (`DurableInv`, `DeadInv`), which is what a crash keeps.
- `BrokerProofs!TypeCorrect`. `TypeOK` is inductive together with `DepthInv`: a
  message is in the queue its field names, and nothing is dispatched from the
  deepest queue, so there is always a queue to dead-letter into.
- `BrokerProofs!PrefetchNeverExceeded`. The dispatcher checks and counts in two
  steps. The strengthening `EligInv` says that what it found stays true in
  between: only the dispatcher of a consumer's own queue raises its counter.
- `MessageProofs!OneCopyUntilRestart`. `OnceInv` splits "one copy" by place (topics,
  dispatchers, tasks) and says the places are apart; every step moves a copy, and
  whoever takes the in-flight entry is the only owner. It rests on `MsgInv`: every
  message anywhere, logs included, was published, and what is in a dead-letter queue
  is out of retries or was published there.
- `DeliveryProofs!PublishedNeverForgotten`, the at-least-once guarantee. In the
  running process a message moves from holder to holder. For a restart the
  invariant adds, in `BrokerProofs`, that a published, unsettled message has a
  record in some log (`PublishedInLog`), that a tombstone is only ever of a
  settled id (`TombstonesSettled`), and that an entry is filed under its message's
  id (`KeyInv`).
- `DeliveryProofs!SettlesOnlyWhatIsDue`. `DueInv` adds to `MsgInv` that a task
  on its way to a tombstone is of an id whose entry an ack took or, with a TTL, of a
  dead letter. Nothing is assumed of the ids that clients name: an ack of an id that
  is not in flight takes nothing.
- `DeliveryProofs!BrokerImplementsContract`: `Broker` refines `AtLeastOnce`. Each
  action is shown to be one step of the contract or a stutter, from the invariants
  above.
- `DeliveryProofs`: `RetriesKeptUntilRestart`, `DeadLettersFinalUntilRestart`.
  `AheadInv` says the one copy is at or beyond every record of its id, in queue
  depth and retry count; a retry or a dead-letter copy is logged by the owner
  itself, so no other copy is left behind. Like `OneCopyUntilRestart` they end with
  the first restart, where the runs show them to fail.
- `SlotProofs`: `CounterCoversSlots`, `NoSlotLeakedUntilRestart`,
  `InFlightWithinLimit`. `Spare` is what a consumer's counter says beyond the
  entries, the tasks still to count down and the dispatchers about to register that
  hold its slots. Every step but a restart keeps `Spare` of a registered consumer, or
  raises it: taking entries turns each into a task, so the two sets together keep
  their size, unless two copies of one id collide (`MovedSlots`). With `OnceInv`
  nothing collides and `Spare` stays 0. After a restart copies may collide; `Spare`
  is then positive, a slot is lost (the run `slot_leak`), but the counter still
  covers the slots, and with the prefetch bound no consumer has more messages in
  flight than it asked for. `SlotInv` adds that the sets are finite and that a
  consumer yet to register has no slots.
- `SlotProofs`, for `Shutdown`: `RestartRedelivers`, `SlotsUntilExit`. Every step is
  a step of `Broker`, one of the steps a shutdown adds, or the exit
  (`ShutdownCases`). The added ones only take away (`TakenAway`): a failed write
  drops a task, a stopping dispatcher drops its message, and the logs stay as they
  are. So the invariants of `Broker` carry over (`CloseInv`). `UndoInv` replaces
  "`Spare` is 0" by "`Spare` is the number of dispatchers giving a slot back":
  `Unregister` moves an entry to that set, also an entry it did not make.
- `TopicProofs`: `WakeupNeverLost`, `AtMostOneDispatcher`, `DispatcherKeepsServing`
  from the inductive `TopicInv`, and `TopicTakesFifoSteps`, the safety part of
  `ImplementsFifo`.
- `NodeClientProofs`: `ListedAlwaysRuns`, `LosesTrackOnlyByReuse`, together the
  inductive `ClientInv` with the types of streams. A start appends a stream whose
  number no entry has; a late `end` removes only the entry of an id that the ended
  stream shares.

Only model-checked: liveness under fairness, which is beyond the prover
(`EventuallyHandled`, `SignalEndsProcess`, `ShutdownExits`, and the fairness of
`Fifo` in `ImplementsFifo`). The theorems on `OneCopy`, `RetryCountKept`,
`DeadLetterFinal` and `NoSlotLeaked` say "until a restart" by `crashes = 0`; the
runs that check them have `MaxCrashes` 0.

## 5. Not modelled

- Torn bytes in the composed system: `Broker` takes the logs to be without them.
- The command-line clients: they publish in a loop, or answer every message until
  they stop. What they do is among what `Broker`'s clients may do.
- Generated code and scripts.
- A start-up that fails, and a power failure that undoes a rename.
- Message age, payload, the byte layout of records, order contents of the Node
  client and its read-only routes.
