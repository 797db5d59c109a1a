# Formal models of 4bit.api

TLA+ models of the 4bit.api server and of its stream client: the camera poller and its
workers, the HTTP handlers that read and write cameras, nodes and node states, the
watcher that keeps the certificate revocation list (CRL) up to date and the handshakes
that use the list, the Telegram bot and message handler, and the client's stream command
with the handler that serves it. TLC checks small instances; TLAPS proves the safety
properties of these components, and the refinements between them, for every value of the
constants.

Paths are relative to the repository (`src/`). The repository has no tests, so code
and comments are the only reference.

## 1. The system

One Go process (`4bit server`) with a PostgreSQL database, mutual-TLS HTTP clients, a
Telegram bot, and cameras that serve an endless HTTP stream of images. A second binary
(`client/`) is a command-line client.

| Component | State | Operations | Talks to |
|---|---|---|---|
| Camera poller, `pkg/camera/poller.go` | `cameras` (copy of the table), `PollWorkers` and `workerCtxCancelMp` (both by IP), `ShouldUpdateEntries`, `IsRunning` | `NewCameraPoller`, `UpdateStatus`, `StartPolling`, the loop of `updateWorkerStatus` (one goroutine, one tick per second) | reads the camera table; creates, starts and cancels workers |
| Poll worker, `pkg/camera/worker.go` | `lastReadData`, `lastUpdated` under a mutex; `IsRunning`; two contexts, a deadline timer, a client timeout | `Start`, `poll` (a goroutine), `cleanup`, `GetSnapshot` | camera's stream; read by handlers and bot |
| Camera registry, `server/route/camera/camera.go:19-241` | tables of cameras and adjustments | `POST /camera/add`, `POST /camera/remove` (a goroutine per request, several database calls, no transaction) | sets the poller's flag |
| Camera images, `camera.go:243-438`, `server/route/telegram/bot.go:76-97` | none of their own | `GET /camera/snap`, `GET /camera/subscribe` (10 ms ticker), the bot's `/snap` | range over `PollWorkers` without a lock; `GetSnapshot` |
| Node registry, `server/route/node/`, `database/node*.go` | tables of nodes, barometer and power states | GET and POST of `/node` and `/node/state`; the client is known by its certificate's fingerprint | database |
| CRL cache, `internal/server_crl`, `utils/filewatcher` | `CachedCaCrl`; the watcher's last stat; an unbuffered channel | `Init`, `LoadCACrl`, `ListenForCACrlChanges`, `watchFile` | CRL file; read by every handshake |
| Server, `server/server.go`, `server/route/root.go` | certificate pool, a map of revoked serials | `Run`, the `VerifyPeerCertificate` callback | CRL cache, all routes |
| Process, `cmd/`, `main.go`, `internal/config` | root context, flags | start-up order, SIGINT, exit after one second | everything |
| Telegram bot and `POST /telegram/message` | `BOT`, command map | polling loop, dispatch, two sends per message | poller, parking, Telegram |
| Parking, `server/route/parking` | none | latest barometer row; altitude to floor | database, bot |
| List, ping, logging | none | `GET /camera/list`, `GET /ping` | database |
| Client, `client/`, `internal/client` | HTTP client; the stream window and its wait group | one request per command; `stream_cameras` | server |
| Helpers, scripts | none | PEM, file existence, build, certificates | |

### What is hard, and what makes each component correct

* **Poller.** Its goroutine, the workers' and the handlers' share `IsRunning`,
  `ShouldUpdateEntries` and the maps without locks. It is correct if the two maps agree
  (otherwise it calls a nil function), a worker never has two goroutines, nothing it
  removed keeps streaming, a tick makes the map match the list, and every camera of the
  table is polled in the end.
* **Worker.** A snapshot must be of one frame although image and time are two writes; a
  stream that goes silent blocks `image.Decode`, where no context is looked at.
* **Camera registry.** Sequences of calls without a transaction, unique key or foreign
  key, interleaved with each other, with failing calls and with the poller's query:
  addresses unique, each camera with an adjustment of its own, no acknowledged change
  hidden from the poller.
* **Images.** A loop over a map that another goroutine changes: complete and fresh
  responses, a process that survives.
* **Node registry.** States stored for the node that sent them, never acknowledged
  unless stored, one node per fingerprint.
* **CRL and handshakes.** A change between any two of stat, notification, read and parse
  must reach the cache; nobody is let in who is on the list in force, although the list is
  exchanged, broken or missing during a handshake and the callbacks share a map without a
  lock.
* **Telegram.** The service confirms an update when it has been buffered, not when it has
  been answered, and its calls fail with or without effect: answers in order and never
  twice from one process, a bounded loss over restarts, no 200 for a message that is not
  in the chat.
* **Stream client.** Three goroutines (GTK loop, decoder, SIGINT) end one another by
  channels, a wait group and the queue of GTK events: whichever begins, the process must
  end, and the handler in the server with it.

`PROJECT.json` lists the hazards line by line with the properties that cover them.

## 2. The modules

| Module | Models | Extends |
|---|---|---|
| `CameraPoller` | poller, and the life cycle of the workers | |
| `FrameStore` | one worker: frames, mutex, deadline, readers | |
| `LatestFrame` | abstract: an atomic register of the latest frame | |
| `PollWorker` | abstract: the life of one worker, as poller and goroutine see it | |
| `CameraRegistry` | add and remove handlers, tables, the poller's query | |
| `CameraSystem` | handlers, poller and workers in one process | `CameraRegistry`; instance of `CameraPoller` |
| `CameraService` | snap, subscribe and bot against the poller's map writes | |
| `NodeRegistry` | handlers of `/node` and `/node/state` | |
| `CrlWatcher` | listener and watcher goroutines and the file | |
| `PeerVerification` | the handshakes over the list | `CrlWatcher` |
| `TelegramBot` | bot loop, start-up order, `POST /telegram/message` | |
| `StreamClient` | the stream command, and the handler of its stream | |
| `MC*` | sets, symmetries and restricted initial states for TLC | its component |
| `*Proofs` | inductive invariants, lemmas, theorems | its component, `TLAPS`; `CameraRegistryProofs` also has `CameraSystem` |

The modules fit together at six interfaces. Two are compositions, one is a pair of
refinements of one abstract module; the others are modelled in full on one side and by
what the other side can observe on the other:

* *`CachedCaCrl`*: `PeerVerification` extends `CrlWatcher` and interleaves its goroutines
  with the handshakes, which read the cache it keeps;
* *table and flag*: `CameraRegistry` has the handlers in full and reduces the poller to
  its query; `CameraPoller` has the poller in full and reduces a handler to a commit
  followed, some time later, by the flag; `CameraSystem` has both in full, and implements
  both;
* *poller and worker*: `PollWorker` says what a poller may do to a worker and a worker's
  goroutine of itself. `CameraPoller` implements it for each of its workers, whose
  goroutines it has in outline; `FrameStore` implements it with the goroutine in full;
* *`PollWorkers`*: `CameraPoller` says what is written, `CameraService` who reads it,
  with any order of inserts and deletes;
* *`GetSnapshot`*: `FrameStore` proves that a worker is the register `LatestFrame`;
  `CameraService` uses workers as such registers, read in one step;
* *the stream*: `CameraService` has what a subscriber is sent, `StreamClient` how the
  stream begins, is read and ends.

Definitions named `...Unchecked`, `...Racy` and the like, commented "Mutant of", are
plausible slips of the definition that follows them; nothing uses them. They exist to
show that the properties notice.

### CameraPoller

`pc` is where `updateWorkerStatus` is: `first` and `select` at the select, `refresh` in
`UpdateStatus`, `ensure` in the loop over `cameras` (`todo` is what is left of it),
`reap` in the loop over `PollWorkers` (`keys`). One iteration of a loop is one step, so
goroutines and handlers run in between. `Workers` are heap objects; `CreateWorker` takes
a free one. `polls[w]` counts the goroutines of `w` in `dial`, at the `select` and in
`decode`, up to their `cleanup`: that there is never more than one is a property, not built
in. (After `cleanup` comes the deferred `Body.Close`, which touches nothing of the worker; a
goroutine still at it may meet the next one.) Go's `select`
takes any ready case; `default` only if none is. `ProcessDies` may happen anywhere and
loses all but the table (`Forget`); `Init` starts with any table, left by an earlier run.
A row is a member of `Entry`, of which the poller reads the address alone and copies the
rest into a worker. `AddEntry` and `RemoveEntries` are all it sees of a handler: the second
may delete nothing (two handlers found the same row), and one whose answer was lost is a
handler that owes the flag for good.
`ShouldUpdateEntries` is never cleared in the code, and so not in the model. The data
race on `IsRunning` is the interleaving of single reads and writes.

### FrameStore and LatestFrame

The two fields are written and copied one at a time under `mutex`, whose value is its
holder. The body is abstracted to `silent` or not, the deadline to a timer `armed` or
not and the cancelled `deadline` context; `timer.Reset` re-arms a timer that has fired,
but a cancelled context stays cancelled, as in Go. A frame "takes place" in `LatestFrame`
when `lastUpdated` is written (`Register == INSTANCE LatestFrame WITH latest <-
lastUpdated`); no reader can hold the lock between the two writes. `cancelled` is the
worker's own context, which its poller cancels at most once and never starts it again
after; `rootDone` is the root context, at which `Start` does not look. To `PollWorker`
(`Life`), the store of a frame is part of decoding it.

### CameraRegistry and NodeRegistry

One step per database call. A call may go well (`Succeed`), fail without effect
(`Refuse`), or have its effect and lose its answer (`LoseAnswer`). `Select` into a struct
needs exactly one row, so "not found", "found twice" and "connection lost" are the same
error to the code, and the model keeps them so. `Restart` drops every handler and keeps
the tables. In `CameraRegistry` `id` and `adj` are the fields of the request's struct that
the lookup fills in. `NodeRegistry` also keeps what clients were told (`registered`
and `acked`). Requests that fail to parse change nothing and are left out; requests
that send an `Id` or `AdjustmentId` are not in the input set.

`refused`, `lost`, `restarts` and `overlapped` record what has gone wrong so far. They
allow one model to say both what always holds and what holds only under a condition: the
code makes some promises for handlers that do not overlap, and some for calls that do not
fail.

### CameraSystem

The variables of `CameraRegistry`, and those of `CameraPoller` it does not share: `L` is
`CameraPoller` on the handlers' table (`rows <- cams`), list (`cameras <- loaded`) and flag,
with `unsignalled <- owed`. A step is one of a handler under the poller's guard (the server
listens while the poller is up), which counts in `owed` if it is one of the two that commit
a change of the table (`Commit`) and out if it sets the flag (`SetFlag`); or one of the
poller or a worker. `CameraPoller`'s `Refresh` is two here (`QueryAnswered`, `QueryStored`), so that
handlers may commit between the database's answer and the assignment of the list.
`ProcessDies` takes everything but the tables; `CameraRegistry`'s `Restart`, in which the
next process reads the table, is then the end of the old process and the next `Boot`, with
nobody to write the table in between. The refinement to `CameraPoller` (`P`) takes the list
for assigned when it is answered.

### CameraService

`Readers` are goroutines, each serving one request after the other of the `Kinds` that an
instance allows; the bot takes one message at a time. A write of the map is an interval
(`writing`). An access inside it finds the map as it
was, or the runtime notices and ends the process (`RaceDetected`). A range loop yields
every key that stays, may skip one that is inserted, never yields one that is gone, and
may yield one again that was removed and came back: so the Go specification has it.
`always`, `ever` and `before` are history variables: the keys present for the whole of a
response, those present at some time of it, and the frames at its start.

### CrlWatcher and PeerVerification

A version of the file is the number of the write that made it and its content; an
in-place write passes through a content that does not parse, a replacement through
absence. Size and modification time tell any two writes apart (two writes
of the same size within one clock tick of the file system are not modelled). A file that is
there may still fail to be read or to have its stat taken (permissions, open files, I/O), so
`Read`, `FirstStat` and `PollStat` may each fail at any time. `missed` is the version at
which the last `ReadFile` failed: as the watcher has taken that version's stat, nothing
reads it again, and the properties have to name this exception (`InForce`).
`QuietStart` keeps the file unchanged until the watcher has its first stat.
`FileWatcher.Close` is not modelled: its only call is deferred by a loop that ends only
after `Close`.

A handshake reads `CachedCaCrl` once (`Begin`), checks the list's signature, and looks its
chain up certificate by certificate, in `revokedCerts` and in the list. `Signed` says
which writes carry a list that a trusted authority has signed, `Revoked` what is on each.
The map is not locked: the assignment is an interval (`pc = "store"`), and an access of
another handshake inside it may end the process (`RaceDetected`). A nil list panics in
`CheckCRLSignature`, which `net/http` recovers per connection, so the connection is closed
(`NoList`). Expired certificates and chains that do not verify never reach the callback.

### TelegramBot

`phase` is how far `handleServerCmd` is: the bot's goroutine is started before the
database and the poller exist. `confirmed`, `fetched`, `offset` and `current` are the
update up to which the service forgets, the last one returned by a call, the last one in
the channel, and the one in hand; the first survives the process. A send posts or not,
and says so or not (`Send`); the bot ignores what it says, the handler of
`POST /telegram/message` answers 400. `Boot` starts the process again, whatever ended it.
The service's limit of 100 updates per call and its forgetting of old ones are left out.

### StreamClient

`main`, `viewer` and the goroutine of SIGINT (`Interrupt`, `Return`) are the client;
`window` is the window's state and `"closing"` the event that `win.Close` queues, which
only `gtk.Main` takes. `wg` may fall below zero, which panics. `wire` holds the parts
between handler and decoder, no more than `Capacity`; a full one blocks the handler's
write.

`handler` is at its select, before `CreatePart` or before the write of a part. A write may
block (`WritePart` has room, `WriteLost` a buffer left), and one that fails (`WriteFails`) is
only logged. What ends the loop is the context, which the select may pass over as long as
the ticker is ready, or `CreatePart`, once the error has reached the response's own buffer:
`response` is `"failing"` while only the connection's buffer knows of it, so that one more
part may be created in between. `expired` is the pair of timeouts of `http.Server`, five
minutes from the request on: after them writes fail, blocked ones too, and the background
read of the connection ends, which cancels the context (`NoticeDeparture`).

Of `framing`, the client's decoder assumes `"json"`, while this repository's handler
sends `"multipart"`; the passing run has both, so that the termination is examined for a
stream that can be decoded as well. No file of the repository calls the client's
`Execute`; it is taken to be called once, as that of the server is. GTK calls from another
goroutine than GTK's own are taken to be safe.

## 3. What the runs check

| Run | Properties | Shows |
|---|---|---|
| `poller` | `WorkersAreLives`, `CancelFuncsInSync`, `OnePoll`, `NoLeakedWorker`, `TickApplied`, `CancelledNeverStarted`, `AddedGetsPolled`, `RemovedStopsStreaming` | the safety of the reconciliation loop, down to what each worker may take for granted, over failed refreshes and the end of the process; what is in the table is polled, what is not stops |
| `frames` | `SnapshotConsistent`, `DeadlineSet`, `IsLatestFrame`, `IsPollWorker`, `SilentCameraReleased`, `SnapshotReturns` | no torn snapshot, no connection without a deadline; the worker implements the register, and the life the poller counts on; the one-minute client timeout frees a worker that the deadline cannot; readers are never stuck |
| `system` | `OwnAdjustment`, `RemoveEffective`, `ChangeSignalled`, `UniqueUnlessRaced`, `NoOrphans`, `PollerImplemented` | what survives overlap, faults and restarts; no change whose answer came is hidden from the poller; what handlers keep that do not overlap; handlers, poller and worker in one process are, to the poller, what `CameraPoller` has |
| `service` | `ResponseComplete`, `ResponseFresh` | responses over a changing map |
| `nodes` | `StatesOfSender`, `AckedStatesStored`, `NoPowerWithoutBarometer`, `RegisteredIsFound` | states under overlap, faults and restarts; a lost answer is retried without harm if handlers do not overlap |
| `crl` | `NoChangeLost`, `AcceptedAgainstSignedList`, `SettledListEnforced`, `CacheFromSignedLists`, `FatalNeedsRevocation`, `ServedUpdateReachesCache` | after a quiet start every list that can be read when it is found reaches the cache while the watcher lives, and every handshake that begins afterwards is held against it; nobody gets in during an exchange, with a broken list, or through another handshake's entry |
| `telegram` | `RepliesInOrder`, `LossBounded`, `OkMeansDelivered`, `CommandHandled` | the bot neither repeats itself nor stops at a failure; restarts lose a bounded number of messages; a 200 is not said too early |
| `stream` | `WaitsForViewer`, `PanicsOnlyUncounted`, `CommandEnds`, `SubscriberReleased` | any of window, stream and signal ends the command, in the order it is meant to; the handler of a subscriber that is gone ends, though its write may block and its errors be only logged |

The type invariants of all modules are theorems and not in the runs, whose properties are
what could go wrong otherwise.

Runs that find what the code does against what its comments say:

| Run | Property | What happens |
|---|---|---|
| `poller_entries` | `WorkersMatchEntries` | removed and re-added with another port between two ticks, a camera keeps its old stream URL (`poller.go:107`) |
| `registry_race` | `UniqueIp` | two overlapping adds insert the address twice (`camera.go:85`) |
| `service_race` | `ProcessSurvives` | unsynchronised map access may end the process (`camera.go:374`, `poller.go:124`) |
| `stream_format` | `EndsOnlyWhenBroken` | the JSON decoder takes the first multipart boundary for a broken stream (`stream_cameras.go:118`, `camera.go:334`) |

More disagreements, without a run of their own:

* any error of the lookup in `POST /camera/add` counts as "does not exist", so a lookup
  that fails inserts a duplicate (`camera.go:85`, `LookupMissing`): why
  `UniqueUnlessRaced` asks for `refused = 0`;
* two overlapping `POST /node` of one certificate create two nodes (`node.go:65`), after
  which neither is found: why `RegisteredIsFound` asks for `~overlapped`;
* the bot may take `/snap` before the poller exists and dereference nil (`bot.go:82`,
  `cmd/server.go:32`, `BotTooEarly` and `TooEarly`): `ProcessSurvives` fails with
  `Kinds = {"bot"}` too. What killed the process is not confirmed, so the next process may
  meet it as early;
* a CRL written between `Init`'s load and the watcher's first stat is taken for the initial
  state (`filewatcher.go:17`): `NoChangeLost` fails with `QuietStart = FALSE`;
* a stat that fails, as while the file is replaced, ends the watching silently
  (`filewatcher.go:26`), while `crl.go:33` says that the list is updated "when the file is
  modified": why `ServedUpdateReachesCache` excepts a dead watcher;
* a read that fails although the list is there (`crl.go:58`) is logged and not repeated, as
  the watcher has taken the new stat (`filewatcher.go:34`): the cache keeps the older list,
  and a peer that the new one bars is let in, until the file is written again. The same
  comment at `crl.go:33` has no such exception; `NoChangeLost`, `SettledListEnforced` and
  `ServedUpdateReachesCache` name it (`missed`) and fail without it;
* the timeouts of the server (`server.go:138`) end every stream after five minutes, one in
  use too, while `camera.go:326` calls it continuous and `camera.go:329` keeps the connection
  open;
* the ticker of a subscription is not stopped when its handler returns (`camera.go:423`): with
  the Go version of `go.mod` it ticks for the life of the process;
* a missing limit of `GET /node/state` is a nil pointer through which "Set defaults"
  (`state.go:44`) assigns: the handler panics;
* `wg.Add(1)` comes after the goroutine that counts down is started
  (`stream_cameras.go:221`): a stream that ends in between panics (`Uncount`);
* a revoked serial is never looked up again (`server.go:72`, "to save on compute"), so one
  that a newer list takes back stays barred until the server restarts;
* `camera --snapshot` without an address names files by the cameras' names, which need not
  be unique (`snapshot_cameras.go:71`).

### Bounds

* `CameraPoller`: two addresses and two ports give duplicates of an address and changed
  ports; of two worker objects one may be reaped and still running while its successor
  starts; two changes allow remove and re-add. The run starts from one table of each kind
  (none, one row, two of an address, two addresses), which stand for all by permutation. A
  restart empties all but the table, and every table is an initial one, so one boot is
  enough; the theorems are about any number.
* `FrameStore`: two readers contend with each other and the writer; with two frames after
  the empty image a reader may be two frames behind.
* `CameraSystem`: one address, at which all of the registry's races are; two handlers, four
  requests (add, overlapping add, remove, re-add), one failing call and one restart; one
  worker, so that an address that comes back meets its old goroutine; keys for two rows and
  three adjustments. Two addresses and more handlers and workers are in `CameraPoller`'s run
  and the theorems. `registry_race` needs two handlers, two requests and nothing that fails.
* `NodeRegistry`: two certificates, two handlers, four requests (register, retry and two
  states), one failing call, one restart.
* `CameraService`: one reader of any kind, for readers do not affect each other; two
  addresses, two generations of a worker for an address (removed, added again), one frame.
  `service_race` needs one address and one worker.
* `PeerVerification`: two handshakes race for the map; two serials make a chain of which
  one is revoked; three writes put a list, a half-written file or an absence, and a list
  again behind a pending notification, and pass from a list that revokes `s1` to one that
  takes it back and to one that nobody trusted has signed.
* `TelegramBot`: three messages fill the channel of one, the bot's hand and what is not
  fetched; one failing call, one restart (for the bot alone, as the handler shares nothing
  with it but the process); one message handler, as handlers do not affect each other.
* `StreamClient`: two parts, so that the handler can be blocked or ahead; nothing else is
  bounded.

`CHECK_DEADLOCK FALSE` is set where the system may really stop (the process has ended,
the server has given up) or where a bound on changes or requests leaves nothing to do.
Symmetry is used in safety runs only.

### Fairness

Nothing is assumed of users, clients, cameras, signals or the file's writers.

* Poller: a handler that has committed and been told so goes on to set the flag (which a lost
  answer prevents: the hazard at `camera.go:126`); the ticker ticks; the
  database answers a query sooner or later (strong fairness of `Refresh` over its
  failures); a dial and a read end, at the latest by the client's `Timeout` of a minute.
* Worker: timers fire; a goroutine that can move moves; a `sync.Mutex` that is released
  again and again is obtained (its starvation mode), hence strong fairness of the two
  lock steps.
* CRL: both goroutines go on; `Sleep` ends. No handshake has to go on.
* Bot: the library's goroutine and the bot's go on, whatever becomes of the main one;
  calls of the service end, well or not. `MaxFaults` bounds the failures, so that a
  service that never answers is not taken for a failure of the bot.
* Stream: the goroutines of the client and the handler go on, and a process that has set its
  one-second timer ends. Nobody has to close the window. The handler's writes end if there is
  room, past the deadline, or after an earlier error, which the buffers of `net/http` repeat;
  that a write to a client that is gone fails any earlier, that its departure is noticed, or
  that the select takes the context's case, is not assumed. The five minutes pass: assumed
  only once the client is gone, so that `CommandEnds` does not count on them.

## 4. What is proved

All theorems hold for every value of the constants that satisfies the named ASSUMEs (a
`None` that is none of the values it is told from, naturals as bounds): any number
of addresses, workers, handlers, readers, faults and restarts. Each follows from an
inductive invariant: `IInv`, by `InitIInv`, one lemma per group of actions, and
`THEOREM Invariant`; the two about handlers that do not overlap from a second one,
`SeqInv`, that is inductive given the types.

* **`CameraPollerProofs`**: `TypeCorrect`, `CancelFuncsSynced`, `SinglePoll`, `NoLeak`,
  `TickSound`, `CancelledStaysStopped`. `SinglePoll` alone is not inductive: a worker
  registered under two addresses could be cancelled under one and restarted under the
  other. `IInv` adds that addresses do not share workers (`Distinct`), that registered
  workers are not cancelled (`RegisteredAlive`), and what each loop has achieved so far
  (`EnsureProgress`, `ReapProgress`), from which `TickSound` follows at the loops' ends.
  `ImplementsPollWorkers`, for `WorkersAreLives`: a goroutine count that is one at one place
  and zero elsewhere is a place (`OnlyAt`, `Nowhere`), and each step of poller, goroutine and
  process is a step of `PollWorker` or a stutter for every worker (`NextLives`). It takes
  `RegisteredAlive` to see that a worker is not started once cancelled, and `OnePoll` that
  an object that is used again has ended.
* **`FrameStoreProofs`**: `TypeCorrect`, `SnapshotsConsistent`, `DeadlineAlwaysSet`,
  `ImplementsLatestFrame`, and `ImplementsPollWorker`. The argument is mutual exclusion (`Exclusion`), that the two
  fields agree unless the writer is between its writes (`FieldsAgree`), and that a reader
  with half a copy still sees the image it copied (`CopyCurrent`). For the refinement,
  every step is a `Store`, a `GetSnapshot` or a stutter of the register; for the other, a step
  of `PollWorker`, where the steps of readers, timers and camera stutter.
* **`CameraRegistryProofs`**: `TypeCorrect`, `CamerasOwnAdjustments`,
  `RemovesAreEffective`. The keys come from a sequence that is ahead of all in use
  (`SequenceAhead`); an adjustment that waits for its camera belongs to one handler and no
  remover is after it (`Reserved`); a remover about to delete covers every camera with
  its adjustment (`DeleteCovers`). `SequentiallyUnique`, for `UniqueUnlessRaced`: as long
  as handlers have not overlapped there is one under way at most (`Alone`), and what its
  lookup did not find is still not there when it inserts (`LookupCurrent`); lost answers
  and restarts do no harm, for the next lookup sees what was committed.
  `ChangesAreSignalled`, for `ChangeSignalled`: the flag is never cleared, so a query that
  missed a commit is followed by another (`QueryFollowed`). `SequentiallyClean`, for
  `NoOrphans`: as long as nothing has gone wrong, every adjustment is a camera's or in the
  hands of the one handler that will store it or remove it (`Balanced`).
  Of `CameraSystem`: `ImplementsRegistry` says that every behaviour of the system is one of
  `CameraRegistry`, for which the list in memory has to be the table while the process is
  down (`DownCurrent`); `SystemKeepsTable` takes the five invariants over. `ImplementsPoller`
  says that it is one of `CameraPoller`: a query is under way only in `UpdateStatus`
  (`QueryInRefresh`), and there are no more handlers about to set the flag than commits that
  owe it (`FlagOwed`, by cardinality), so that none sets a flag nobody owed.
  `SystemPollsSafely` then takes over what `CameraPollerProofs` shows, by an instance of that
  module under the refinement mapping (`PP`).
* **`CameraServiceProofs`**: `TypeCorrect`, `ResponsesComplete`, `ResponsesFresh`. What a
  range loop has met and was asked for is answered or in hand (`VisitedAnswered`), what
  it took was tracked at the time (`InHand`, `EverTracked`), and frames only get newer
  (`FramesFresh`).
* **`NodeRegistryProofs`**: `TypeCorrect`, `StatesBelongToSenders`,
  `AckedStatesAreStored`, `PartialFailureOrder`, from what a handler knows at each call
  (`Identified`, `StoredSoFar`). `SequentiallyFound`, for `RegisteredIsFound`: `Alone` and
  `LookupCurrent` as above give one node for a certificate (`OnePerCert`), and who was told
  of a node has one whatever happens (`RegisteredStored`).
* **`PeerVerificationProofs`**, of `CrlWatcher`: `TypeCorrect`, and `ChangesKept`, under
  `QuietStart`: what the watcher has seen the listener has read, has failed to read or will
  read (`ReadFollows`), and what it has read is cached once parsed (`CacheParsed`). The
  theorem needs the assumption: without it the first stat may be of a file that was never
  read. It needs the exception as well: a version whose read failed is not read again.
  Of `PeerVerification`: `SettledIsCached` takes `NoChangeLost` over from the
  watcher's invariant, which no handshake disturbs. `AcceptedCorrectly`, `CacheFounded` and
  `RaceNeedsRevocation` follow from what a handshake knows at each place: past the
  signature its list is signed, what it has passed is not on it (`PassedUnlisted`), and
  what it is about to store is (`StoreListed`). `SettledEnforced`, again after a quiet
  start: what the file in force barred when the handshake began, its copy of the list bars
  (`BarredByList`).
* **`TelegramBotProofs`**: `TypeCorrect`, `OkIsDelivered`, `TextComesFirst`,
  `AnswersInOrder`, `LossIsBounded`. The offsets of the bot are in order (`Offsets`), what
  is posted is not ahead of what is in hand, and the updates a process may still lose are
  those between the confirmed offset and the hand: at most the buffer and one, which a
  restart adds to what was lost before (cardinalities, by `FiniteSetTheorems`).
* **`StreamClientProofs`**: `TypeCorrect`, `CommandWaits`, `PanicOnlyInTheGap`. The counter
  is one for a goroutine that is counted minus one for a cleanup that has begun; both
  follow from where the two goroutines are.

Only model-checked: all liveness properties, which are outside what the prover does under
fairness. They are checked of each component by itself: the refinements are of safety, and
do not carry `AddedGetsPolled` and `RemovedStopsStreaming` over to the system, whose
handlers may owe a flag for ever. Every invariant of a passing run is a theorem.

## 5. What is not modelled

* `GET /camera/list`, ping, logging, `Invoke` and the other client commands: one request,
  one answer, no state.
* `GetParkingFloor`: a pure function of a number with two intervals; `TelegramBot` has the
  query before it only as far as it may run too early.
* The reading of the trusted certificates: it ends the process or leaves a constant pool.
* Image formats, JSON, multipart framing but for the one property about it, log texts; the
  values of samples, crops and names. How a subscriber's loop meets
  the errors of its writes is in `StreamClient`, not in `CameraService`.
* PostgreSQL, go-pg, the Go runtime's maps and maps' race check, the bot library and the
  Telegram service, GTK, TCP, the cameras' streams: by what the code relies on, marked
  external.
* Flag parsing, build and certificate scripts.

## 6. Plan

Done: all components above, each with a run and with proofs; poller and worker against one
abstract life; handlers, poller and workers as one system that implements both of its
parts. What could follow:

1. An abstract specification of the node registry (a table with atomic registration) that
   handlers that do not overlap are shown to implement.
2. That the CRL cache never goes back to an older list, as an abstract register of versions
   that listener and watcher implement.
3. The end of the server: SIGINT and the grace second against the poller's and the
   workers' ends, in `CameraSystem`.
4. Every frame, or a newer one, reaches a subscriber that stays: a liveness property of
   `CameraService` on an instance reduced for it.
