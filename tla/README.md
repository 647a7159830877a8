# telegram-bot-mux in TLA+

telegram-bot-mux lets several programs ("clients", each running a bot library)
share one Telegram bot. It polls Telegram once, stores every update in SQLite,
routes each update to one or more client queues, and answers the clients'
`getUpdates` calls from these queues; every other call is passed on to
Telegram. This directory holds TLA+ models of that program, the TLC
configurations that check them, and theorems checked by TLAPS.

## 1. Inventory of the system

| Component | Source | State | Operations |
|---|---|---|---|
| Store | `internal/store/store.go` | tables `clients` (with `ack_offset`), `updates`, `deliveries`, `schema_meta.upstream_offset`; the notification channel | `Open` (migrate, reconcile clients), `Ingest`, `GetUpdates` (resolve a negative offset, acknowledge and prune, query, record activity), `PendingCount`, `Changes`/`signal`, `Backup`, `IntegrityCheck` |
| Poller | `internal/telegram/poller.go` | `pollState`: offset, delay | `initialize`, `step`, the two failure handlers, sleeps |
| Telegram client | `internal/telegram/client.go` | the transport's pool of connections | `getUpdates`, `deleteWebhook`, `getMe`, `ForwardBot`, `ForwardFile` |
| Downstream server | `internal/server/server.go` | one goroutine per request; long polls hold a channel and a timer | path and token checks, `getUpdates`, webhook methods, Bot API and file proxy |
| Routing | `internal/routing/routing.go` | immutable rules | `ParseUpdate`, `Targets` |
| Configuration | `internal/config/config.go` | immutable | load, defaults, validation, credentials |
| Process | `cmd/telegram-bot-mux/main.go` | poller and HTTP goroutines, signal context, error channel | `serve`, shutdown, `doctor`, `backup`, `token`, `version` |

How they interact: the poller calls Telegram (a request can fail, time out and
still arrive), then `Store.Ingest`, which calls `Router.Targets` inside its
transaction and closes the notification channel after the commit. A request
goroutine takes the channel, calls `Store.GetUpdates`, and waits for the
channel, its deadline or its context. The commands `doctor` and `backup` open
the same database from another process. One context, cancelled by a signal or
by the end of either goroutine, reaches the poller and every request.

What is hard, and what must hold for each part:

* **Store**: redelivered and reordered batches, a limit compared with whole
  batches, pruning that must not touch what another client still needs, a
  configuration that changes between two openings. Every delivery has its
  client and update; nothing is routed twice inside the safety window; one
  client's acknowledgment leaves the others alone.
* **Poller**: the process may stop between any two steps, answers get lost,
  requests arrive late, an update does not parse. What Telegram has forgotten
  must be in the database; each update is routed once and in order; a pause
  must end, be no busy loop, and be as long as Telegram asks.
* **Requests**: requests of one bot overlap (a bot gives up, the server does
  not notice), transactions of one `GetUpdates` interleave with ingests and
  other requests. No update is lost, no wake-up is lost, pages have no gaps,
  every update arrives in the end, in order.
* **Proxy**: Telegram executes what it receives, whatever becomes of the
  answer. The updates stay the poller's, nothing is asked for that no client
  asked for, nothing is repeated that has a body or is posted without an
  idempotency key, nothing is held for a bot that is gone.
* **Configuration and routing**: what validation accepts never fails later, in
  an ingest or at a client's token.
* **Process**: signals, failures of either goroutine and requests end in any
  order. The store is closed last, the exit status is true, the process exits.
* **Tools**: another process changes the tables under the running service; a
  restored database is older than what Telegram remembers.

`PROJECT.json` lists the hazards at the lines where they bite.

## 2. Modules

```
Store <-- Poller <-+- Mux <------ Queues  (INSTANCE FanOut WITH ...)
                   +- Tools <---- Recovery
Routing <-- Policy          Lifecycle          Pacing          Gateway
```

An arrow is EXTENDS: `Mux` is the whole path of an update, store, poller,
requests and bots together, and `Recovery` the whole life of the database. The
modules of the second line share no state with the first; what links them is
stated below.

* **`Store.tla`** models `store.go`. The database is used over one connection
  and every write is a transaction, so a committed transaction is one atomic
  action. A table is a set of rows: `clients`, `updates` (ids), `deliveries`
  (pairs). `Acknowledge` is the whole transaction of `acknowledge`: delete,
  raise `ack_offset`, prune, cascade. `Ingest` is split by outcome into
  `IngestCommits`, `BacklogFull` and `IngestFails`, with the code's order of
  checks. `Reconcile`/`Open` model `reconcileClients` and `Open`. `StoreSpec`
  runs these transactions under an arbitrary environment. `ingested` is a
  history variable, all others are rows or the opened configuration.
* **`Poller.tla`** adds the poller, the process and Telegram. `poller` is the
  program counter (`start` is `initialize`; `poll`, `ingest`, `signal` are the
  points of `step`; `sleep` is `sleepContext`; `down` is no process).
  Telegram's side is external: `stream` (updates in rising id order, of which
  `Unparsable` do not parse) and `confirmed` (a `getUpdates` with offset o
  forgets everything below o). `sent` holds requests the poller has given up
  that may still arrive. `Stop` can happen at any point and forgets everything
  in memory.
* **`Mux.tla`** adds the `getUpdates` requests and the bots. `handler[r].pc`
  follows `waitForUpdates` and `Store.GetUpdates` statement by statement:
  `changes` (take the channel), `resolve`, `ack`, `query`, `decide`, `select`.
  `handler[r].woken` says that the channel taken by r is closed (`WakeAll` is
  `signal`). Bots are external: one call outstanding, an offset they have
  reached or an earlier one, or a negative one; `GiveUp` makes them call again
  while the old request lives. `owed`, `seen` and `forgotten` are what a client
  was routed, has had, and told the store to forget with a negative offset.
* **`FanOut.tla`** is the abstract promise, with no transactions, offsets,
  requests or crashes: each client has a queue; an update goes once, and last,
  into the queues of its targets; a client receives or drops a front of its own
  queue. **`Queues.tla`** maps `Mux` to it: a queue is what a client is owed
  and has neither had nor dropped. It is not table `deliveries`, whose rows
  stay until the next offset. Received updates are a set, so that an answer
  repeated after a lost one is a stutter: `FanOut` promises each update the
  first time once and in order, not that it is never sent again.
* **`Tools.tla`** lets `doctor` or `backup` open the database with any
  configuration beside the running service.
* **`Recovery.tla`** adds the copy `backup` writes (`BackupOpens` reconciles,
  `BackupCopies` is `VACUUM INTO`, one transaction, later) and its restoration
  by the steps of `docs/OPERATIONS.md`: stop, put the copy in place, start.
  Telegram does not go back: `confirmed` and `sent` stay. Neither do the bots,
  which acknowledge offsets the restored database has not reached
  (`BotGoesOn`). `lost` is the history of what restorations took out of the
  database.
* **`Routing.tla`** states the pure functions: defaults, `Validate`,
  credentials, `ParseUpdate` and `Targets`, with strings as sequences of
  symbols where prefixes matter and classes elsewhere. **`Policy.tla`** is the
  process that loads a file and routes by it. What `Store` takes of a
  configuration as an assumption (targets are configured clients, positive
  limits) is what `TargetsFit` and `FitToRun` say of every accepted file.
* **`Pacing.tla`** models the lengths of the poller's pauses: `retryDelay`, the
  doubling of `pollState.delay` and where it is set back, on int64 durations
  that wrap (`Wrap`), scaled down by the constants `Second` and `Limit`.
  `Poller` has the same failures without lengths.
* **`Lifecycle.tla`** models `serve`: the main goroutine statement by
  statement, the poller's and the listener's goroutine, `errorsChannel`, the
  context, the connections, the ten-second deadline and the exit status. A
  request is followed by what it waits for: the client's header, a body the
  handler reads (`parseGetUpdatesRequest`) or streams to Telegram
  (`proxyBot`), an unread body net/http drains before it answers, and the
  write of the answer wait for the client (`FromClient`); the store, a long
  poll and Telegram's answer do not, and only these the cancelled context
  interrupts. Open connections carry requests until `Shutdown` closes them
  (`CloseIdle`). Which error a cancelled call returns is a choice over what the
  code produces: `errors.Is` recognises some, not those `redact` rewrites.
* **`Gateway.tla`** models `ServeHTTP` and the proxy: `parseClientPath`,
  `authenticate`, the method table, file names and their cleaning, the header
  filter, and a forwarded request step by step over the transport's pool. That
  net/http sends a request again when a reused connection breaks is part of
  it: the transport may do so with a request without a body, if nothing of it
  had been written, or if it is a GET or HEAD or has one of the headers
  `Idempotency-Key` and `X-Idempotency-Key`, which the header filter passes
  on. A file request has no body upstream, whatever the bot sent. Requests share the pool only, whose size `idle` abstracts; one
  request at a time meets every state of it.
* **`*Proofs.tla`**: theorems (section 4), one module per component, each
  building on the lemmas of the one it extends; `PollerProofs` holds those of
  `Store` and of `Poller`. **`Folding.tla`** has no code behind it: it proves
  induction on the naturals, and what it gives for a recursive function and for
  `FoldLeft`, once, for a step and a base that are its constants.
* **`MC*.tla`, `MC*.cfg`**: instances for TLC.

Definitions named `Faulty...` are the definition that follows them with a
plausible mistake (an off-by-one, a dropped check, a swapped order). No action
uses them; put in place of the correct one they make a property fail, which
shows that the property looks at the code it is about.

## 3. What the runs check

Bounds common to the runs over the store: ids run from 0 to `MaxId`, which
stands for the largest int64, so overflow is in range; `PageLimit` 2 or 1
stands for 100, so a stream of two to five updates needs several answers and
pages; limits of 1 and 2 fill queues; one or two clients, of which one can be
removed and returned. `MaxSent` bounds the abandoned requests under way at
once, `MaxRestores` the restorations: one in the run, with two the same
properties hold but TLC takes minutes, and the proof has no bound.

| Run | Question | Result |
|---|---|---|
| `store` | the tables under any order of batches, acknowledgments and reopenings: `StoreTypeOK`, `StoreInv`, `RoutedOnceInWindow`, `AcksAreIndependent`, `BacklogBound` | hold |
| `poller` | crashes, lost answers, late requests, full backlog, fatal ingest, an update that does not parse, changed configuration, no safety window, a tool with another configuration at any time: `PollerInv`, `ConfirmedDurable`, `UnparsedIsHeld`, `RoutedOnceInOrder` | hold |
| `poller_tight` | a limit that a full answer exceeds: `PauseEnds` | **violated** |
| `mux` | one bot, two overlapping requests, paging, the offset -1 and the smallest integer, long polls: `NoLoss`, `NoLostWakeup`, `PageHasNoGap`, `NegativeKeepsLast`, the inductive `MuxInv` | hold |
| `queues` | two bots, policies that change, a bot removed and returned: `BotsSeeOrder` and the refinement `ImplementsFanOut` | hold |
| `mux_live` | every update reaches its bot in the end, through poller, store and requests, with a queue that one update fills, so that the poller pauses: `EventuallyDelivered` | holds |
| `tools_edited` | `RestartApplies`: the running service's clients stay registered until a restart | **violated** |
| `recovery` | a restoration under crashes, late requests and bots that are ahead: `OnlyRestoresLose`, `RestoredIsSound`, and `EventuallyAccounted`, which also says that the whole stream is ingested at last | hold |
| `lifecycle` | two connections with one request after another, clients that withhold headers and bodies or read no answer, a signal at every point, failures of poller and listener: `TypeOK`, `ClosedLast`, `StatusTells`, `OnlyClientsDelay`, `Exits` | hold |
| `pacing` | every order of up to five failures, refusals with and without `retry_after` (also so large that it wraps to a shorter pause or to none), and restarts, a maximum that is no power of two: `DelayDoubles`, `RequestsAreSpaced`, `PauseIsBounded`, `HonorsTelegram` | hold |
| `gateway` | every kind of path, method, verb, body and header, broken connections, bots that go away: `TypeOK`, `UpdatesStayOwned`, `OnlyAsked`, `UnmarkedOnce`, `AbandonedEnds` | hold |
| `policy` | files that vary each part of a minimal one, right and wrong, and up to two rules: `TargetsFit`, `PrefixesNeedData`, `OwnedByFirst`, `TokensTell`, `FitToRun` | hold |

Why the bounds are enough: a hazard of the queues takes at most one update that
is paged or acknowledged and one that comes after it, one request that lags
behind another, and one crash, each of which the bounds leave room for; two
failures of a shutdown can meet only at the error channel, which has two
senders; a rule list decides by the first match, so two rules show precedence.
`Exits` and the process's exit status do not depend on how many connections
there are beyond one that blocks and one that does not. `RetryAfter` has values
below and above the maximum, and values whose product with `Second` wraps below
0, to 0, and to a positive pause that is too short.

Symmetry is used for the two requests of `mux` (they are interchangeable, and
that run checks no liveness). Only `policy` disables the deadlock check: a
process that refuses its file stops.

### Disagreements between code and documents

Two are runs of their own:

1. **A pause that never ends** (`poller_tight`). The poller asks for 100
   updates, an ingest that leaves a queue above `max_pending_per_client` is
   rolled back whole, and any positive limit is accepted. When the waiting
   batch routes more updates to a client than its limit allows, the same batch
   is refused for ever, even with every queue empty. `docs/OPERATIONS.md`
   says that restoring the stalled client resolves the pause.
2. **Tools apply an edited configuration at once** (`tools_edited`). `doctor`
   and `backup` reconcile the clients table with the file as it is now, so on
   a running service they delete the queue of a client taken out of the file,
   and the service's next ingest for that client fails and ends the process.
   `docs/CONFIGURATION.md` says changes apply on restart.

Others the models contain as the code has them:

* A signal during the initial `deleteWebhook` or between an ingest and its
  commit ends `serve` with an error instead of status 0: `redact` and a
  transaction rolled back by its context hide the cancellation
  (`client.go:232`, `poller.go:59`, `main.go:130`). `StatusTells` says what
  status 0 means, not that every signal leads to it.
* `docs/OPERATIONS.md:23` gives work in flight ten seconds, but the signal also
  cancels the context of every request (`main.go:145`; `main_test.go:124`
  expects this): long polls, transactions and calls to Telegram end at once.
  Only what waits for its client has the ten seconds, and since the server sets
  no `ReadTimeout` (`main.go:139-147`) a client that withholds its body uses
  all of them, as does one that does not read its answer. `OnlyClientsDelay`
  says this.
* A `retry_after` from 9223372037 seconds on overflows `time.Duration`
  (`poller.go:128`): the pause is then shorter than asked for, or none. The
  properties about pauses name the condition (`Fits`), and `hasty` counts such
  failures; only the upper bound of `PauseIsBounded` holds without it.
* `docs/ARCHITECTURE.md:50` says that the mux does not retry outbound methods
  because many have side effects. `proxyBot` passes a GET on, and the transport
  under `forward` (`client.go:215`) sends a GET without a body again on its own
  when the HTTP/1.1 connection it was reusing breaks before the answer, although
  Telegram may have executed it: `runs` is then 2, in the `gateway` run too.
  `UnmarkedOnce` says what is safe: a method sent with a body, or posted
  without an idempotency key.
* `docs/CONFIGURATION.md:60` gives ranges that begin above 0; a 0 in the file
  is accepted and replaced by the default (`config.go:138`), except where a
  pointer tells it from a number left out.

### Fairness

Safety needs none.

* `FairMuxSpec` and `FairRecoverySpec`: the supervisor restarts the process
  (weak fairness of `Start`); a running goroutine takes its next step (weak
  fairness of the poller's step and of each request's: Go schedules runnable
  goroutines, timers expire); what is tried again and again succeeds at last,
  although crashes and failures may intervene any number of times (strong
  fairness of `Initialize`, `PollAnswered`, the ingest, and of each step of a
  request its bot is waiting for; in particular the updates parse); and clients
  go on asking (strong fairness of `ClientDrains`, `AsksForNext`). Producing
  updates, stopping, failing, giving up, aborting, backing up and restoring are
  never assumed to happen. `FairPollerSpec` is the same for the poller alone;
  `PauseEnds` is violated although all of this is assumed.
* `FairSpec` of `Lifecycle`: runnable goroutines run, what the cancelled
  context interrupts returns, and the deadline of `Shutdown` expires. Nothing
  is assumed of clients or of Telegram: `Exits` holds with a client that
  withholds its body or never reads its answer; the deadline ends it.
* `FairSpec` of `Gateway`: a goroutine whose bot is gone notices the cancelled
  context, and a handler returns. Telegram need never answer.

## 4. What is proved

TLAPS proves, for every value of the constants that satisfies the named
assumptions:

* **`PollerProofs`**, the store. `StoreSafe`:
  `StoreSpec => [](StoreTypeOK /\ StoreInv)`.
  The invariant is inductive: foreign keys (`Referential`), and
  `WindowRetained`, which ties the rows to the offset: everything ingested lies
  below the offset, and what lies in the window below it still has its row.
  Pruning compares with the highest row, the offset with the batch; the
  invariant is what makes them agree. From it `RoutedOnce`,
  `AcksIndependent`, `BacklogIsBounded` and `StoreWellTyped`. Four results have
  no run of their own: `OffsetsOnlyRise` (neither the stored offset nor a
  registered client's falls back), `QueuesBounded` (a bound on the limits of all
  configurations bounds every queue at any time, although one restart may lower
  the limit below what is queued; `BacklogBound` speaks of single ingests),
  `RegisteredAreConfigured`, and `NegativeOffsetIsExact` (an offset of -n keeps
  the last n updates, or a page, for every n and every queue).
* **`PollerProofs`**, the poller. `PollerSafe`:
  `PollerSpec => [](PollerTypeOK /\ PollerInv)`.
  "What Telegram forgot is stored" is not inductive: one needs that no request,
  answered, under way or abandoned, asks past the stored offset (`NotAhead`),
  that the answer in hand is the gapless continuation of the stream
  (`BatchIsNext`, from `FirstNIsPrefix`), that memory and database compute the
  same offset (`OffsetInStep`) and that the database has all of the stream
  below the offset (`NothingSkipped`). `ConfirmedIsDurable`, `UnparsedStays`,
  `RoutedInOrder` and `PollerWellTyped` follow. `PollerImplementsStore`:
  `PollerSpec => StoreSpec`, step by step, so that whatever is proved of the
  store holds of the poller's database. With `RegisteredAreConfigured` it gives
  `FatalOnlyAtMaximum`: an ingest ends the process for the largest id only, as
  long as no tool edits the tables. `RoomAccepts`: the backlog limit refuses a
  batch only while some client has less than a page of room. It is the other
  half of the finding `PauseEnds`: with a limit of a page or more, nothing is
  refused once the bots have taken their updates.
* **`MuxProofs`**. `MuxSafe`: `MuxSpec => [](MuxTypeOK /\ MuxInv)`, for any
  number of bots and of requests that overlap. That nothing is lost is not
  inductive: an acknowledgment deletes everything below its offset, so one
  needs that no bot has got past an update it is owed without having it
  (`NextIsSeen`); that needs pages without gaps (`PageHasNoGap`), also pages
  read long before they are received; and that needs that a request queries
  with everything below its offset acknowledged and that whatever is ingested
  meanwhile lies above the offset of every request (`RequestsInStep`, from
  `BatchIsNext` of the poller). `NothingLost`, `PagesLeaveNoGap` and
  `MuxWellTyped` follow; `NoWakeupLost` comes from `MuxSafe` and the order
  channel, read, select of `waitForUpdates`. `LastUpdatesKept` (the action
  property `NegativeKeepsLast`) adds to `MuxInv` that a request between the two
  transactions of a negative offset would leave the last updates its bot has
  *now* (`LeavesLast`): other requests take a prefix away, the poller appends,
  and neither moves the last updates down (`LastNMoves`).

  What a bot gets, without the word "lost": `DeliveredAsRouted` says that under
  one configuration received, dropped and pending updates together are exactly
  those routed to the client of everything ingested, so that there is none too
  many, either; `OnlyNegativesForget` that without negative offsets nothing is
  dropped, for any set of configurations; `AnswersFit` that an answer is no
  longer than asked for, nor than a page, and goes to a configured client.

  Two refinements. `MuxImplementsFanOut`: `MuxSpec => F!FanOutSpec`, by one
  step for each action of `Mux`: a commit is `Arrive`, a page received
  `Receive`, a resolved negative offset that passes updates `Drop`, a start
  `Reconfigure`, every other step a stutter, because `MuxInv` holds. `OrderKept`
  then is a theorem about `FanOut` alone. `MuxImplementsPoller`:
  `MuxSpec => PollerSpec`: a request's acknowledgment is the `ClientAcks` of
  `Poller`, for a client that is configured (which needs the invariant of
  `AnswersFit`), every other step of a request a stutter. Down the chain `Mux`,
  `Poller`, `Store`, `ServiceKeepsPromises` then states of the whole service
  what the runs check of its parts.
* **`ToolsProofs`**. `ToolsSafe`: tools keep the poller's invariant;
  `ToolsKeepPromises`: beside them, too, `ConfirmedDurable`, `UnparsedIsHeld`
  and `RoutedOnceInOrder` hold. (That tools take deliveries away is the finding
  `RestartApplies`; `RegisteredAreConfigured` and `FatalOnlyAtMaximum` do not
  hold beside them.)
  `RecoverySafe`: `RecoverySpec => [](RecoveryTypeOK /\ RecoveryInv)`. After a
  restoration `NotAhead` is false: Telegram has seen higher offsets than the
  stored one. What replaces it: every offset Telegram has seen or may see, and
  the backup's, is 0 or the one after an update of the stream (`Anchored`), so
  that what Telegram receives next lies above them all; whatever came before a
  lost update was in the database, too (`LostIsPrefix`), so that an `ack_offset`
  ahead of the restored database hides nothing new; and the backup is at any
  time a database polling could go on from (`CopyIsSound`).
  `OnlyRestoresLoseUpdates` and `RestoredDatabaseIsSound` follow.
* **`LifecycleProofs`**. `ProcessKeepsStep`: which errors can be where at each
  point of `serve` (`ProcessInv`), for any number of connections; from it
  `ClosesLast`, `StatusIsHonest`, `OnlyClientsHoldUp` and `ProcessWellTyped`.
* **`PacingProofs`**. `FailuresAreSpaced`, `PausesAreBounded` and
  `RetryAfterIsHonored` for every second, maximum, word size and `retry_after`,
  those that wrap included: the invariant `Paced` carries what holds of every
  pause (it is below the maximum) and what holds if the answer's `retry_after`
  fits a duration, and counts the failures for which it does not.
  `TheDelayDoubles`:
  after n failures in a row the delay is 2^n seconds or the maximum, for every
  n, by induction over the failures (`Doubled` is a recursive function, of which
  `Folding` proves that it exists).
* **`GatewayProofs`**. `GatewaySafe`: `Spec => []GatewayInv`, for every path and
  header: a request that is under way to Telegram, or was executed, passed every
  check of `Dispatch`, and what is sent again may be repeated. From it
  `EveryRequestAnswered`, `UpdatesAreThePollers` and `UnmarkedAreNotRepeated`.
  `OnlyWhatWasAsked` adds that `Clean` leaves every path alone that
  `FileAllowed` lets through, by induction over its segments.
* **`PolicyProofs`**. For every file and every update, any number of rules and
  clients: `TargetsAlwaysFit`, `FirstRuleOwns`, `TokensAlwaysTell`,
  `AcceptedIsFit`. `PrefixesAlwaysNeedData`: an update without callback data
  has the same targets when the rules with prefixes are left out, by induction
  over the rules: the first match of the shorter list is that of the longer one.
  `StoreMayAssume` links the modules: every configuration that a process runs
  with meets what `StoreAssumption` demands.
* **`Folding`**. `SetInduction`, from the well-foundedness of the naturals:
  the library states induction for a predicate, which no installed prover can
  instantiate; stated for a set it can be cited. From it, that a definition by
  recursion has a solution and only one (`RecursesOnNat`, `RecursesUniquely`),
  and that `FoldLeft` is a chain of steps (`FoldSteps`), whose operator the
  modules above give by `INSTANCE Folding WITH op <- ...`.

Assumptions: `StoreAssumption` (what `config.Validate` guarantees: at least one
client, positive limit, every update routed to configured clients),
`StreamAssumption` (updates have ids the database can hold), `MuxAssumption`
(limits and offsets are integers of the machine's width), `RecoveryAssumption`,
`PacingAssumption` (twice the maximum pause fits a duration, as the largest
maximum the validation accepts does), `GatewayAssumption` (there is a path to ask
for, paths are sequences of segments, and the size of the pool is a number), `RoutingAssumption` and
`PolicyAssumption` (strings are sequences; files and updates have their types).
TLC evaluates them in each run that uses the module.

The lemmas about single transactions (`IngestKeeps`, `AcknowledgeRemoves`,
`AcknowledgeKeeps`, `ReconcileKeeps`) are stated apart from `StoreSpec`, so that
the proofs about the poller, the multiplexer and restorations cite them instead
of repeating them.

Only model-checked: all liveness (`EventuallyDelivered`, `EventuallyAccounted`,
`Exits`, `AbandonedEnds`). It needs fairness and ENABLED, which are out of the
prover's reach. `NoWakeupLost`, `RoomAccepts`, `FatalOnlyAtMaximum`,
`PausesAreBounded` and `EveryRequestAnswered` are the safety part of
it: what could keep a step from being enabled for ever is excluded for every
value of the constants; that enabled steps are taken is fairness. Every
invariant and every action property the passing runs check is proved.

## 5. What is not modelled, and why

* Contents of updates and messages, the wire format, sizes and their limits,
  file modes, logging, redaction of tokens: no property is about them.
  `last_seen_at` is written and never read.
* `foreign_keys` and `busy_timeout` are set on the connection open at the time;
  that database/sql never replaces it is assumed.
* Telegram restarting its numbering below the stored offset (it may after a
  week without updates): the repository says nothing about it; the stream's
  ids rise.
* An answer that breaks off after its status was passed on: `Gateway` has it.
  With a declared length the bot sees it (`broken`); without one net/http ends
  it as if it were whole (`cut`). No property forbids `cut`, because nothing
  the handler does after the status prevents it.
* File names with characters that a URL escapes, in `Gateway`; of bodies only
  whether there is one. Where a request waits for its client's body is part of
  `Lifecycle` only.
* The supervisor's restart loop. A process that ends at once is restarted by
  it; the delay of `Pacing` is in memory and does not outlive a restart.
* What a failed `VACUUM INTO` leaves on the disk, and WAL files left beside a
  database restored by hand: both are outside the program.
* `getMe`, the integrity check, `token` and `version`: one-shot reads and I/O
  without state.

## 6. Plan

The modules of the inventory are written, and their safety properties proved.
What is left to deepen:

* `Recovery` over `Mux` instead of `Tools`: what a bot whose offset is ahead of
  a restored database is sent, page by page;
* `RecoverySpec`, whose restorations move offsets back, as an implementation of
  an abstract store that may lose a suffix.
