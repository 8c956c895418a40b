# Verification of scale-challenge

A weighbridge system in Go: scales send readings to an HTTP API, a Redis
Stream buffers them, workers detect when a truck stands still, and a PostgreSQL
transaction records the final weighing, its cost, its margin and the stock. The
TLA+ modules in this directory model the parts of it that are hard to test.

## The system

```
device --POST--> API --XADD--> scale-readings --XREADGROUP/XAUTOCLAIM--> worker
                                                                           |
   registrations (branches, scales, trucks, grain types, transports)       v
        |                                                     FinalizingProcessor
        v                                                       |            |
   PostgreSQL <-- ledger row / finalization transaction --------+     stabilizer.Manager
        |                                                              (in memory)
        v
     reports                              dead letters <-- worker (Lua: XADD, XACK, DEL)
```

| component | state it keeps | operations | interacts with |
|---|---|---|---|
| Stabilizer (`internal/stabilizer`) | sessions by scale and plate: state, ring of readings, time of the latest | `Add`, `Expire` | the processor calls `Add` under its mutex; nothing in production calls `Expire`, so an idle session stays until its own next reading, another plate or a full map |
| Finalization (`internal/finalization`) | `branch_grain_inventory`, `weighings`, transport status | `Finalize` | PostgreSQL at READ COMMITTED, next to the registrations |
| Stream worker (`internal/worker/worker.go`) | claim cursor; in Redis: pending list, retry counters, dead letters | `Run`, `Recover`, `ProcessNew`, `processMessage` | other workers through the consumer group |
| Finalizing processor (`finalizing_processor.go`) | map of works not yet durable | `Process` | stabilizer, ledger, finalization |
| Registrations (`internal/application`, `internal/repository`) | branches, scales, trucks, grain types, transports | create, update, deactivate, cancel | PostgreSQL only |
| Ingestion (`application`, `repository/redis.go`) | none | authenticate, normalize, publish | store, stream |
| Migration runner (`internal/migrations`, `cmd/migrate`) | `schema_migrations`, the schema | `Apply` | PostgreSQL, possibly runners of other releases |
| HTTP API (`internal/httpapi`, `cmd/api`) | requests in flight, pool of connections | boot, the routes, shutdown | waits for its runner (`docker-compose.yml`); application service, Redis |
| Metrics (`internal/observability`) | counters in Redis | `Inc`, `Snapshot` | API, worker |
| Reports (`internal/reports`) | none | `Query` | reads `weighings` next to finalizations |
| Simulator, generated queries, test kit | none | | |

What makes them hard, and what makes each correct:

* **Finalization** runs in several workers at once, waits for row and index
  locks, and may lose the acknowledgement of its commit. Correct means: a
  transport is weighed at most once, the stock is exactly what was weighed, a
  margin follows the stock it was priced from, an answer is durable, history
  never changes, and no two calls wait for each other.
* **The stabilizer** gets readings with the clocks of devices, in any order and
  from several trucks of one scale. Correct means: a weight comes from two
  stable windows in a row of one passage, a passage gives one weight, the order
  is never repaired silently, and memory is bounded.
* **The worker** loses calls, replies and its life at any point, and shares its
  entries with others. Correct means: no reading is acknowledged before it is
  durable or in the dead letters, retries are bounded, and no entry blocks the
  group.
* **A release** starts while an older one runs: two runners migrate one
  database, the API boots behind one of them, and main closes Redis and the pool
  under requests that are still in flight. Correct means: a migration takes
  effect once, the API never runs on part of its schema, a status code tells the
  truth about what the request did, and nothing hangs.
* **The composition** of processor, stabilizer and finalization has a life of its own: redelivered events
  meet a stabilizer that remembers them, or one that has just restarted.

`PROJECT.json` lists every hazard at its line, with the properties that cover it.

## Modules

| module | models | state and actions |
|---|---|---|
| `WeighingBook` | what finalization promises | the book of weighings, the stock and the status of transports, one action per business event |
| `Finalization` | `Service.Finalize` and the registrations that touch its rows | one action per SQL statement of a caller: `FindByEvent`, `FindBySession`, `SelectTransport` (snapshot), `LockTransport` (row lock and re-evaluation), `UpsertInventory`, `InsertWeighing`, `MarkWeighed`, `Commit`, and `CommitUnknown`, `Fail` |
| `Reports` | `reports.Service.Query` over the tables of `Finalization` | operators: `Selected` (the WHERE), `Items` (the groups), `Totals`, `Report` |
| `MCFinalization` | instances of both | |
| `FinalizationProofs` | theorems about `Finalization` | |
| `ReportProofs` | theorems about both: sums over finite sets, reports and stock | |
| `Window` | the ring and the statistics of `evaluate` | operators only |
| `RingWindow` | one ring fed with readings | `AddReading` |
| `RingWindowProofs` | theorems about it and about the statistics of `Window`; lemmas on which element of a finite set stands at an index of its sorted slice | |
| `Stabilizer` | `Manager.Add`, `Manager.Expire` | one disjunct per outcome of `Add`: `StillFailed`, `OutOfOrder`, `Unload`, `IgnoreHeavy`, `Collect`, after the common `Prepared` (plate change, idle session, room) |
| `MCStabilizer` | two trucks on a scale and one on another, one plate in two spellings, two places in the map | |
| `StabilizerProofs` | theorems about it | |
| `StreamWorker` | `Worker.Run` and all it calls, for several workers | one action per call to Redis or the processor: `Ensure`, `Claim`, `Read`, `Count`, `Expire`, `Refuse`, `Store`, `FailTransiently`, `DeadLetter`, `Ack`, `Forget`; `Break`, `Crash` and `Start` |
| `StreamWorkerProofs` | theorems about it | |
| `Pipeline` | `FinalizingProcessor.Process` in several workers, with one `Stabilizer` each, over the stream and the book | `Take`, `Resume` or `AddReading`, `StoreReading`, `Finalize`, `Refuse`, `FailTransiently`, `CommitUnknown`, `LoseRace`, `Bury`, `Ack`, `Break`, `Crash`; `Publish`, `OpenTransport` |
| `MCPipeline` | instances of it | |
| `PipelineProofs` | theorems about it | |
| `Registration` | `application.Service` over the tables of `repository.Postgres` | methods of one statement: `Create`, `Update`, `Deactivate`, `DeactivateScale`; the others one action per statement: `GetScale`, `GetActiveBranch`, `GetActiveTruck`, `GetActiveGrainType`, `CreateScale`, `UpdateScale`, `CreateTransportTransaction`, `GetTransport`, `CancelTransport`, `Authenticate`, `Publish`, and `Fail` |
| `MCRegistration` | an instance of it | |
| `RegistrationProofs` | theorems about it | |
| `Migrations` | `migrations.Apply` in several runners of several releases | one action per statement: `LookForLedger`, `CreateLedger`, `ReadLedger`, `ExecFile`, `RecordFile`, `CommitFile`; `StartRun`, `LoseRun` |
| `Api` | `cmd/api` and the handlers of `httpapi` | the process: `Boot`, `Connect`, `Terminate`, `CloseRedis`, `CloseDatabase`, `Exit`, `Kill`; a request: `Accept`, `Decode`, `Token`, `Acquire`, `Query`, `QueryFails`, `Publish`, `PublishAgain`, `Ping`, `Scrape`, `Count`, `CountAgain`, `Answer`, `LoseAnswer`, `ProbeTimesOut` |
| `Deployment` | `docker-compose.yml`: both of them | `MigrationStep`, `BootStep`, `ApiStep` |
| `MCDeployment` | an instance of it | |
| `DeploymentProofs` | theorems about it | |

**Finalization.** The variables are the committed database; what a transaction
wrote and has not committed is in its caller's record `tx`, and `pc` tells the
statement it executes next, from which the locks it holds follow. A statement
that would wait for a lock is disabled. `SelectTransport` and `LockTransport`
are one SQL statement: PostgreSQL takes the snapshot, waits for the row lock,
and evaluates the WHERE clause again on the locked row only, so joined columns
(tare, target) stay those of the snapshot while the status is fresh.
Columns of grams and money are `Bigint`: a cost beyond it fails in the statement
that computes it, a stock beyond it in the upsert, and the call with them.
`weighings_session_stage_unique` makes the session the key, as the only stage is
`FINAL`.

**Stabilizer.** Sorting is modelled by its result (the element at an index of
the sorted slice), the spelling of plates by the function `Spelling` from keys as
written to normalized keys. The history variable `held` remembers, per scale and
plate, the time of the latest reading of a passage that has been weighed; it
influences nothing.

**Reports.** Query is one SELECT, so it reads one committed state: the operator
`Report` is evaluated at every state between the statements of finalizations.
Averages are the integers the code computes: ROUND of PostgreSQL in an item,
integer division with half of the count added in the totals. A moment is a
number, a day a range of them, and `ParseReportTime` is the conversion of a date
without a time.

**StreamWorker.** A worker begins with `Ensure` (XGROUP CREATE), which another
one may have done; entries published before that wait for the group. An
error of `Ensure` ends the process, every other one ends the batch; a worker that
has stopped may be started again, or never. `idle` is the set of pending entries that are idle longer than
`PendingIdleTimeout`. The entries of one XREADGROUP or XAUTOCLAIM have one
delivery time, so `waiting` keeps these batches in order and `Age` makes the
oldest of them idle as a whole. `redis.NewClient` is called without `MaxRetries`,
so the client sends a command up to three times again when it fails: a call may
take effect and be repeated, which costs a failure of `MaxFailures` (the second
disjunct of `Ends`). The Processor is the one its
interface demands: idempotent by event, durable once it returns nil. `Poison`
entries fail over and over, `Rejected` ones with a `PermanentError`, `Malformed`
ones in `parseEvent`. `handed` and `tries` are history variables.

**Pipeline.** Each worker has its own instance of the operators of `Stabilizer`
and its own map `pending` from events to the work that is not durable yet
(`IsNew` decides between `AddReading` and `Resume`). The details of the two
neighbours are those of their own modules and are coarse here: a call of
`Finalize` is one step on the table of weighings, with the outcomes that
`Finalization` shows (recorded, found, refused, commit unknown, lost race), and
the consumer group is a set of pending entries from which any idle worker may
`Take`; commands sent again to Redis are in `StreamWorker` only. Readings come from a `feed`, a fixed sequence of what devices send; an
event id names one reading, which a device may send again (`PipelineConfig`).

**Deployment.** A runner writes the objects and the ledger row of a file in one
transaction; `Creating` is what other transactions wait for. The schema of a file
is how often its statements took effect (`applied`), a number that only 0 and 1
are right for. In `Api` a request is where its handler is (`phase`), the error
kind it will answer (`verdict`) and the connection of the pool it holds; what its
method does to the tables is only whether it took effect (`effects`), as
`Registration` has the statements. `server` follows `main`: SIGTERM makes
ListenAndServe return at once, so Redis and the pool are closed while `Shutdown`
still waits for handlers. The client of Redis repeats commands here as well:
`PublishAgain` is an XADD whose reply is lost (the reading is in the stream twice,
which the ledger absorbs), `CountAgain` an INCR, which counts twice; `recounted` is a
history variable and says how often.

**Registration.** Statements of the service commit one by one, so `pc` tells the
statement a request executes next. The initial state is what `cmd/seed` writes.
`Normal` and `Trimmed` are the conversions of scale ids and keys; a hash is
known only by the key it matches. Whether the fields of a request are valid is
a Boolean of the request. `seen` is a history variable: the versions that the
rows of a call had since it began.

## Runs

| run | what it checks |
|---|---|
| `finalization_race` | two callers, one truck with two transports, two scales of a branch, costs and stocks that overflow: types, widths and CHECK constraints, `WeighedOnce`, `AnswerIsRecorded`, and that every call returns |
| `finalization_passages` | two trucks and one stock, calls by plate and by transport, a shared session, a refused weight: `ReportTellsStock` (every report adds up to the stock and to its own items), `MarginFollowsStock`, `HistoryIsFinal`, and that Finalization implements WeighingBook |
| `ring_window` | every history of readings of a small ring: `RingHoldsWindow`, `RanksAreRight` (median and percentiles), `SlopeIsMedianOfPairs`, `RampIsNeverStable` |
| `stabilizer_passages` | two trucks on a scale and one on another, a plate in two spellings, two places in the map: `TypeOK`, `MemoryBounded`, `WindowIsOnePassage`, `WeightIsEarned`, `FailedIsNotReused`, `OthersAreLeftAlone`, `OnceUntilReleased` |
| `stabilizer_failed` | violation: see findings |
| `worker` | two workers create the group and share a good entry and one that is rejected and poisoned, two failures, either worker may stop: `TypeOK`, `NothingIsLost`, `GivenUpForFailures` (an entry fails no more often than the limit, and a good reading gets to the dead letters by failed calls only, at most one copy per failure), `EveryEntryIsSettled` |
| `worker_reordered` | violation: see findings |
| `pipeline_work` | two workers share the readings of one or two trucks, repeated events and a light truck, one failure with the short feeds, two attempts: `TypeOK`, `AcknowledgedIsDurable`, `EmittedWeightSurvives`, `WeighingIsOfOneTruck`, `AddedAgainOnlyIfDurable` |
| `pipeline_ack_lost`, `pipeline_second_passage` | violations: see findings |
| `registration` | two requests on scales or on transports, with two edits of the rows they use: `TypeOK`, `SnapshotIsOfTheCall`, `ClosedOnce`, `PublishedIsAuthorized`, `KeyIsGivenOrKept`, `RefusedForAReason` |
| `deployment` | runners of two releases next to an API that boots behind one of them and serves two requests: `TypeOK`, `AppliedExactlyOnce`, `ServesOnWholeSchema`, `AnswerTellsEffect`, `CountersTellReadings`, `NothingHangs` |

Every run stops at its bounds (`MaxTime`, `MaxReadings`, `MaxEntries`,
`MaxFailures`, `MaxEdits`, `MaxRunFaults`, `MaxApiFaults`, the feed) or may rest with no call in progress, so deadlock is not checked
where the configuration says so; that nobody waits forever is a liveness
property instead.

**Bounds and why they suffice.** Two callers are enough for every pairwise lock
conflict, and a third caller waits for the same locks; two trucks on one stock
row and two transports of one truck give every conflict of rows. The window of
the code (30 to 64 readings, 3 s) is scaled down to 2 readings and one
time unit: `Add` depends on a window only through Ready and Stable, and both
change in these instances. `MaxBigint` is so small that a heavy load overflows its
cost in both instances of `Finalization`, and two loads the stock in
`finalization_race`, while lighter ones fit. `RingWindow` laps a ring of small capacity more than
once, with even and odd lengths. Two workers and two failures allow a claim by
another worker after a lost reply or a crash, or a call sent again and then lost; two entries in a batch of two leave
an entry behind another, or one to be read next. A malformed entry takes the
path of a rejected one and has no place in that instance; the theorems have all
three kinds. In `Pipeline` three
steady readings give a weight, so a feed of four shows a weighing and its
redelivery, six let both workers weigh the truck and race for its transport, and
seven show a second passage; the workers are interchangeable (symmetry). In `Registration` a property relates one request to what another
request and the edits change between its statements: two requests, and two
edits (a price, a deactivation) on top of what the requests write, make every
pair of them meet. Transports and scales share nothing but the check of the
branch, so a behaviour calls the methods of one of the two (`Workloads`). In `deployment`
the release of one file and that of two files meet at a file both carry and at
one only the newer has; one connection makes the two requests wait for each
other, and the pairs of routes (`MCMixes`) let every kind of handler meet one
that holds the connection. Two faults let a stop follow a failed statement or a
lost answer.

**Fairness.** `Finalization`: strong fairness of the statements of each caller,
as PostgreSQL queues the waiters of a lock; nothing forces a call to begin, to
fail, or a registration to happen. `StreamWorker`: weak fairness of each
worker's next call, as `Run` loops until its context ends, and of `Age`, as time
passes; nothing forces a reading, a failure, a crash or a worker that has
stopped to come back, so the property speaks of the case that a worker is left. Failures are bounded by
`MaxFailures`: a Redis that always fails settles nothing. `Deployment`: weak fairness of each handler, whose goroutine
runs and whose statements return, and of the deferred calls of `main`; nobody has
to send a request, to start or to stop a process.

## Findings

Runs marked "violation" show where the code does something else than its
documents or comments say.

* `pipeline_ack_lost`: an acknowledgement that fails after the write makes the
  stabilizer see the reading again, out of order; the durable event goes to the
  dead letters and the session fails.
* `pipeline_second_passage`: a truck that comes back to a scale gets the first
  weighing of that scale and plate as its answer, and its new transport stays
  OPEN.
* `worker_reordered`: after a transient error the entry and the rest of its batch
  wait for the idle timeout, and newer entries are read and processed before them.
  In the trace entries 1 and 2 are read, 1 fails, and 3 is handed to the Processor.
* `stabilizer_failed`: the comment of `FailedSessionError` says that a failed session
  is released through the plate-change path as well; that path drops finalized
  sessions only. The plate that failed is refused when it comes back, until it has
  been silent for the timeout.

More behaviours are reachable in the models and listed as hazards:

* `StreamWorker`: a lost reply at the last attempt dead-letters an entry whose
  event is committed (`BuriedByFailures` says that it takes such a failure); attempts whose EXPIRE failed use up retries.
* `Pipeline`: a work that fails transiently on the last attempt of its entry stays
  in the pending map after the entry is dead-lettered, and nothing removes it.
* `Finalization`, `Pipeline`: the loser of a race for one passage gets not-found
  although the weighing of its own event is committed, and is dead-lettered.
* `Stabilizer`: a full map may evict a weighed session, and the truck that still stands
  there is weighed again.
* `Registration`: a transport may open for a truck that was deactivated after it
  was read; a key rotation may be undone by a concurrent `UpdateScale`; of two
  scales with one key only the first can send; a key registered with blanks
  around it never authenticates; the scale of `cmd/seed`, whose id is in lower
  case, is refused until it is updated. `RefusedForAReason` shows that these three
  are the only reasons for which an active device with its own id and key is
  refused.
* `Api`: after SIGTERM a reading that is still in its handler is answered with
  503 because Redis is closed, though it may have reached the stream, and it may
  miss from the counters: the 10 s that `Shutdown` gives it come too late. A
  reading counts twice if the client of Redis sends its INCR again.
* `Migrations`: of two runners that start together on an empty database one
  may fail on what the other has created; it succeeds when started again.

## Proofs

All theorems hold for every value of the constants under the assumptions named
in the modules, which the runs evaluate too.

* `FinalizationProofs`: the inductive invariant `IInv` says what a call knows at
  each statement (`StageKnows`: its transport is OPEN from the lock on, its total
  is the committed stock plus its net weight from the upsert on, no committed row
  clashes with its own from the insert on) and that no lock is held twice
  (`LocksExclude`). From it follow `TypeOK`, `WeighedOnce`, `KeysAreUnique`,
  `LockedStaysOpen`, `AnswerIsRecorded` (weighings only grow, and what a call returns
  was found or inserted by it), `HistoryIsFinal`, `MarginFollowsStock`, and that each commit
  is one `Record` of `WeighingBook` (`FinalizationImplementsBook`). `TypeOK` alone
  is not inductive: the net weight of a row is positive and its cost within BIGINT
  only because the checks came before the upsert, and the stock is exact only
  because its row is locked.
* `ReportProofs`: every report, for any filter and at any moment, adds up
  (`ReportsTellStock`). A sum over a finite set is a fold of which only the
  recursive equation is known; that it does not depend on the order is proved
  without an induction theorem: a counterexample among the subsets of a finite set
  would have a smallest one, by the least cardinality (`SubsetInduction`). Hence a
  sum splits over disjoint parts (`TotalOfBoth`) and over groups
  (`TotalOfGroups`). The inductive invariant is `StockIsWeighed` next to `IInv`: the
  weighings are finite and the stock of each branch and grain is the sum of their
  net weights, which each `Record` keeps (`StockIsSumOfLoads`). The rest is about
  one state: a report over all time has the rows of the stock, its totals are the
  sums of its items, and two filters that share a boundary split the rows of
  their union.
* `StreamWorkerProofs`: `NothingIsLost` needs that a worker about to acknowledge
  has earned it (`AckIsEarned`). `GivenUpForFailures` has two parts, each with an
  inductive invariant of its own. `RetriesAreBounded` needs that the attempt
  counter is at least the failures that happened plus the attempts in progress.
  `BuriedByFailures` is a global count: the invariant counts the copies of good
  entries and the workers about to bury one together against the failures.
* `StabilizerProofs`: `TypeOK` needs windows within the ring; `MemoryBounded` that
  the live sessions are a finite set; `WeightIsEarned` that the state of each
  session tells whether its window is stable, so that the candidate was the
  first of two stable windows. `OnceUntilReleased` holds for any number of plates: the
  session that remembers a weighed passage is there, refuses to collect, and has
  the passage's latest time, until one of four events ends the passage. The fourth
  is the eviction from a full map (`Evicted`), which needs `MemoryInv`: a map that is
  never above its limit drops one session, the one silent for longest
  (`DroppedForAnother`).
  `WindowIsOnePassage` needs `PassageInv`: the latest reading of a session that
  collects is the newest of its window, so an ordering check against the session is
  one against the window. `FailedIsNotReused` and `OthersAreLeftAlone` are about one
  step; they rest on `MemoryInv`, as a map that is never above its limit makes
  room by dropping one session.
* `RingWindowProofs`: the inductive invariant `WInv` says that the array, read from
  `start` on, is the window and that the window ascends in time; hence
  `RingHoldsWindow` for every capacity, with all cases of wrapping and
  overwriting. `RanksAreRight` and `SlopeIsMedianOfPairs` rest on lemmas on order
  statistics, which say without induction, by a least number, that each
  index of a sorted slice has an element and how many elements are at or below it.
  That slopes compared by cross-multiplication are ordered at all needs positive
  denominators, which ascending times give (`RampIsNeverStable` follows).
  `ReadingConfig` asks for more than two samples; `Config.validate` asks for 30
  (`stabilizer.go:79`).
* `DeploymentProofs`: the inductive invariant `DInv` has three parts. `MInv`: a
  runner past the check of a file knows that all files before it are in the
  ledger, the file whose statements succeeded is not in the schema, and no two
  transactions create one file (`OneCreates`). `AInv`: what a handler knows at
  each phase (`RequestKnows`: a request that has not written has no effect, one
  whose verdict is "ok" after its last write has it, and a verdict that becomes a
  4xx comes from before any write). `Whole`: the files of the API's release are in
  the ledger from boot on, which no step of another runner undoes. From them
  follow `TypeOK`, `AppliedExactlyOnce`, `ServesOnWholeSchema` and
  `AnswerTellsEffect`, for any number of runners, releases, requests and
  connections. `CountersTellReadings` needs `CInv` on top: Redis stays open until the
  first fault or stop, so until then a reading is in the stream exactly if its
  verdict is "ok", and `Count` moves one reading and at most one
  counter, `CountAgain` one counter and `recounted` (`Tally`, with the cardinalities of
  finite sets).
* `PipelineProofs`: the inductive invariant `PInv` says what a worker knows
  (`Placed`: a worker about to acknowledge has a durable reading) and what its
  pending map and its history tell (`Kept`: an event whose Add gave a reading or a
  weight has a work or is durable, and a weight a work or a weighing). It follows
  for any number of workers and failures that nothing is acknowledged that is not
  durable, that an emitted weight survives, and that failures add no reading
  twice. `PInv` does not look into `Add`, so this holds for any stabilizer. That
  found weighings are kept by session needs that an event id names one reading.
  `WeighingIsOfOneTruck` does look into it: `SInv` says that the window of every
  session consists of delivered readings of its scale and plate (`SessionTraced`),
  that a pending weight is the median of such a window that is stable and ends with
  its event (`WorkEarned`), and so each weighing. It speaks of the order of the
  device's clock, which is the one `Add` keeps; a feed whose clocks disagree with
  the order of the stream is covered.
* `RegistrationProofs`: the inductive invariant `RInv` says that the tables keep
  their types and unique indexes (`Tables`), and what a call knows at each of its
  statements (`KnowsAt`): that the branch, the truck and the price it has read,
  the key it keeps, or the device it has authenticated were so at some moment
  since it began, and that the row it goes back to still exists, since no step
  deletes one (`RowsStay`). The types alone are not inductive: a new transport has
  a price only because its call read one. From it follow, for any requests, rows
  and edits, `TypeOK` and the five action properties. The assumptions are
  `RegistrationConfig`, `SeedConfig` (the seed is what its tables admit) and
  `CallConfig` (a method has the fields it reads). scale_ids are ordered as
  natural numbers are, so among the scales that match a key one is first: that
  makes `Device` a row of the table (`DeviceMatches`).

`LockedStaysOpen`, `KeysAreUnique` and `StateTellsStability` are proved and no run
checks them: each is a part of an inductive invariant.

Only model-checked: liveness (`EveryCallReturns`, `EveryEntryIsSettled`,
`NothingHangs`), which needs ENABLED and is out of the prover's reach; every
safety and action property of a passing run is a theorem. The runs that expect a violation are counterexamples
and have nothing to prove.

## Not modelled

* Data no property tells apart: the algorithm audit columns of weighings,
  branches of scales that move (in `Finalization`), sums of a report beyond BIGINT
  (the query fails in SQL, the totals would wrap in Go).
* In the worker: the expiry of retry keys (`RetryKeyTTL`, a day), the scan limit
  of XAUTOCLAIM, the sampling of the pending count for the metrics, and the
  metrics server.
* In the API: the order of JSON fields, headers, logging, correlation ids.
* Down migrations, which no program of the repository runs.
* The simulator: a function from a scenario file to a sorted list of events,
  without state; its readings enter through the same API as those of a device.
* Generated queries (modelled where they are used), the domain's record types, and
  the test kit.

What could come next: the overflow of a report's sums, and the length of the
stream, which nothing trims (architecture.md calls it a bounded buffer).
