# Formal models of conduit

TLA+ modules of the conduit reverse proxy, the TLC runs that check them on small
instances, and TLAPS proofs of their safety properties for every size.
`PROJECT.json` holds the index: components, runs, mutants, the map from
definitions to source lines, findings, hazards and theorems.

Run a check with `tlc -config MCBreaker.cfg MCBreaker`, a proof with
`tlapm BreakerProofs.tla`.

## 1. The system

| Part | Source | State | Operations | What makes it hard |
|---|---|---|---|---|
| Circuit breaker | `conduit-upstream/src/breaker.rs` | failure count, deadline (two Relaxed atomics) | `check`, `on_success`, `on_failure`, `snapshot` | no lock; every method is several atomic accesses |
| Forwarding | `conduit-upstream/src/lib.rs`, `retry.rs` | round-robin counter, one breaker per address, per-request attempt | `pick_addr`, `forward`, `observe_breaker_outcome`, `breaker_state` | requests share counter and breakers; the future may be dropped at any await |
| Health checks | `conduit-upstream/src/health.rs` | two counters per address, cancel flag | `run_one`, `probe_once` | feeds the breakers requests use; a timeout over part of the exchange |
| Body timeout | `conduit-upstream/src/timed.rs` | timer | `poll_frame` | wakeups; the timer belongs to one wait |
| Routes, dispatch | `conduit-lifecycle/src/table.rs` | index by host, exact path, prefix, rest | `from_config`, `find`, `handle` | precedence spread over three indexes and two buckets |
| Workers | `conduit-io/src/tokio_worker.rs`, `monoio_worker.rs` | flag, accept loops, counters, tasks | `serve`, `run_worker`, `accept_loop`, `wait` | accept races the flag; drain races panics and the deadline |
| Process | `conduit/src/main.rs` | threads, cancel flags, pending signals | `main`, signal and reload handlers, joins | who waits for whom |
| Hot reload | `conduit/src/main.rs`, `conduit-transport/src/tls.rs` | swappable Dispatches, certificate table | `install_reload_handler`, `load_full` | several stores, several files, requests in between |
| Metrics | `conduit-control/src/metrics.rs`, `proxy_one` | relaxed counters | `observe_*`, `render` | several counters per request, a scrape reads them one by one |
| TLS certificates | `conduit-transport/src/tls.rs` | table by server name | `build_table`, `lookup`, `reload` | several files per entry, read while they are renewed |
| HTTP/3 | `conduit-h3/src/lib.rs` | accept loop, one task per stream | `serve_connection`, `drive_request` | the body is polled only between two sends; tasks outlive the loop that spawned them |
| Admin plane | `conduit-control/src/admin.rs` | none of its own | renders | - |
| Config | `conduit-config` | none | `load`, `check_logic`, `check_filesystem` | a file that changes after it was checked |
| H1, H2 | `conduit-h1`, `conduit-h2` | in hyper | serve | - |

Interactions: a config that validates becomes routes, upstreams and probes
(`Dispatch`, over `RouteTable`). A plane's connection takes its certificate from
the table (`Certs`) and loads the Dispatch of its swappable (`Reload`), which
finds a route and forwards under the route's timeout (`Upstream`, over
`BreakerOps`), returns a `TimedBody` (read by a stream in `H3Stream`) and counts
the request (`Metrics`). Probes touch the same kind of breakers (`Health`).
Workers (`Worker`) and the other planes are threads of the process (`Process`).

## 2. Modules

- `Breaker`: callers step through the breaker's methods one atomic access at a
  time. The two stores of `on_success` become visible in either order, which is
  what Relaxed allows. The counter wraps at `CounterMax`, as `fetch_add` does.
  History: `since` (failures since the last success), `lastFailure`, and
  `stores`, which remembers whether a pair of stores has been seen out of order.
- `BreakerOps`: the same methods as operators on a record, one step each, for
  the modules above it, with the wrap of the count. What happens between the
  accesses of a method (a deadline computed from a clock that has moved on when it
  is stored, the two stores of `on_success`) is the subject of `Breaker`, not
  repeated.
- `Upstream`: requests as tasks; a step runs from one await or shared atomic to
  the next. `TotalTimeout` drops the future at an await, with nothing recorded.
  History: what each backend really came to (`streak`, `lastFail`), and which
  requests were with it, or looking at its breaker, when it last failed (`exposed`).
- `Health` extends `Upstream` with a probe loop per address. History: failed and
  good probes in a row (`run`, `well`), and the failures of requests since the last
  good probe (`since`).
- `Worker`: accept loops, connection tasks and the drain, of both backends. A
  worker has one thread, so its steps run from await to await. The backends
  differ in two places: tokio calls the handler factory once per listener and
  catches the panic of a task; monoio calls it once per worker, before the
  runtime is built, and a panic takes the worker along. `home` is the kernel's
  choice of socket. `Server::wait` joins the workers one by one and adds up the
  counts each of them hands back; one that panicked hands nothing back. `Drain`
  is the abstract promise of the plane: connections are taken, end one way, and a
  final report says how many; `Worker` refines it with
  `state <- conn, stopping <- flag, summary <- report`.
- `Process`: main from its first line: it starts the threads in order, any of
  which may fail to start, to bind or to register its signals, waits and joins in
  order, and returns an exit code. A signal without a handler ends the process.
  Connections of a plane are one bit: is one being served.
- `Certs`: the certificate table as operators: what an entry needs from its
  files, which entry a server name gets, and the reference rule (`RightEntry`).
  A certificate and a key must parse; an OCSP response only has to be readable.
- `Reload` extends `Certs`: config versions instead of configs, files with
  contents that are good or not; `gen` tells reloads apart, since each builds
  Dispatches with fresh breakers and pools. Certificate files are read one by one.
- `Metrics`: every counter is a cell; a request has a list of cells to bump, a
  scrape a list of cells to load. A sum over counters is the number of units they
  hold, a cardinality.
- `TimedBody`: the queue of frames the inner body has ready, the timer, and
  whether the task has been woken.
- `H3Stream` extends it with the task that polls: `drive_request` from resolving
  the request to finishing the stream, spawned by the accept loop of
  `serve_connection`, which may end at any moment and takes the connection along.
  `ending` is what the client sees. An error of the body (`lib.rs:145`) makes
  `drive_request` return without `finish()`; its stream is dropped, and quinn
  finishes a dropped stream that was not reset. So a response cut short by a
  backend or by the read timeout ends with a FIN, like a whole one.
- `RouteTable`: builds the index route by route; the lookup is compared with a
  reference definition (`Candidates`, `Preferred`) over all queries. Both speak of
  the routes as `Route::from_config` makes them: it drops a regex that does not
  compile and a header predicate that does not parse. A path is a
  sequence over `Chars`. The stable sort of `finalise` is stated by the rank of
  each slot, and each scan of `find` by the least place that fits.
- `Dispatch` extends it: validation with the order of its errors, the building of
  upstreams and probes one by one while their files change, and `handle`.
- `MC*` modules: symmetry sets and finite inputs for TLC.
- `BreakerProofs`, `UpstreamProofs` (with `Health`), `WorkerProofs`,
  `ProcessProofs`, `ReloadProofs`, `MetricsProofs`, `H3StreamProofs`,
  `DispatchProofs` (with `RouteTable`): the theorems about the module each is named
  after, with their lemmas (section 5).

Operators named `...Mut`, `...Past`, `...Wide` or `...Deaf` are
mutants: plausible bugs that a property must detect. They are not used by the
specifications.

## 3. Runs that pass

| Run | Bounds | Shows |
|---|---|---|
| `breaker` | 3 callers, threshold 2, cooldown 2, 3 ticks, 4 failures, counter wraps after 3 | while stores are seen in order: counting is exact and a tripped breaker is armed; in any order: the next failure re-arms, and rejection ends within a cooldown |
| `upstream` | 3 requests, 2 backends, 2 attempts, threshold 1, cooldown 1 | retries within policy, one outcome per forward, rejection only by all backends, failing backends skipped, an even round robin, an open breaker's backend gets no new request, every request ends |
| `health` | 2 requests, 1 address, thresholds 2, counters up to 4 | how many failed probes trip, and how many good ones make up for whatever failed before |
| `worker` | 2 workers, 2 listeners each, 2 connections | counters match connections, at most one late accept per loop, joined is final, the plane implements `Drain`, shutdown ends |
| `process` | no listener; HTTP and H3; HTTPS; each with or without admin and probes | exit is last and 0 only if no worker cut a connection, planes stop only when told and do stop, SIGTERM followed by SIGHUP exits |
| `reload` | primary and 2 workers, 1 request, 2 edits, 2 SIGHUPs, configs with exact, wildcard and no certificates | uniform between reloads, rejected configs never served, a handshake gets the right and a usable certificate, no SIGHUP is lost |
| `metrics` | 2 requests, 1 bucket, 2 status classes | the histogram is monotone in every scrape; counters agree at rest |
| `h3_stream` | 1 stream, timeout 3, queue 2, 4 frames | only a whole response is a success and a FIN never follows a gap; a timeout means silence; silence ends; a task ends after its connection |
| `dispatch` | up to 3 overlapping routes over one upstream, and pairs of upstreams of every shape; 2 edits | lookup returns the best match, building loses no route, what is accepted is served as configured |

Why the bounds are enough: two actors race and a third disturbs them, so three
callers or requests cover the pairwise races with a bystander. Thresholds of one
or two reach closed, tripped and refreshed. A clock of a cooldown and some more
reaches before, at and after the deadline. The planes of `process` other than HTTP
take the same steps, so each config adds the ones that change what main waits for. Two edits and two SIGHUPs reach an
edit and a signal in the middle of a reload. Three routes put two in one slot and
one elsewhere. `CounterMax` stands for `u32::MAX`, above the thresholds, so that
counts both pass a threshold and wrap.

Fairness. Tasks and threads that can run do run, and timers fire: weak fairness
of the steps that need only the scheduler (`Begin`, `Scan`, accept loop steps,
joins, flag checks, the poll of a woken task) and of timeouts. Nothing is assumed
of clients, backends, operators or signals: a backend may hang, a client may stop
sending, a SIGHUP may never come. `H3Stream` has two assumptions of its own: the
handler answers, which the total timeout sees to (`table.rs:489`;
`EveryRequestEnds`), and an await of a stream whose connection is gone fails, which
is quinn's.

Deadlock is checked in every run; finished workloads stutter explicitly
(`Quiescent`, `Returned`, `Exited`, `Over`).

## 4. Disagreements

Three runs state a sentence of the documentation or a comment and find a
behaviour of the code that contradicts it; `findings` in `PROJECT.json` has the
quotes.

| Run | What the code does |
|---|---|
| `process_hang` | After SIGTERM the process waits for a SIGHUP |
| `reload_probes` | Probes report to breakers that plain-HTTP requests never use, nor any request after a reload |
| `dispatch_tls` | Requests go to an upstream with `[upstream.tls]` over plain http; its probes use https |

Others were met while translating the code. The modules follow the code, so
their behaviours are in the models, but no run is kept for them.

| Code | What it does | What is said |
|---|---|---|
| `breaker.rs:154` | reordered stores can leave a tripped breaker unarmed, and it allows requests until the next failure | `breaker.rs:151-152`: one spurious Allow |
| `breaker.rs:163` | the counter wraps, so a breaker closes under sustained failure (after 2^32) | the copy saturates |
| `conduit-upstream/src/lib.rs:652` | a late success closes an open breaker inside its cooldown | `lib.rs:84-86` |
| `conduit-upstream/src/lib.rs:675` | `RetriesExhausted` is never made; the last result is returned | `lib.rs:533-534` |
| `health.rs:158` | opens after `unhealthy_threshold + threshold - 1` failed probes (`FailedProbesTrip`) | `CONFIG.md:83` |
| `health.rs:209` | the body of a probe is read without a deadline | `CONFIG.md:82` |
| `main.rs:398` | with two listeners two workers may share a pool shard | `main.rs:383-385` |
| `main.rs:191` | a drain that reaches its deadline exits with 1 | `main.rs:56-57` |
| `main.rs:810` | without an HTTP listener the first SIGHUP stops the other planes | `main.rs:169` |
| `main.rs:655` | HTTPS connections are dropped, not drained | `README.md:40-41` |
| `main.rs:742` | requests during a reload can see configs out of order | `README.md:40` |
| `main.rs:749` | a bad certificate file leaves new routes with old certificates | `CONFIG.md:137-138` |
| `table.rs:385` | an unreadable upstream CA leaves routes to an upstream that is not there | `table.rs:505-508` |
| `table.rs:491` | a backend that hangs until the total timeout is never counted as failing, and stays in the rotation | `CONFIG.md:68` |
| `table.rs:103` | a path regex that does not compile matches every path; validation does not compile it | `table.rs:92-94` |
| `table.rs:122` | a header predicate that does not parse is dropped, so the route matches without it; validation does not look at predicates | `table.rs:36-38`, `table.rs:115-117`, `schema.rs:344` |
| `table.rs:64` | header predicates are evaluated (`FindIsBest`) | `CONFIG.md:115-118` |
| `table.rs:248` | a host is compared literally, ignoring case: `*` and `*.example.com` are names like others (`FindIsBest`) | `CONFIG.md:98` |
| `table.rs:267` | lookup goes through indexes (`FindIsBest`) | `ARCHITECTURE.md:146-147` |
| `table.rs:378` | the retry of a route is never applied | `table.rs:352-355`, `retry.rs:20-21`, `CONFIG.md:105` |
| `conduit-transport/src/tls.rs:192` | the certificate is selected by server name among all entries, with its OCSP response (`HandshakeGetsItsCert`) | `CONFIG.md:48-49`, `ARCHITECTURE.md:129-130` |
| `main.rs:749` | a SIGHUP reloads the certificates of HTTPS too (`HupConverges`) | `CONFIG.md:130-133`, `ARCHITECTURE.md:174` |
| `timed.rs:104` | `timeouts.read` is in force (`SilenceEnds`, `TimeoutMeansSilence`) | `CONFIG.md:104` |
| `conduit-h3/src/lib.rs:146` | trailers of a backend are dropped | `conduit-h3/src/lib.rs:136-138` |
| `monoio_worker.rs:146` | the handler factory runs before pinning and before the runtime is built | `monoio_worker.rs:81-83` |
| `monoio_worker.rs:70` | a panicking connection takes its worker and the worker's counts along | `conduit-io/src/lib.rs:134-135` |
| `main.rs:155` | a SIGTERM before its handler is registered ends the process at once | `README.md:40-41` |
| `metrics.rs:275` | a scrape can show a class bucket above its `+Inf` | `metrics.rs:271-275` |
| `metrics.rs:238` | dropped requests are in `+Inf` and were never observed | `metrics.rs:50-53` |
| `timed.rs:104` | a slow, never silent backend holds a connection for ever | `table.rs:50-51` |
| `table.rs:191` | routes are not evaluated in declared order (`FindIsBest`) | `schema.rs:39` |
| `table.rs:470` | `:authority` is not used for routing | `schema.rs:332` |

## 5. Proofs

Every theorem holds for all values of the constants that satisfy the named
assumption of its module: numbers are naturals (positive where the code needs
one: backends, workers, listeners, frames), sets of connections are finite, and
config values have the shape the parser gives them. Nothing else is assumed.
The bounds that TLC needs (`MaxTime`, `MaxEdits`, `MaxFrames` and so on) are
arbitrary naturals in the proofs.

`TypeOK` of each of these modules is proved as well; where it is more than a
type the text says so.

**Breaker** (`BreakerAssumption`).
- `RejectsWithinCooldown`: needs `DeadlineInv`: every deadline, stored or held in
  a local by a caller about to store or compare it, is at most `lastFailure +
  Cooldown`. The property alone says nothing of locals, so it is not inductive.
- `CountCorrect`: speaks of behaviours whose stores have been seen in program
  order so far (`stores = "in_order"`) and of a counter that has not wrapped
  (`since <= CounterMax`). `CountInv` adds that `since = 0` while an
  `on_success` runs, without which its second store would not preserve the count.
- `ArmedCorrect`: the same condition on the stores. `OrderedInv` says that as
  long as it holds, no caller is between a reordered pair of stores.
- `RearmCorrect`: no condition on the order of stores.

The conditions are needed: reordered stores erase a deadline or a failure, and a
counter that wraps forgets `CounterMax + 1` failures (section 4).

**Upstream** (`UpstreamAssumption`). Each action has an effect lemma
(`BeginEffect`, `ScanEffect`, `AwaitEffect`, `AttemptEffect`) that says which
fields of which request it writes; the invariants follow from those.
- `RetriesCorrect`, `OutcomeCorrect`: from `ForwardInv`, which ties the attempt
  counter to the list of attempts and says that nothing is recorded while a
  forward is under way. The properties speak of finished forwards only.
- `RejectionCorrect`: from `ScanInv`: a scan has been turned away by every address
  it has passed. That N consecutive values of the counter reach every backend is
  arithmetic of `%` (`ModReaches`).
- `RoundRobinCorrect`: from `RoundInv`: each backend has been given one request
  per full round of the counter, and those before the counter's position one more.
  Evenness alone does not say which backends are ahead, so one more request could
  break it.
- `RotationCorrect`: from `StreakInv`: up to `CounterMax` the breaker's count is
  the streak of failures in the history, and past the threshold the deadline is one
  cooldown after the last of them.
- `AloneCorrect`: `OpenBackendLeftAlone` is inductive. Only `Scan` adds to the
  requests under way with a backend, and not while its breaker rejects; only a
  recorded failure opens a breaker, and it takes down who is there.
- `WorkCorrect` (`BoundedWork`, an action property): `Left`, what a forward still has
  to do, falls with every step of it and with no other; it is at most one step per
  backend, one per attempt and two more. From `ForwardInv` and `ScanInv`.

**Health** (`HealthAssumption`), over the composition of requests and probes.
- `FailedProbesCorrect`: from `ProbeRunInv`: all failures of the current run but
  the first `UnhealthyThreshold - 1` have reached the breaker.
- `GoodProbesCorrect`: from `GoodRunInv`: after enough good probes in a row the
  breaker has counted no more failures than requests have returned since the last.

**Worker** (`WorkerAssumption`).
- `LateAcceptCorrect`, `JoinedCorrect`: from `LoopInv`. A worker starts to drain
  only when no listener waits to be registered (`SetupInv`), and a loop that
  accepted late looks at the flag next (`LateInv`).
- `CountsCorrect`: from `CountInv`, which gives each counter as the number of
  connections in certain states; the property only compares the two.
- `DrainRefinement`: every step of `Worker` is a step of `Drain` or leaves
  `conn`, `flag` and `report` alone (`DrainSteps`). It needs `TotalsInv`: what
  `wait` has added up so far is exact for the workers it has joined, and stays so
  because nothing moves on a joined worker (`JoinedKept`).
- `WindingCorrect` (`WindsDown`, an action property): with the flag set, an accept
  loop only moves towards its end, and a worker never goes back. That no handler of
  a joined worker can panic, which would make it a panicked one, is `JoinedIsFinal`.

**Process** (`ProcessAssumption`).
- `ExitCorrect`: from `PassedInv` (the threads main has joined are over) and
  `CleanInv`.
- `StopsCorrect`: from `CalmInv`: while nobody has sent SIGTERM and nothing has
  failed, main is at most waiting for the workers, so no flag is raised by it, and
  none by the signal thread. That `Calm` can only be lost (`CalmBefore`) makes the
  induction go through: the history variables only grow.
- `TermCorrect` (`TermNotLost`): from `FlagInv` (main raises the flag of a thread
  before it joins it, and that of the signal thread last) and `SignalInv`. The case
  that needs both is a SIGTERM that arrives while main is joining: the signal thread
  may return without it, but only when every plane has its flag already.

**Reload** (`ReloadAssumption`, with the types of certificate entries and names).
- `UniformCorrect`: from `UniformInv`: during the stores, the swappables already
  passed hold the new build.
- `RejectedCorrect`: from `SoundInv`: what is in use, in hand or about to be
  loaded was on disk and passes `check_logic`.
- `HandshakeCorrect`: from `TableInv` (only a table all of whose files were read
  and usable reaches the swap) and `ResolveCorrect`: on a table that
  `build_table` made of any entries, `resolve` of any name gives an entry that the
  reference rule `RightEntry` picks.
- `HupCorrect` (`HupNotLost`, an action property): `Settling` says that the files are
  in order and a reload is to come, is under way on the files as they are, or is
  done (`Converging`). No step but an edit ends it (`ConvergingStep`), and when the
  thread is idle it leaves only the last case.

**H3Stream** (`H3StreamAssumption`).
- `FinishCorrect`: from `FramesInv`, which accounts for every frame of the body:
  sent, dropped, in hand or still to come. It covers streams that are finished by
  being dropped as well as by `finish()`.
- `TimeoutCorrect`, an action property: from `SilenceInv`: an armed timer that no
  frame has made stale measures the backend's silence.
- `WakeupCorrect` (`NoLostWakeup`): with `OpenInv`, a body being sent has not ended.

**Metrics** (`MetricsAssumption`). `Due(X)` is what the counters in X hold plus the
bumps of X that requests have decided on and not yet made (`Owed`); a bump moves
one from the second part to the first (`DueBump`), so only `Start` and `Handled`
change it.
- `ReconcileCorrect`: from `LedgerInv`: of what is due, each class has as many
  durations as responses, its buckets no more, and each error shows among the
  responses of its class. At rest nothing is owed, and the ledger is the property,
  which by itself says nothing of requests half way.
- `HistogramCorrect`: from `StartInv` (requests in `handle` and bucket bumps due,
  together, are at most the requests started) and `ScrapeInv`: what was loaded is at
  most what the counters hold, since counters only grow (`CountersGrow`), and `+Inf`
  was loaded when it was no less than the buckets loaded before it. `LoadOrder` says
  where the buckets and `+Inf` are among the loads of `render`.

**RouteTable and Dispatch** (`RouteTableAssumption`, `DispatchAssumption`: match
tables have the fields of the schema, literal paths are sequences, documents are
lists of routes and upstreams), for any config and any set of requests.
- `RoutesKept`: from `TableInv`: each bucket is `BucketOf` the routes read so far
  that belong to it. `BucketOf` says where a route of each kind is, that a slot
  holds exactly the routes of its path (`SlotsOf`), no two slots have the same
  path, and each list is in declared order (`ListOf`). `NoRouteLost` alone allows
  two slots of one path, and an insertion into the second would be out of order.
- `FindCorrect`: `FindInIsBest` says that the lookup in any such bucket, once
  sorted, returns the best of its routes. The exact slot and the lists are in
  declared order, so the least place that fits is the route declared first. For
  prefixes (`PrefixLongest`): prefixes of one path that are equally long are equal,
  hence the same slot, so the order of slots settles the length and the order in the
  slot the rest. `SortedByLength` shows that ranking is a permutation that puts
  longer keys first, by counting: ranks are distinct numbers in 1..n, hence all of
  them.
- `ServedCorrect`: from `LoadInv` (an accepted document is `Sound`: upstreams have
  addresses and names of their own, every route names one; `LogicIsSound` derives
  it from the order of errors in `check_logic`) and `MapInv` (the map has each
  upstream met so far under its name unless it was skipped, and nothing else).
- `ProbesCorrect` (`ProbesServed`): from `ProbeInv` and `MapInv`: probes are built
  only over the complete map, and for names it has.

Only model-checked:
- Liveness (`EveryRequestEnds`, `ShutdownEnds`, `PlanesEnd`, `TermThenHupExits`,
  `HupConverges`, `SilenceEnds`, `OrphanEnds`): it needs ENABLED, which the prover does not have.
  Five of the theorems above are the part of it that does not depend on fairness:
  `WorkCorrect` of `EveryRequestEnds`, `WindingCorrect` of `ShutdownEnds`,
  `TermCorrect` of `PlanesEnd`, `HupCorrect` of `HupConverges` and `WakeupCorrect`
  of `SilenceEnds`. They say that the work left is bounded, or that what is to
  bring the end about is never lost. That the remaining steps are taken is left to
  the runs. These definitions, and `ProbesServed`, are stated in the proof modules
  and have no run of their own.

## 6. What is abstracted or left out

- Text, headers other than a route's conditions, URIs and bodies.
- The retry policy and breaker settings are constants. The binary always uses
  `RetryPolicy::default()` (`table.rs:378`); several attempts are reachable
  through the crate's API.
- `breaker_state` and `snapshot` only read: they show the admin plane each breaker
  at a moment of its own, and promise nothing of the whole.
- `H3Stream` has one stream of its connection; streams share no state.
- `Metrics` treats atomics as sequentially consistent. The wrap of the
  round-robin `usize` is not modelled.
- `Reload` keeps of a config its version, whether it validates and its certificate
  entries; a reload whose config has no `[tls]` leaves the table as it is.
- `Process` leaves the panics of connection tasks to `Worker`, and repeats none of
  its drain: the workers end with or without a connection cut.
- Documents of `Dispatch` have the fields that validation, building and lookup
  tell apart; a file is good, garbage or missing.
- quinn, h3, hyper, rustls, the signal iterator and the operator are external:
  their steps are what the code can see of them.
- Not modelled, because they hold no state or only move bytes: TOML and duration
  parsing, worker-count parsing, header rewriting, the text of metrics and of the
  admin endpoints, `conduit-h1` and `conduit-h2` (wrappers around hyper),
  `conduit-proto` (traits; its cancellation token is not used by the binary),
  logging, socket options. TLS handshakes and the QUIC connection belong to
  libraries.

## 7. Plan

Model more: a composition of `Reload` and `Upstream` (breakers lost by a
reload), a body limit and a handshake timeout once the code has them.
