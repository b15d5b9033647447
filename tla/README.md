# A formal model of beherouter

beherouter is a gateway that publishes several MCP surfaces from one process.
Each surface attaches to a backend (a remote MCP server, a command line tool or
an in-process plugin), and every call to it goes through one pipeline of gates.
This directory holds TLA+ modules that model it, the TLC runs that check them
on small instances, and theorems that TLAPS proves for every instance.
`PROJECT.json` lists the components, the runs, the source lines each definition
stands for, the hazards, the findings and the theorems.

All source paths below are relative to `src/src/beherouter/`.

## 1. The system

The gateway is one Python process with one asyncio event loop.  Code between
two `await`s is atomic; everything else interleaves.  A few pieces cross that
line: files read by `stat` and shared with other processes (registry, kill
switch, identity maps), and functions run in threads (`asyncio.to_thread`).

| Component | State | Operations | What is hard | What makes it correct |
|---|---|---|---|---|
| `reload.py` Reloader | running task, one follow-up future, closed flag | request, run, cancel | requests during a reload, failed applies, cancellation | fresh answers, nobody left waiting, nothing starts after the close |
| `runtime.py` GatewayRuntime, SurfaceTable, Supervisor | table of slots, retry tasks, supervisors, health sets | boot, start, install, retry, reload, remove, app death, shutdown | every await in an install is a window for the app, the retry or shutdown to change the slot | a down surface is retried once with the entry in force, a working one stays, health is the truth, no app leaks |
| `runtime.py`, `reload.py`, `registry.py` registry watch and SIGHUP | fingerprints, watch baseline, registry in force | poll, load, fingerprint, diff, save | an edit that lands between two of the reads that boot, a tick and a reload make of the same files | no edit is missed, no fingerprint is newer than what it stands for |
| `killswitch.py`, `admin.py` | file, stat cache, stale flag, lock | state, update, stop, resume, block, unblock | another process writes the file, a malformed file, a read-modify-write through threads | last good state in force, no acknowledged change lost |
| `gates.py`, `pipeline.py`, `outcomes.py` | token buckets, confirmations | the phases of a call | the order of the gates, a refused call that is charged, a timeout | a refused call never reaches the backend, one outcome per call |
| `tokenexchange.py` | exchanger per surface, its token cache, exchanges in flight | exchanger_for, token, exchange, settle | a leader that hangs up, a reload under waiting calls, expiry skew | everyone gets his own token for his own target, waiters do not disturb each other |
| `catalogue.py` | tool list, age, re-list in flight, status, drift | ensure_fresh | concurrent, failing and abandoned re-lists | one re-list at a time, no drift overwritten, an old list is said to be old |
| `plugins/calendar/executor.py`, `oauth.py` | providers per caller, calls in flight, access and refresh tokens | run, evict, sweep, aclose, refresh | eviction of a provider in use, closes that raise or are cancelled, rotated refresh tokens | no client is closed under a call, every evicted one has a closer, no rotation is discarded |
| `plugins/calendar/consent.py`, `identity.py` SecretMap | the identity map file, its lock | grant, revoke, lookup | two processes on one file, a crash between write and rename, a revoke during a grant | no lost update, atomic replacement |
| `registry.py`, `identity.py`, `envexpand.py`, `auth.py`, `plugins/spec.py` | policy per surface, the reason of a refusal | validate, expand, verify, gate, resolve | one rule spread over the registry, the attach and the transports | no surface is believed per-user and shared, what lint passes boots |
| `gateway.py`, `surface.py`, `backends/`, `health.py` | backends, transports, processes, what failed | preflight, attach, close, call, probe | parallel attaches that fail, hang, are refused or cancelled | whatever was opened is closed, what is reported is what happened |
| `args.py`, `search.py`, `indexing.py`, `catalog.py`, `costing.py`, `audit.py`, `metrics.py`, `clientconfig.py`, the rest of `cli/` and `plugins/` | files and values | parse, render, score, print | formats | not concurrent; not modelled |

Interactions: the admin API, SIGHUP and the registry watch call
`Reloader.request`; the Reloader runs `GatewayRuntime.reload`; reload, boot and
the retry tasks attach through `gateway._attach_one` and install through
`GatewayRuntime._install`; an app that dies calls back into
`_serving_failed`; shutdown cancels all of them in turn.

## 2. How the models are made

* **A step is what a task runs between two awaits.** That is the atomicity of
  asyncio, so each action is one such stretch, with everything it changes.
  Where a stretch loops over surfaces (`GatewayRuntime.reload`), it takes
  several steps and a guard (`Yielded`) keeps every other task out of them.
* **Data are what the properties tell apart.** A registry entry is a value that
  stands for the entry with its placeholders resolved; a tool descriptor is what
  it says of writing; a token is for whom, for what and until when.
* **The environment is nondeterministic**: attach outcomes, backend answers,
  edits of files, hang-ups of clients, time.
* **History variables** (marked `history` where they are declared) record what
  happened for the sake of a property; no action's guard reads one that the
  program does not have.
* **Bounds** are constants marked `bound`; they appear in guards only.
* **Mutants.** Next to a definition stands, where a property needs one, the same
  definition with a plausible bug (`\* Mutant:`). No specification uses them;
  `PROJECT.json` says which run must catch which.

## 3. The modules

### Reloader (`reload.py`)

`task` is `_task` with the state of its coroutine, `next` says whether `_next`
is a future, `pc[r]` is where a requester is.  `RequestClosed`, `RequestBusy`
and `RequestIdle` are the three branches of `request`; `FirstStep`,
`ApplyEnds` and `Unwound` are the stretches of `_run`, `Unwound` being its
`finally`; `Cancel` is `cancel`.  `CancelBeforeFirstStep` says whether `cancel()`
can come between `create_task` and the coroutine's first step.  The apply is
opaque here.

### RegistryWatch (`runtime.py`, `reload.py`, `registry.py`)

Reloader with what it applies and what asks it to.  `disk` and `toml` are the
registry and the secret files it names; `work` is the boot or the reload under
way, which loads the registry, fingerprints its entries one file at a time,
compares and attaches, each reading the disk at its own moment; `force` is the
registry and the fingerprints in force, `running` what each app was attached
with; `watch` is the watch between its ticks, with the stamps it has.  `Edit`,
`Rotate` and `SaveBegins`/`SaveEnds` are other processes, the last two being
`save_registry()`, which truncates the file in place.  Every step is a step of
Reloader or leaves its variables alone, which section 5 proves.

### SurfaceRuntime (`runtime.py`)

`slot` is the `SurfaceTable`, `sups` the supervisors, `retries` the retry tasks,
`failed`, `configFaults`, `reloadFailed` and `series` what `/healthz` and the
metrics say, `driver` the local variables of `start` and `reload`.  The actions
follow the awaits of boot, `_install`, `reload`, `_retry`, `Supervisor._run` and
`shutdown`.  An app that fails to start in a reload may, as an attach, fail for its
configuration, which is then not retried.  `DieAnytime` says whether an app may die
while boot, a reload or shutdown is at work.

### RegistryRules and Gateway (`registry.py`, `identity.py`, `auth.py`, `gateway.py`, `backends/`, `health.py`, `cli/app.py`)

`RegistryRules` holds the rules as operators without state: what an entry and its
`[surface.identity]` and `[surface.authz]` may say (`EntryAccepted`), what the
environment adds (`Expands`, `CheckRegistry`), whether `registry-lint` passes
(`LintAccepts`), how a token is verified and why it is refused (`VerifiedAs`,
`Reason`), whether a caller passes the gate of a surface (`Gated`) and which
credentials become his material (`Materials`).  A plugin is the record of what its
`PluginSpec` says that matters to those rules.

`Gateway` is one gateway over one registry and one environment, both chosen at the
start.  `att[s]` is where the attach of a surface is, `open[s]` counts the
transports, clients and providers made for it and not closed, `backends` are those
that have an owner, `failed`, `faults`, `missing` and `raised` what the boot
reports.  `Boot` and `Refuse` are `preflight` and `check_registry`; `Opens`,
`Lists`, `Attached` and their failures are `load_backend`, `_attach_one` and
`_finish_attach`, interleaved over the surfaces; `Raises` and `Serves` end
`build_surfaces`, `Retry` is the task that tries a failed surface again.  A request
is `Denied` by the verifier or `Presents` a token to a surface, `Settles` its
exchange, `Sends` to its backend what that backend carries (`Applies`) and
`Ends`.  It is *refused* for what the caller lacks, a *fault* if the registry is wrong,
and *unsettled* if what its identity needs of the environment is not there: the map
of a lookup, the client and the secret of an exchange.  The variable of the roles claim
(`os.claim`) is set, unset or blank, which boot and lint read differently.
`HealthRecord` and `RedRecord` are a deep sweep and its exit status; the probe as a user
(`UserProbe`) is given what it meets: an exchange that yields a token or not, an answer
that names the caller, someone else or nobody.

### KillSwitch (`killswitch.py`, `admin.py`)

`file` is the file with its stamp, `cache` the stat cache, `reader` a `state()`
between its two system calls, `req` the admin requests between their awaits and
threads, `orphans` the writes of threads whose request was cancelled.  `Edit` is
another process that writes, `Restart` a crash.

### RateLimiter and TokenBucket (`gates.py`)

`RateLimiter` has the table as the code has it: a bucket is stored with the time
it was touched, computed on demand, and dropped by a sweep once it is full.
`TokenBucket` is the promise: a bucket per caller, always there, filling all the
time.  `RateLimiter` implements it with `level <- Level`, what a caller could
spend now.  The wait that a refused caller is told is rounded as the code does it, to
the nearest `Grain` (a microsecond there) and then up to a second.

### TokenExchange (`tokenexchange.py`)

`exchanger` is `_EXCHANGERS[surface]`, `cache` its LRU list, `task` the
exchanges in flight of each generation of exchangers.  A token is issued at one
moment and received at a later one, which is what the expiry skew is for.

### Catalogue (`catalogue.py`)

The tools installed, the age, the re-list in flight, status and drift of one
catalogue, against a backend whose tools change.  A re-list that fails restarts
the TTL, one whose client leaves does not.

### CallPath (`pipeline.py`, `gates.py`, `surface.py`, `identity.py`, `killswitch.py`)

The calls of one surface, each from `CallPipeline.run` to its outcome.  `conf` is
what the registry entry says (mode, audience, roles, tool gates, limit,
confirmation, timeout); `listed`, `expired` and `leader` are the catalogue;
`tokens` the buckets.  A call is *relisting*, *asking* a human, *settling* its
exchange, *running* in the executor or *aborting* after its timeout, and its
client can leave at each.  The gates are operators in the order of the code:
`Admitted` (guard, kill switch), `Works` (the function), `Stages` (roles),
`Charges` (limit), `Confirms` (question), `Resolves` (identity), `Executes`.
`told` is the names a call gives away; `drift` those that the catalogue's report of its
last drift has, which `context_cost` passes on to whoever asks.
`Lists` is `tools/list`, which goes around the pipeline and applies the gate
itself.

### CalendarExecutor (`plugins/calendar/executor.py`, `oauth.py`)

`cache` is `_providers`, least recently used first, `retired` and `inflight` are
`_retired` and `_inflight`, `life[p]` how far the close of a provider has come.
A call begins with a provider (`RunShared`, `RunCached`, `RunBuilt`), refreshes
its access token if that has run out (`Answers` is the identity provider,
`Refreshed` the code after the await, `Unread` the same for an answer that is lost or
cannot be read, which has rotated the token all the same), `Returns`, and then closes what was retired
meanwhile one await at a time (`Sweep`); it can be cancelled at each.  `Shut` and
`ShutSweep` are `aclose()`.  `retired`, and what a call or `aclose()` has detached to
close, are sets: the code closes them in the order of its list, the model in any
order but that a close which has begun goes on, so it has the code's behaviours
and more.  `rt[p]` is which rotation of the refresh token a
provider holds, `current` which one the identity provider accepts.

### IdentityMap (`plugins/calendar/consent.py`, `identity.py` SecretMap)

The runs of the consent command are processes that share one file: `Lock`,
`Change` (the read and the change of the document, under the lock), `Replace` (the
rename) and `Unlock`, with a `Crash` between any two, for a grant and for a revoke
that asks the provider first.  `versions` is every content the file has had;
`reader` is the gateway, whose `Stat` and `Parse` are two moments.  The size in a
stamp is the number of values in the map, tokens being of one length.

### How they compose

RegistryWatch extends Reloader and refines it.  In both the attaches are opaque or
succeed; SurfaceRuntime is their inside, and starts a reload only in phase `up`,
which is what `Reloader.request` after `cancel` guarantees.  Gateway is what is
inside an attach, from the registry entry to the open transport, and which
credential a call then carries; CallPath is the same call seen from its gates.
CallPath uses Catalogue, RateLimiter, KillSwitch and TokenExchange by what they
promise: a list is as old as it may be, tokens come back, the switch turns, an
exchange ends at any time.  CalendarExecutor is an executor behind CallPath,
IdentityMap the file that a lookup reads.

## 4. The runs

| Run | Instance | What it shows |
|---|---|---|
| `registry_watch` | the watch and an admin, 1 secret, 2 writes and a save, reloads that are refused, raise or are cancelled | Answers are fresh, nobody is stranded, no fingerprint is newer than its app; once the disk is left alone, every app serves what it says. |
| `surface` | 2 surfaces, 2 entries, 2 reloads, 1 death | Down surfaces are retried once and with the entry in force; the table and the health report are right, `reload_failed` until an app dies. |
| `surface_live` | 1 surface, 2 reloads, 2 deaths at any await | Apps have one owner, series follow the slot, a reload takes no working surface down; surfaces recover, boot, reloads, closes and shutdown end. |
| `surface_added_dies` | 2 surfaces, 1 entry, 1 reload, 1 death | A finding, section 6. |
| `killswitch` | 2 items, 2 admin requests, 3 stamps, 1 crash, 1 cancellation | An acknowledged change is kept and in force; the state in force is one the file had; `stale` is the truth. |
| `rate_limiter` | 1 user and the shared bucket, 7 ticks | The bound over every window, the wait that is enough but for the rounding, and TokenBucket is implemented. |
| `token_exchange` | 2 calls, 2 callers, 2 configurations, cache of 1 | Own, live tokens; waiters do not disturb each other. |
| `catalogue` | 2 tools, 2 calls, 6 ticks, TTL 2 | One re-list per TTL, drifts are not overwritten, expiry is noticed. |
| `callpath` | 2 calls, 3 callers, 2 tools, 3 configurations, 2 changes | Refused calls cost nothing, tokens are accounted for, hidden tools stay hidden but in a report of a drift, no unapproved write, calls end but in a re-list. |
| `calendar` | 2 users and the deployment, 2 calls, 3 providers, cache of 1, 2 rotations, 1 cancellation, failing close or lost answer | While the surface serves, no client is closed under a call; evicted providers are closed unless that fails or is cancelled; rotations are kept. |
| `identity_map` | 3 consent runs, 2 subjects, 2 surfaces, 2 mtimes, crashes | No update is lost and no live token goes astray; a call sees what the file holds. |
| `gateway` | some forty registries of a varied and a plain surface, 6 environments, 4 tokens, 2 requests, 1 retry | Who is refused when and what is said of it, what stays open, whose credential is carried. |

**Why these bounds are enough to be of use.** The hazards need two or three
actors and one or two failures: a reload over a retry over a death, a second
request behind the first, a leader that hangs up with one waiter left.

* `registry_watch`: a pass over the registry makes four kinds of reads, and one
  write can fall between any two; the second is one that the reload answering the
  first must not hide.  One secret and the registry are two files with
  different moments.
* `surface`: two surfaces show that one reload has several targets; two reloads that
  a failed one is followed by another; three supervisors per surface are the one
  that serves, the one being started and one still closing.  Deaths are kept out
  of a reload (section 6 says what happens otherwise); `surface_live` lets them
  happen anywhere and pays with one surface.
* `killswitch`: three stamps let an edit fall before, between and after two requests,
  and two items let them change different things.
* `rate_limiter`: four calls in five seconds leave a refused caller with fractions of
  a token, a grain of half a second makes `round()` take from some of the waits, the
  burst is above one and seven ticks are longer than a refill.
* `token_exchange`: one tick, lifetimes of one and two and a skew of one give a token
  too short-lived to keep, one received late and one that has expired.
* `callpath`: two changes are enough for a tool to change *and* the list to expire, or a
  token to come back after a refusal.
* `calendar`: with a cache of one the second caller evicts the first while it calls,
  and the third provider is the first caller's next one.
* `identity_map`: three runs are a grant, a revoke of it and a third that
  overlaps both; two mtimes let a rewrite keep its stamp or not.
* `gateway`: a registry has one entry for each mode of each kind of backend and one
  for each way of being refused, beside a plain surface which must not suffer
  from it; the environments differ in the mode, the roles claim, the identity map and
  the verifier.

**Symmetry** is used in safety runs only (`killswitch`, `token_exchange`,
`calendar`, `identity_map`, `gateway`).  **Deadlock** is not checked: the gateway
may be idle for ever, and the clocks and counters are bounded.

**Fairness**, always weak and of single tasks unless said otherwise:

* RegistryWatch: the loop steps the reload task and a reload ends, since each attach
  has a timeout; the watch wakes up; a save that has begun ends.  Nothing makes
  anybody write or ask.
* SurfaceRuntime (`surface_live`): a task that is ready runs; an attach and the start
  and close of an app end (each is bounded by a timeout); an attach that is tried
  again and again, and the start after it, succeed some time (strong fairness): the
  backend comes back.
* Catalogue: calls keep coming, from some time on clients wait, and the backend
  answers or fails.  Without the last the property fails, see section 6.
* CallPath: the timeouts of a question and of a call fire and a cancelled executor
  stops.  Nothing makes the backend answer a call or a re-list: `EveryCallEnds` speaks
  of a call wherever it waits but in a re-list, which has no timeout.

The other specifications state no fairness; their runs check safety only.

## 5. The proofs

TLAPS proves, for every value of the constants, with the bounds of the runs
(`MaxNow`, `MaxStamp`, `MaxGen` and so on) arbitrary:

* **RegistryWatchProofs**, on Reloader: `TypeCorrect`; `ReloadsAreFresh`, with the
  inductive invariant `Fresh`: besides the answers, whoever waits on the apply in progress made
  the request before it started; and `WaitersAreServed`, under the assumption
  `CancelBeforeFirstStep = FALSE`, where `NoWaiterIsStranded` is inductive with the
  types.  On RegistryWatch, which extends it: `WatchRefinesReloader`: `WSpec` implies Reloader's
  `Spec`, step by step, each action of the composition being one of Reloader's or a
  stutter.  The two theorems above then hold of the composition as corollaries
  (`WatchIsAnsweredFreshly`, `WatchIsAnswered`).  `FingerprintsAreHonest`: writes
  only ever go up, so a fingerprint taken before the attach reads the file is not
  newer than the app; the invariant `Printed` says so of the fingerprints that a
  pass has taken and not yet put in force.  `WatchTypeCorrect` stands on it: an app runs
  on a write that the disk has had, and at most one write, the end of a save that had
  begun, goes beyond `MaxWrites`.
* **SurfaceRuntimeProofs.** `TypeCorrect`, with one lemma for each group of
  actions and the helpers they share; and `SeriesCorrect`, that the session
  series is that of the app in the slot, inductive with the types once it is
  known that a failed attach keeps the app (`AttachFailedKeepsApp`).  `AppsOwned`
  proves `AppsAreOwned`: the invariant `Owners` says of each surface (`Kept`) that
  its serving supervisor is the one its slot names and that a starting one is
  awaited by boot or reload or by exactly one retry; that a retry whose slot is in
  the table finds it there; and (`Untouched`) that boot has not touched what it has
  still to install.  Lemmas over one slot, its supervisors and its retries
  (`KeptServes`, `KeptCancels`, `KeptRetryServes`, ...) say what each kind of step
  does to it, and one lemma for each action applies them.
  On it stands `Sound`, the invariant of the four properties about retries, the
  registry and health.  It gives for each surface what must be `Right` of it: the
  entry it is to run (`Now`: that of the registry in force, or of the new one once
  the reload has passed it), whether its slot is routed (`Routed`), whether the app or the
  retry there is of that entry (`Apt`), whether a slot that answers 503 names the
  one live retry (`Retried`, `Linked`) and whether the health sets say so; the surface
  that is being installed is excepted, and what it may be meanwhile is said instead.
  From it follow `RetriesAreOne`, `PendingHasRetry`, `EntryInForceServed` and
  `HealthIsTrue`, each under the hypothesis `DieAnytime = FALSE`, an app dies only
  when nothing is being installed: without it all four fail, for the reason that
  `surface_added_dies` shows (section 6).  What `HealthIsTrue` says of `reload_failed`
  is `StaleServes`, inductive with `Owners` and `Holding`: only a failed attach or start
  adds a name to it (`WhoMarks`), of a slot that keeps its app (`MarkedServes`).  `WorkingStays` needs no such hypothesis: its
  invariant `Holding` says what a driver and a retry that wait have in hand, and
  `LosesApp` which steps take the app of a slot away.
* **RateLimiterProofs.** `TypeCorrect`; `WindowBound`; `WaitNearlyEnough`; and
  `Refinement`, that RateLimiter implements TokenBucket.  All rest on
  `SweepKeepsLevels`: dropping a full bucket changes no caller's level.  The bound itself is not inductive: a
  caller could be at the bound with a full bucket.  The invariant is
  `passed * PerS + Level <= Full + Calls * (now - start)`: what went through plus
  what is left.
  That of `WaitNearlyEnough` (`PromiseInv`) is that at the promised time the level
  of the refused caller will be short of one token by half a grain of refill at the most.
  It rests on the arithmetic of the two roundings (`RoundedBounds`,
  `RoundedUpBounds`, `WaitCovers`).  The property grants a whole grain, and says what a
  caller meets who is still short: a wait of one second.
* **FreshnessProofs**, on what is kept fresh by looking again.  Of KillSwitch `TypeCorrect`
  and all four properties of the run.  Two
  (`AcknowledgedStays`, `AcknowledgedIsSeen`) are invariants, two (`StateIsOfTheFile`,
  `StaleIsTheTruth`) say what a step may do.  The invariant says that a stamp is
  written once (`Stamped`), so that a cache with the file's stamp has the file's
  content (`Cached`), that the content a reader has in hand is one the file had
  since it began (`Reading`), and what a request may be about to write under the
  lock (`Mine`, `Kept`).
  Of Catalogue `CatTypeCorrect` and `OncePerTTL`.  The invariant `Paced` says that
  one call fetches at a time, and only what is past its TTL; that the catalogue was
  fetched no earlier than it was last asked for; and that a drift on report is of
  the last fetch.
* **TokenExchangeProofs.** `TypeCorrect`, `TokensAreOwn`, `WaitersAreSafe`.  The cache
  is handled by three lemmas on sequences: what is removed, appended and evicted
  leaves it `Honest`, that is with one token per subject, for the target in
  force, and believed no longer than it lives.  The last needs `DelayAssumption`,
  that no token is under way for longer than the skew.  `Exchange` says that the
  exchanges of the exchanger in force are for its target and that later ones have
  none, so that a call that joins one joins one for its own.
* **CallPathProofs.** `TypeCorrect`, `RefusalIsFree`, `ChargesAreExact`,
  `NothingHiddenIsTold` (of every function but `context_cost`, and of that one too for a
  caller whom the surface turns away), `NoWriteUnasked`: all of CallPath but its liveness.  One
  predicate, `Right`, says what is known of a call at each place it can be
  in; one lemma per stage, in the order of the code, hands the call on to the next.
  `ChargesAreExact` counts: the tokens of a bucket and the calls charged to it, a
  finite set, add up to the burst and what came back.
* **CalendarProofs.** Of CalendarExecutor `TypeCorrect`, `ClosedOnlyIdle`, `OneCloser`
  and `RotationKept`; of IdentityMap `MapTypeCorrect`, `NoneStray` and `ServedFresh`.  `Sound` says where a provider can be: `Placed`,
  that it is in the cache, retired while a call counts on it (`inflight` is the number
  of such calls), with exactly one closer, closed, or given up
  by a cancellation or a close that raised; it is why detaching the list before the first await is enough.
  `ClosedOnlyIdle` holds until `aclose()`, which closes under calls; `OneCloser` says of
  what leaks only that it takes a cancellation or a failure (`LossDrops`).
  `Rotating` follows a refresh token: a provider that is alone with its grant
  has the rotation in force, or (`Fresh`) one call of it has been granted that one
  and no request under way carries a later one.  Two calls that refresh at once with one token do not lose it: the one
  that is refused changes nothing.  `Consented` is the invariant of the consent runs:
  who has the lock (`Guarded`); that what a run is about to write is what the file is now
  but for its own change (`Asked`), which is what the lock is for; that a token is
  nowhere before it is issued (`Unissued`); and that the token which a revoke read is
  the one it will remove, unless a grant crossed it (`Revoked`).  `NoOlder` says that
  what the gateway has cached is of a version no older than the one whose stamp it
  goes under, since the stat comes before the read; `ServedIsFresh` is inductive
  with it.
* **GatewayProofs.** The six properties of the run.  `Owned`, `Requested` and
  `Reported` say what each state of an attach has open, owns and has recorded;
  `Checked` what is known of a registry that booted; `Vetted`, `Carried` and
  `Judged` what is known of a call that was let in, of its material and of what
  became of it.  `NeverShared` joins three of these: what the registry refuses, what
  an attach refuses, and what each transport carries.  `FaultsAreEarly` is about the
  registry; what the environment lacks (`Judged`) is met by calls to a lookup or an
  exchange.  `OperatorKnows` has the exceptions that section 6 lists for
  `OperatorIsToldTheTruth`.  The proofs use three
  assumptions about the plugins considered: `BackingAssumption` (the five backings),
  `TargetAssumption` (`plugins/spec.py`: "`target` follows the backing", which no
  code enforces and every shipped plugin obeys) and `FaultAssumption`.

FreshnessProofs and CalendarProofs each extend two models that do not interact:
IdentityMap and Catalogue prefix the names that every module has (`MapSpec`,
`CatSpec`) so that they can be extended beside another.

Only model-checked: all liveness (`WatchConverges`, `PendingRecovers`,
`EveryWaitEnds`, `ExpiryIsNoticed`, `EveryCallEnds`), which is out of this prover's
reach; and what lies beyond the bounds of a single model, as section 3 says of each
abstraction.  No module with a theorem reaches a RECURSIVE definition.  RateLimiter's proofs are over exact fractions: they cover
`round(wait, 6)`, not the error of the floats it is applied to.

## 6. Findings

**A surface that is added and dies during the same reload is never retried**
(`surface_added_dies`, `runtime.py:447`).  `_serving_failed` looks for the entry in
`self.registry`, which is still the old one until the reload has been through all
its targets (`:618`).

Seen while modelling.  Each of these is either excepted by name in a property,
excluded by an assumption, or outside the model:

* `killswitch.py:215`: a request that is cancelled while its thread writes leaves the
  lock at once; the write can land after another request was acknowledged and undo
  it, though the docstring (`:192`) says "under a process lock, atomically".
  `AcknowledgedIsKept` excepts exactly this.
* `catalogue.py:172`: a re-list that is never answered is silent.  It has no timeout
  (`backends/mcp.py:415`), its flag keeps every other call from asking, and the status
  stays `ok`, which `catalogue.py:22` rejects.  The fairness of Catalogue excludes it.
  The call that asked hangs with it, since its timeout begins only at the executor
  (`pipeline.py:128`); `EveryCallEnds` excepts a call in a re-list.
* `surface.py:502`: the drift that `context_cost` reports names tools that were added,
  removed or are missing, whoever asks.  `docs/IDENTITY.md:384` lists where a tool that
  is gated is not shown (`tools/list`, `search_tools`) and does not name this outlet;
  `gates.visible` is not asked.  `HiddenStaysHidden` excepts it.
* `gates.py:314`: the wait is rounded to a microsecond before it is rounded up, so a
  wait just over a whole second is told as that second, and the floats of the refill
  (ten times 0.1 is less than 1) fall short of exact fractions.  `docs/DEPLOYMENT.md:309`
  says "int, rounded up".  A caller that waits as told can be refused once more
  and told one second.  `WaitIsNearlyEnough` grants it.
* `reload.py:153`: a `cancel()` before the first step of `_run` leaves its
  requester waiting, since no `finally` runs (`CancelBeforeFirstStep = TRUE`
  violates `NoWaiterIsStranded`).
* `runtime.py:390`: a registry that names a secret file which is not there yet is
  refused, and the file is not among the watched paths: when it appears, nobody
  looks.  `docs/DEPLOYMENT.md:62` promises "every `${file:}` it names".
  `MayBeMissing = TRUE` violates `WatchConverges`.
* `runtime.py:655` and `:447`: with `DieAnytime = TRUE`, an app that dies while a
  reload replaces it starts a retry that `_attach_failed` overwrites or the
  install leaves running; `OneRetryPerSlot` and `ServesEntryInForce` fail then.
* `runtime.py:438`: a surface in `reload_failed` whose app dies is still listed
  there, which `docs/DEPLOYMENT.md:183` defines as still serving.
  `HealthTellsTruth` says so of `reload_failed` only until an app has died.
* `pinned_missing` keeps a surface that was refused after its pins were compared,
  although it is documented for attached surfaces.
* `gateway.py:361`: `build_surfaces` says that it closes what was built if anything
  raises; cancelled from outside while it gathers (`:370`), it does not get that far.
  Only an abandoned boot meets this.
* `surface.py:335`: a pinned tool keeps its descriptor of the attach.  When a
  re-list says that it writes, `describe_tool` adds `requires_confirmation`
  (`gates.py:194`: "describe_tool says so up front"), but a call by its own name
  is not asked about; one through `run_tool` is.  `WritesAreApproved` says which
  descriptor decides.
* `plugins/calendar/oauth.py:107`: two refreshes with one refresh token, of which a
  rotating provider accepts the first, and a provider that is rebuilt after an
  eviction and starts from the first token again.  `RotationIsKept` is about the
  only provider of a grant.
* `plugins/calendar/oauth.py:92`: an answer of the token endpoint that is no JSON or has
  no access token raises, and the refresh token which it rotated is lost with it
  (`Unread`); so is one whose answer never arrives or whose call is cancelled.
  `RotationIsKept` excepts the grants of which that happened.
* `plugins/calendar/executor.py:118` and `:131`: a cancelled sweep, and a close that
  raises in `aclose()`, leave providers unclosed that are in no list any more.
  `EvictedAreClosed` excepts these and no other.
* `plugins/calendar/consent.py:676`: a revoke reads the token before it takes the
  lock; a grant meanwhile is removed from the map and its token stays alive upstream.
  `NoStrayGrants` excepts it.
* `identity.py:493`: a map rewritten with the same size and mtime as the one cached
  is missed until the next write.  `ServedIsFresh` excepts it.
* `cli/app.py:371`: lint refuses a lookup map that is absent or malformed, which
  boot serves; the comment says "Checked only where the mount exists".  A blank
  roles claim passes lint, which reads the variable raw (`:361`), and is refused at boot,
  which strips it (`auth.py:381`).  `OperatorIsToldTheTruth` excepts both.
* `tokenexchange.py:179` and `identity.py:397`: the client and the secret of an exchange,
  and the map of a lookup, are read when a call needs them: a gateway boots without and
  fails the calls, as `docs/IDENTITY.md:175` says of the secret.  An identity provider's
  4xx other than a refusal of the caller is a configuration error there, too.
  `NoLateConfigFault` excepts these two modes.
* `health.py:124`: an exchange that the identity provider refuses makes the probe as a
  user `refused`; `docs/IDENTITY.md:619` says that it "reports as `failed` (with the
  OAuth error code), not `refused`".  Both turn the sweep red.
* A deep health sweep that probes as a user does not apply the role gates of single tools,
  nor the refusal of a backend that ignores identity.

## 7. Not modelled

* Formats: rendering, parsing, JSON, TOML, log lines, metrics text, what a result,
  an error or a question says.
* Arguments, search and indexing, the plugin catalogue, client configuration and
  costing: functions over text and scores without state.  Among them
  `prepare_args`, whose treatment of `--a` beside `a` depends on their order.
* `SurfaceRuntime` leaves out stateless surfaces' series, the `pinned_missing`
  and `limiters` tables and the count of requests in a drain.  The limiter that a
  failed reload leaves in force (`gates.py:351`) is the one listed hazard without a
  property.
* `Gateway` leaves out the limit on parallel attaches, the one reconnection of a dead
  session within a call, the text of hints, a cancellation that arrives during
  `close_backend`, and lint's reading of the kill switch.  A token has a fault or
  none: signatures, issuers and expiry are the library's.
* `CallPath` takes arguments as good or bad and a search as any page of what is
  visible.
* The error of the floats in the rate limiter; that the evicted token is the least recently
  used is modelled in TokenExchange but no property is about it.
* Two gateway processes that write one kill-switch file: the docstring accepts
  that the last one wins, and `Edit` releases what was promised.
* In CalendarExecutor, arguments refused before a provider is acquired; in
  IdentityMap, edits by anything but consent runs.
* The components that `PROJECT.json` lists as `not_modelled`, with the reason.

## 8. Plan

What is left, in this order:

1. **Proofs**: every invariant and action property of the runs is proved.  What is left
   is what relates the modules: that the catalogue and the bucket that CallPath sees
   are those of Catalogue and RateLimiter.
2. **The tables of a reload**: `limiters` and `pinned_missing` in SurfaceRuntime, at
   the price of one surface: a failed reload leaves the limiter of the serving app
   in force.
3. **Pure algorithms** as operators against reference definitions over bounded
   inputs: `prepare_args`, the ranking of a search, the merge of client
   configurations.
