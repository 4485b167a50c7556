# Verification of the Data Integrity Hardening Engine

TLA+ specifications, TLC model checks and TLAPS proofs kept beside the Python
code of `dih_engine`. Paths below are relative to the repository's `src/`
directory unless they start with `src/src/`, the form `PROJECT.json` uses.

## 1. The system

| component | code | state it keeps | operations |
|---|---|---|---|
| recon run | `dih_engine/recon/seer.py` `clean_and_optimize_map` | sampled URLs, futures, `all_results`, the CSV | validate, submit, collect, time out, sweep, leave the pool, notify, save |
| circuit breaker | `seer.py` `_HostCircuitBreaker` | strikes per host, under a lock | `is_open`, `record` |
| fallback chain | `seer.py` `analyze_tech_stack`, `recon/modules/*_probe.py`, `error_taxonomy.py` | one `ProbeResult`, the retry counter | probe, fall back, retry with backoff |
| stack vote | `seer.py` `_identify_stack`, `_majority_stack` | none | classify a page, elect a stack |
| notifiers | `notifications/*` | none | post to Slack, post to Discord |
| job store and async endpoints | `api/jobs.py`, `api/app.py` | `JobStore._jobs`, `Job` objects, the job pool's queue | create, evict, run, mark, poll |
| synchronous endpoints, authentication | `api/app.py`, `api/auth.py` | the key in the environment | extract, sanitize, check a key |
| extraction engine | `extraction/engine.py` | the output file, the counters | open a writer, read a line, write, check disk and memory, close |
| configuration store | `config_store.py` | `.env`, `.env.meta.json` | set, unset, list |
| sanitizer | `sanitizer/core.py` | none | sanitize a line |
| command line | `cli.py` | none | dispatch, exit codes |

How they interact:

* The recon run's main thread and up to ten worker threads share the futures
  (written by the executor, read by `as_completed` and by `future.done()`) and
  the breaker (locked inside each method, not across a probe). Everything else
  of a run belongs to the main thread.
* A worker calls the fallback chain, which calls the probe modules one after
  another; the status that comes back is what the breaker counts, what the CSV
  publishes and what decides whether anybody is notified.
* API endpoints run in server threads. `POST /extract/async` creates a `Job`,
  submits `_execute_job` to a two-thread pool and answers 202; `GET /jobs/{id}`
  takes the `Job` from the store under the lock and reads it without.
* `_execute_job` calls the extraction engine; the engine reports back through a
  summary dict and through exceptions, and the store records which.
* `config set` and `config unset` write the `.env` that `load_dotenv` reads once,
  when a process imports the package, if it finds it: it searches from the directory
  of `seer.py` upwards, not from the working directory. The API server checks its key
  against the environment that came out of that.

What is hard about it, and what correctness means there:

* **Recon run**: three actors' worth of interleaving around one deadline. Every
  sampled URL must be accounted for once, with what its probe really said or
  with `timeout`; nothing may move once the report is made; a failing notifier
  must not cost the CSV; the deadline must end the collecting.
* **Breaker**: check and record are separate critical sections around a long
  call. It must bound what a blocking host can cost and must never skip a host
  that has not earned it.
* **Fallback chain**: overlapping exception classes, optional modules, retries
  that change their mind. A strike must mean that everything else was tried, a
  retry loop must stop, and the time all of it takes should fit the budget the
  wall clock is computed from (it does not, see `chain_budget`).
* **Job store**: dates taken outside the lock, eviction by date, attributes
  assigned one by one under a lock the readers do not take. No accepted job may
  be forgotten before it ends, and no client may be told something that is
  later taken back.
* **Extraction engine**: a disk that fills up in the middle of a file, a crash or a
  decoding error half way, three output formats that commit differently.
* **Configuration store**: two files that must agree, a crash between them,
  two operators at once, lines edited by hand, four readers of a line that do
  not agree on whose it is, and values written raw into a format that has quotes and
  comments.
* **Key service**: a key that is in three places (the operator's head, `.env`, the
  environment of the server), which a rotation changes one after another.
* **Stack vote**: it must be a vote of the results that are published, also when
  the wall clock discards late ones.

The full list, each entry at its line and with the properties that watch it, is
`hazards` in `PROJECT.json`.

## 2. The modules

### ErrorTaxonomy
The statuses a fetch ends in, `FALLBACK_MAP` and the statuses that count as
strikes (`error_taxonomy.py`, `seer.py:43-56`). Shared by the recon modules, so
that a status the chain can return is a status the run must be able to publish.

### ReconRun
One call of `clean_and_optimize_map`. Main thread: `phase` is its program
counter, `remaining` the futures its present loop has not come to, `doneUrls` the
`done_urls` computed once when the clock has expired, `results` is `all_results`,
`notified` what the notifiers got through, `output` whether the output file is
untouched, truncated and partly written, or whole, and `csv` the `Status` column of
the rows in it. `late` is history: the URLs that were not done when the clock expired. Workers: `future[u]` goes from `queued`
over `probing` (or straight, if the circuit is open) to `answered` (the call
has returned) and `done` (the executor has stored it, so `future.done()` says
so). The window between `answered` and `done` is in the model because the sweep
reads `done()` while workers run. `strikes` is the breaker; `IsOpen` and
`StrikesAfter` are the bodies of `is_open` and `record`.

| action | code |
|---|---|
| `RejectInput`, `GiveUpQuietly`, `SubmitSample` | argument checks, the early returns, the `submit` calls |
| `LaunchProbe`, `SkipOpenCircuit`, `ProbeReturns`, `ProbeRaises`, `ProbeHangs` | `_probe` in a worker |
| `StoreResult` | the executor sets the future's result (external) |
| `Collect`, `WallClockExpires`, `Sweep`, `LeaveLoop` | the `as_completed` loop, its `TimeoutError`, the sweep of the rest |
| `PoolShutDown` | leaving the `with` block: `shutdown(wait=True)` |
| `Report`, `NotifySlack`, `NotifyDiscord`, `NotifyRaises` | the console report, `notify_all` and the `except` around it |
| `SaveCsv`, `SaveBreaksOff`, `SaveFails` | `status_map` and `to_csv`, also on the diagnostic path of an all-failed run: it truncates the file and writes in place, so it may stop half way (`CutShort` says after which rows), or the path cannot be opened |

Abstractions: the order of the CSV (any queued URL may be next; the union over
all orders), the content of a result other than its status, console text. A
probe returns *any* of `Outcomes`, raises, or hangs; which outcomes are possible
is FallbackChain's business. `SocketsMayHang` is a constant because one question
(does the run end?) has a different answer on each side of it.

### ReconVerdicts
What a run owes its caller, without threads, breaker or clock: every sampled URL
gets one verdict and keeps it, channels are told only when all verdicts are in
and one is good, the plan is published once and says exactly the verdicts. A run that
cannot publish the whole of it fails, and only a run that fails may leave a part.
`ReconRun!PromiseKept` is the refinement, with `verdict <- StatusMap`: the map
the main thread computes from its list of results, and `failed <- phase = "raised"`.

### FallbackChain
One call of `analyze_tech_stack` on every combination of installed modules and
every answer the network can give: a status code with a body, or an exception of
each class the `except` clauses can tell apart. `Classes` gives the exception
hierarchy of `requests` (`ConnectTimeout` is both a timeout and a connection
error), and `HandledBy` tries clauses in order, because the order is what
decides. `error_detail` is kept as the levels tried with their statuses.
`elapsed` adds the time of each call that is made to wait. `requests` applies a
timeout to the connect, to each read and to each redirect separately, so a call of it
takes any multiple in `Waits` of the timeout it was given; so does FlareSolverr, which is
asked through `requests` with `T + 60`, and Scrapfly with `T + 30`. The timeout of
`curl_cffi` is for the whole call, and a browser is launched, within Playwright's own
30 s, before it goes to the page.

### ReconReport
ReconRun, composed with what it reports: a probe that answers `ok` has classified
its page (`Classify`, `_identify_stack`), and the step that makes the report elects
a stack (`Elect`, `_majority_stack`). A page is the set of markers
`_identify_stack` looks for in it; a tie may go to any of the most frequent stacks,
as `max` over a Python `set` of strings may. The composition is by conjunction: every
step of ReconReport is one of ReconRun's.

### JobStore
The job store, its endpoints and the job pool. A job goes by its number in the order
of the `created_at` dates, which are taken before the lock, so that numbers are not
the order of insertion; `stored` is the dict's key set; `job`
the attributes of the `Job` objects, which live on after eviction because the
poller and `_execute_job`'s caller may hold them. The store's methods are one
step each, except `_set`: it assigns status, then result or error
(`SetStatus`, `SetPayload`, with `lock` held between them), and the poll is `Get`
under the lock followed by three unlocked reads. `Restart` ends the process and starts
another: the store, the queue and all threads are gone, the clients and the ids they
have been told are not. `lost` remembers the jobs of earlier processes, for the
properties only.

### JobRegistry
What the API owes a client: an accepted job is known until it has finished,
moves forward only, and is forgotten at most when another needs its place, or with all
others at a restart. `JobStore!RegistryKept` is the refinement.

### ConfigStore
`config set` and `config unset`, each a process `p` with its own copies of what it
has read (`lines[p]`, `entries[p]`), over the two files `env` and `meta`. `at[p]` is
where the command stands:

| `at` | action | code |
|---|---|---|
| `idle` | `Issue` | the CLI dispatches a valid command |
| `reading` | `Read`, `Refuse` | `_read_lines`; `unset_var` finds nothing to remove |
| `writing` | `WriteTmp`, `WriteFails` | `mkstemp` and the write of the new lines |
| `replacing` | `Replace`, `WriteFails` | `os.replace`, or the handler that removes the temporary file |
| `loading` | `LoadMeta`, `LoadMetaFails` | `_load_meta` |
| `truncating` | `TruncateMeta`, `SaveMetaFails` | `open(meta_path, "w")` |
| `dumping` | `DumpMeta`, `SaveMetaFails` | `json.dump` |

`Kill` may come at any of them, `EditByHand` between any two. A line of `.env` is
kept as its shape, because the code has four opinions on it: `set_var` and
`unset_var` own lines that begin with `NAME=`, and replace the first, or remove
all; `list_vars` also parses `NAME = value` and believes the last (`ForList`);
`load_dotenv` also takes `export NAME=value`, and skips a line it cannot parse
(`ForDotenv`). Values are written raw, and what python-dotenv makes of one is the
constant function `Dotenv`: ` #` begins a comment, quotes go, `${...}` is replaced, a
quote left open makes the line `Unset`. `document` says what the metadata file is as a file: whole, emptied by
a command that has not filled it yet, or part of a document, after a write that
stopped short or two that ran into each other.
The lines a command keeps are those at the positions it does not own, in order
(`Selected`, `NotOwned`), and the lines a reader believes are chosen in the same way
(`Bindings`).
`taken`, `alone` and `excused` are history: they say which metadata may
legitimately be off. A command that had the files to itself takes its variable out of
`excused` again, whatever it found there. What it cannot mend is a line that
`list_vars` believes and `set_var` would not write, such as a spaced line or a
duplicate behind the first: `MaskTellsTheKey` names that case itself (`Shadowed`). Abstracted: dates, providers, descriptions, the four characters
themselves (values are told apart by them), names and values the commands refuse
before they open a file.

### KeyService
ConfigStore composed with an API server: `Boot(shell, found)` is the import of the
package, which runs `load_dotenv` over whatever the shell has set. `found` says whether
its search meets the `.env` the commands write: a checkout may, the image of
`Dockerfile.api` searches from `site-packages` and does not. `Answer` is
`require_api_key`: 503 without a key, 401 without a header or for another key, and 500
if one of the two texts is not ASCII, because `compare_digest` raises on it.
`certain` is history: a command on the key has worked on the present file, found at
most one line for it, of the shape it writes, and nothing has touched the key since.

### ExtractionEngine
`bulletproof_processor` as its callers use it: the command line, which may run
again over the same output, and the API, whose temporary file is new each time.
`kept` is what the output still holds of earlier runs, `saved` the rows of this
run that are durable, `pending` those in the file's buffer or in the open
transaction; a row is the number of its line. The disk crosses its threshold at
any moment. A text buffer may be flushed by any write; a decoding error may come
before the good lines of its block were handed out; a failed write may leave its
row in the buffer. `Kill` loses what is pending, `Unwind` is the `with` block's
exit on an exception: rollback for SQLite, close for the text formats.
`Answer` is what `main`, `/extract` and `_execute_job` make of each ending.
`overfull` (rows written since the disk filled up) and `before` exist only to state
properties. Abstracted: the fields of a record, the header of a CSV, a last line cut
in the middle (a cut at the end of a line stands for it), the two-second pause under
memory pressure, which changes no state.

### MC modules
`MCReconRun`, `MCReconReport` and `MCKeyService` give the constants that a `.cfg`
cannot (sets of URLs, the host map, pages, lines, symmetries). The other modules
need none.

## 3. The runs

| run | bounds | what it shows |
|---|---|---|
| `recon_safety` | 4 URLs on one host, 2 workers, threshold 2, outcomes `ok` and `http_403`, 3 pages | `DamageCap`, `EachUrlOnce`, `SkipJustified`, `ElectedByThePlan` |
| `recon_promise` | 2 URLs on one host and 1 on another, 2 workers, threshold 1, sockets may hang, outcomes `ok`, `http_403`, `timeout`; a save may break off after 0 to 3 of 4 rows | `SkipJustified`, `PromiseKept`, `PublishedIsProbed`, `QuietAfterDrain`, `Terminates`, `SavedDespiteNotifier`, `ClockEndsCollection` |
| `recon_hang` | the same, threshold 2 | violated: `HungSocketDoesNotFreeze` |
| `chain` | all 24 installations, 7 status codes, 3 bodies, 6 exceptions, T = 10, each call waits once | `FirstVerdictKept`, `StrikeMeansExhausted`, `RetriesStopOnChange`, `TerminalAtOnce`, `SlowIsRetried` |
| `chain_budget` | the same, a call waits once or twice | violated: `BudgetCovers` |
| `jobs` | 3 jobs, a store for 1 or 2, 2 pool threads, 1 client, 1 restart | `InFlightIsStored`, `NotFoundIsOver`, `RegistryKept`, `OldestMakeRoom`, `PollsMoveForward`, `AcceptedEnds` |
| `jobs_torn` | 3 jobs, no restart | violated: `DoneHasResult` |
| `extract` | all inputs of up to 5 lines, 5 caller/format pairs, interval 2, 2 runs | `SuccessReconciles`, `RefusedKeepsOutput`, `DatabaseAllOrNothing`, `TextFileHasNoHoles`, `DenseFileStopsInTime` |
| `extract_truncated` | the same, 1 run | violated: `SuccessMeansComplete` |
| `extract_blind` | up to 6 lines, 1 run | violated: `StopsWithinAnInterval` |
| `config` | 2 processes, a secret with three values (one with a comment behind it, one with an open quote, one beyond ASCII; two too short to show) and a plain variable, 2 initial files, 3 commands and edits, a server with or without a key from its shell, where it finds `.env` and where not, 4 headers and none | `MaskTellsTheKey`, `MetadataTellsHistory`, `NoStrayCopies`, `OnlyItsOwnLines`, `CommandsTakeEffect`, `RestartCompletesRotation` |
| `rotation` | two values that can be used, no edits, no key from the shell | violated: `RotatesWithoutRestart` |

Why the bounds are enough:

* The breaker overshoots by at most one wave of workers. With threshold 2 and 2
  workers the cap of `DamageCap` is 3 strikes, and four URLs on the host leave
  one for which the cap matters. Two hosts in `recon_promise` show that their counters
  are not mixed up; its threshold is 1 so that three URLs are enough for a skip. Which failing status it is does not matter to the breaker, so one
  strike status and one that resets represent all; `recon_promise` adds
  `timeout`, which neither strikes nor resets and is also what the sweep writes.
* The sweep needs a URL already collected, one done but not yielded, one
  running, one still queued: three URLs and two workers reach every combination
  of these. One row outside the sample is enough for `not_probed`, and for a save that
  breaks off before it.
* The chain is finite as the code is: no bound is imposed on it. `Codes` has
  every code the probes single out and one that none does (404); a body is a
  page, a JavaScript shell, or empty. How long calls wait decides nothing but
  `elapsed`, so `chain` lets each wait once; two waits, a slow connect and a slow
  answer, already break the budget in `chain_budget`.
* A store for one or two with three jobs reaches eviction of a finished job while
  another is running, a choice between two finished ones, and a store over its bound
  because nothing may be evicted; a store for one that has grown to two evicts both
  at once. One restart is enough for jobs of one process to meet those
  of the next; a second would lose them again in the same way.
* Three changes to `.env` are a set, a rotation and an unset, two commands side by
  side with an edit between them, or a command that is cut short and two that try
  to repair it. Three processes side by side would need three stale copies; what a
  stale copy does shows with two. Lines added by hand are those of the secret, in
  each of the three shapes; the second variable is there to be damaged by commands on
  the first. The three keys are one for each thing python-dotenv and `compare_digest`
  may do to a value; headers are what they make of them and the raw text.

* Five lines with an interval of two have two checkpoints (indices 2 and 4) and
  lines before, between and after them; two runs are enough for a run to find the
  output of another, however that one ended. `MaxLines` and `MaxRuns` bound nothing
  else, and the theorems hold for every value of them.

Deadlock is checked in every run but `recon_promise`, `recon_hang`, `jobs` and
`config` (and `rotation`). With a hung socket the run really stops, at the pool's
shutdown. The job store stops when the restart has lost the last job the bound allows
and nobody has an id to poll. The configuration store stops when both processes have
been killed and the bound on changes is used up.

Symmetry is used only where no liveness is checked: URLs of the same host are
interchangeable, and so are the processes that run commands.

### Fairness

* `ReconRun`: each worker step and the main thread are weakly fair: threads are
  scheduled and a call that does not hang returns or raises. `ProbeHangs` is not
  fair, and nothing obliges a hung call to come back. Weak fairness of the main
  thread includes `WallClockExpires`: `as_completed` has a timeout, so with an
  unfinished future the loop does not wait for ever. `Report` and the notifiers are
  the main thread's: the HTTP posts have timeouts of their own.
* `JobStore`: weak fairness of `ServerStep`, the pool's and the second half of a
  POST taken together: as long as some thread of the process can go on, one does, and
  an extraction ends. That is enough, and less than fairness of each thread: every
  job takes a bounded number of steps, so none can keep the others waiting for ever.
  Nobody is obliged to POST, to poll or to restart.
* `ConfigStore` and `KeyService` claim no liveness: a command may be killed anywhere.
* `FallbackChain` claims no liveness; termination is visible in its bounded
  counters and checked through deadlock.

### What the violated runs show

* `recon_hang`: `CHANGELOG.md:135` and `seer.py:381` say that the wall clock
  keeps a hung socket from freezing the process. The `TimeoutError` is caught
  *inside* the pool's `with` block; leaving the block joins the hung thread. The
  main thread has its partial results and never reports or saves them.
  `ClockEndsCollection` shows the half of the claim that holds.
* `chain_budget`: `seer.py:380` gives the worst case of a URL as
  `requests(T) + curl_cffi(T) + flaresolverr(T+60) + proxy(T+30) + jitter`. The timeout
  of `requests` does not bound a call. With T = 10: a plain fetch of 14 s with its polite
  sleep, no `curl_cffi`, and a FlareSolverr that takes 70 s to accept the connection and
  70 s to answer make 154 s, where the formula has 140.
* `jobs_torn`: `jobs.py:34` says that all mutations go through the lock, but
  readers do not: a poll that lands between the two assignments of `_set`
  answers `done` with no result.
* `extract_truncated`: both `cli.py:173` and the API read `aborted` to tell a
  full disk from a success, but the stop in mid-file leaves the loop by `break` and
  is summarised with `aborted: False`: exit code 0, a `200` or a job that is `done`,
  for part of the file.
* `extract_blind`: `ARCHITECTURE.md:109` says that the disk is monitored at
  10,000-line intervals. The check stands behind the `continue` of unmatched
  lines, so it is skipped when the line whose turn it is has no record.
  `DenseFileStopsInTime` is what holds: with a record on every line the run stops
  in time, where "in time" is one row more than the interval, because index 0 is
  not checked.

* `rotation`: `auth.py:21` says that the key is read at request time, so that it can be
  rotated without a restart. It is read from the environment of the process, which
  `.env` reaches at import only (`seer.py:40`): after a `config set` the running
  server refuses the new key and serves the old one. `RestartCompletesRotation` is
  what holds, of a restart that finds the file and a key that can be used.

## 4. The proofs

Every safety invariant, every action property and both refinements that the passing
runs check are theorems, for every value of the constants, also of those that say what
lies outside the code: what a broken save leaves (`CutShort`), how long calls wait
(`Waits`), what python-dotenv makes of values (`Dotenv`). Eight modules hold the
proofs, one per component (`ReconRun` has two). Each is built around one inductive
invariant, with a lemma per action or group of actions.

### ReconRun

| module | theorem | statement |
|---|---|---|
| `ReconRun_proofs` | `TypeCorrect` | `Spec => []TypeOK` |
| | `EveryUrlHasItsResult` | `Spec => []EachUrlOnce` |
| | `BreakerCapsDamage` | `Spec => []DamageCap` |
| | `SkipsAreJustified` | `Spec => []SkipJustified` |
| `ReconPromise_proofs` | `PublishedIsWhatWasProbed` | `Spec => []PublishedIsProbed` |
| | `NothingMovesAfterDrain` | `Spec => QuietAfterDrain` |
| | `RunKeepsItsPromise` | `Spec => PromiseKept` |

Neither breaker property is inductive. `DamageCap` bounds the strikes of a host
that has never answered `ok`, but a state in which the bound is met and a worker
is still probing the host would step over it. The strengthening counts those
workers: while no probe of the host has answered `ok`, its strikes are exactly
the strike outcomes recorded for it, and whenever probes of the host are in
flight, strikes plus probes in flight stay within `Threshold - 1 + Workers`. A
launch needs the circuit closed (strikes below the threshold) and a free worker,
so it lands inside the budget; a return turns one probe in flight into at most
one strike and leaves the sum alone. The rest is cardinality of finite sets.

`EachUrlOnce` needs to know where the two loops are (`LoopInv`): while collecting, the
futures still to be yielded are those without a result; while sweeping, the results are
those of `done_urls` and of the futures already gone over. Nothing in `Collect` or
`Sweep` asks whether the URL has a result: that it has none follows from this.

What is published rests on `VerdictInv`. Its core is `ResultsAreReal`: a result is
either a `timeout` of a URL in `late` or the outcome of a future that is *done*, and a
worker can only move a future that is not; so a result, once read, stays true although
the other workers go on (`WorkerFrame`). A future not done when it is swept was not done
when the clock expired (`LateSinceExpiry`). The rest is what the main thread knows at
each phase: no worker is busy outside the pool, the channels are told in order, and what
the file holds are rows of the plan of these results, all of them if the run returned.
The refinement of ReconVerdicts then goes step by step: collecting or sweeping a URL
decides it, a post announces, saving publishes, a save that breaks off fails with a
part, every other step of any thread is a stutter. `StatusMap` takes the *last* result of
a URL; that the verdicts only grow therefore needs one result per URL
(`OneMoreVerdict`).

The hypotheses are the named assumptions of the module: the sample is a finite,
non-empty subset of the rows, every sampled URL has a host, the pool has at
least one thread and the threshold is at least one, and the outcomes are
statuses `analyze_tech_stack` returns. Sockets may hang or not.

### ReconReport

`PlanBearsOutTheElection` is `ReportSpec => []ElectedByThePlan`. It
compares two countings made at different times: the vote counts results when
the report is made, the property counts URLs of the published plan. After the pool
has drained, no page is classified and no result is added, so the counts of the vote
stay what they were (`VoteStands`), and with one result per URL counting results is
counting URLs (`SameNumber`). Of exactly half the votes it says nothing, see section 5.
The pages are sets of the markers `_identify_stack` looks for (`PagesAssumption`).
ReconReport restricts ReconRun and adds no step to it, so the theorems about ReconRun
hold of it too (lemma `ReportOnlyWatches`).

### FallbackChain

| theorem | statement |
|---|---|
| `TypeCorrect` | `Spec => []TypeOK` |
| `VerdictIsTheFirst` | `Spec => []FirstVerdictKept` |
| `StrikesAreEarned` | `Spec => []StrikeMeansExhausted` |
| `RetriesAreBounded` | `Spec => []RetriesStopOnChange` |
| `NoFallbackForTerminal` | `Spec => []TerminalAtOnce` |
| `TimeoutsAreRetried` | `Spec => SlowIsRetried` |

All of them follow from `ChainInv`. The properties speak of calls that have returned;
`Position` says what holds on the way: at each level the log of the failures names
exactly the levels before it, and its first entry is the verdict the call will keep.
The constants are any timeout of at least a second (`cli.py`
takes no other), any number of waits, any of the HTTP codes the probes tell apart. Lemma
`ClausesInOrder` fixes what the order of the `except` clauses makes of each
exception.

### JobStore

| theorem | statement |
|---|---|
| `TypeCorrect` | `Spec => []TypeOK` |
| `InFlightIsNeverEvicted` | `Spec => []InFlightIsStored` |
| `NotFoundMeansOver` | `Spec => []NotFoundIsOver` |
| `AnswersMoveForward` | `Spec => PollsMoveForward` |
| `OnlyTheOldestMakeRoom` | `Spec => OldestMakeRoom` |
| `StoreKeepsRegistry` | `Spec => RegistryKept` |

`JobInv` is what the three kinds of thread know of one another. `WorkInv` ties the
status of a job to how far its execution is, which is why `create` cannot evict a job
that `_execute_job` still has to write to. `PollInv` is the reason why unlocked reads
do no harm to the order of the answers: what a client was told last, what its GET in
progress has read, and what the `Job` object says now come in this order of the
statuses, and a pool thread only moves the last of the three, forward
(`PollsStayBehind`). A 404 comes last because an evicted job cannot return.

`Evicted` is defined by counting (a finished job goes if fewer finished ones are
older than places are needed), `OldestMakeRoom` by what is left; the proof bounds
the number of evicted jobs by the newest of them from above and by the oldest
finished job that stays from below (`EvictedFits`, `EvictedSuffice`). In the
refinement of JobRegistry, inserting accepts and forgets, marking running starts, the
status half of `_set` finishes, and its other half, taking a job off the queue and
the polls are stutters.

### ExtractionEngine

| theorem | statement |
|---|---|
| `TypeCorrect` | `Spec => []TypeOK` |
| `AuditsReconcile` | `Spec => []SuccessReconciles` |
| `DatabaseIsAtomic` | `Spec => []DatabaseAllOrNothing` |
| `TextFilesAreWhole` | `Spec => []TextFileHasNoHoles` |
| `RefusalsAreHarmless` | `Spec => []RefusedKeepsOutput` |
| `FullDiskStopsDenseFiles` | `Spec => []DenseFileStopsInTime` |

The first five follow from `EInv`: as long as the run is on course,
the rows saved and pending are *together* the records of the lines read, in order
and each once, and the counters agree with them. The properties speak of the
saved rows only, which no write or flush preserves by itself. Off course, after
a failure, they are the records up to some earlier line: lemma `PrefixHolds` shows
that losing rows at the end leads from one such state to another.

The last needs `StopInv`: in a file of records only, the rows written since the disk
filled up are at most the lines since the last one that was checked, which is
`(total - 1) % Interval` or, while the first interval lasts, `total`, because index 0
is not checked. That is where the one row more than the interval comes from, for
every interval of at least one and inputs of any length.

### ConfigStore and KeyService

| module | theorem | statement |
|---|---|---|
| `ConfigStore_proofs` | `TypeCorrect` | `StoreSpec => []TypeOK` |
| | `CopiesAreRemoved` | `StoreSpec => []NoStrayCopies` |
| | `MetadataIsTrue` | `StoreSpec => []MetadataTellsHistory` |
| | `MaskIsTrue` | `StoreSpec => []MaskTellsTheKey` |
| | `OtherLinesAreKept` | `StoreSpec => OnlyItsOwnLines` |
| | `CommandsCount` | `StoreSpec => CommandsTakeEffect` |
| `KeyService_proofs` | `RestartServesTheNewKey` | `KeySpec => RestartCompletesRotation` |

The proofs start with what `set_var` and `unset_var` make of a file of any length:
which lines stay and what a reader finds afterwards, for any set of lines it heeds
(`SetEffect`, `UnsetEffect`); `list_vars` and `load_dotenv` are two such sets. Two invariants carry
the metadata:

* `History`: every entry, in the file or in a command's copy, is vouched for by the
  values that were put into `.env` under its name, and by *more* of them than there
  are commands that have set it and not written their own entry yet. The "more" makes
  it inductive: a command that finds an entry is one of those commands, so at least
  two values were set and the rotation it records took place, whoever set the other.
* `MaskInv`: an undisturbed command is the only one at work, and so its copies are
  the present files, at each of its steps (`Solo`, `SoloCopies`), and from its rename on
  the first line of its variable is the one it wrote (`Written`); when it ends, mask
  and value agree again (`Truthful`) unless `list_vars` believes another line
  (`Fits`). A metadata file that is not whole has either
  put every name in doubt or is about to be filled (`Torn`).

The model of the server has no step of its own on the store (lemma `ServerOnlyReads`),
so the theorems hold beside it. `RestartServesTheNewKey` adds `CertainInv`: while nobody
has touched the key since the last undisturbed command on it, `load_dotenv` finds what
python-dotenv makes of what that command gave it, by `EffectStep`, which is also
`CommandsCount`; and then goes through the answers.

The assumptions: a finite set of processes; files and edits made of lines; names with a
way of typing each; `Key` is one of the names; and no value is empty or the model's
mark for "none". The last is the code's: `set_var` refuses an empty value
(`config_store.py:124`). Of `Dotenv` it is assumed that it is defined on every value and
that nothing becomes of nothing; the mark for a missing header is no header.

### What only TLC checks

* The liveness properties `Terminates`, `SavedDespiteNotifier` and
  `ClockEndsCollection` (`recon_promise`) and `AcceptedEnds` (`jobs`). They rest on
  fairness, whose `ENABLED` the provers do not handle.
* That `NotOwned` and `Bindings` are what `SelectSeq` computes: the provers have no
  theory of `SelectSeq`, which is recursive, so the model says which positions stay and
  `MCKeyService!SelectedIsSelectSeq` compares the two on all files of up to three
  lines.

## 5. What is not modelled, and why

* `locate_gold_mines`, the strategy texts, headers and the console's wording: data,
  not control.
* `loading_messages.py`: random strings.
* The command line's argument parsing and printing. The exit codes of `extract` are
  in `ExtractionEngine!Answer`, the dispatch of `config` in `ConfigStore!Issue`.
* The sanitizer: a stateless function of one line. It has no steps, and what it
  computes is three regular expressions and a table of characters; a model would
  spell lines out character by character and say no more than the expressions do.
* `/sanitize` and `/health`: handlers without state. `/extract` is in
  ExtractionEngine, authentication in KeyService.
* The wall clock against a pool with durations. In ReconRun the clock may expire at any
  moment, so every cut is covered there; what a call takes is FallbackChain's, and the
  two are not composed. Beside the budget of one URL (`chain_budget`), the formula of
  `seer.py:382` divides what whole URLs cannot be divided by: 11 URLs on 10 workers with
  a timeout of 10 s get 214 s, while one worker has two of them. Time spent in resolving
  names, which no timeout bounds, is left out.
* An exact tie in the stack vote: `_majority_stack` warns when the winner has less than
  half the votes, so two stacks with half each pass without the warning its docstring
  (`seer.py:278`) gives for the absence of an absolute majority. `ElectedByThePlan`
  asks for the warning below half, forbids it above, and leaves exactly half open.
* A run without one successful probe notifies nobody: it returns at `seer.py:440`, before
  `notify_all`, although `README.md:16` speaks of notifications after each run. The model
  does the same (`Report`), `PromiseKept` demands it, and no run is spent on it.
* Killing a recon run, and Ctrl-C in it: nothing is persisted before the CSV.
* Of python-dotenv: a quote left open that a later line closes, `${...}` that takes its
  value from a variable other than the line's own, and a name without `=`. Each would need
  the text of more than one line.

## 6. Plan

Done: ErrorTaxonomy, ReconRun with ReconVerdicts and ReconReport, FallbackChain,
JobStore with JobRegistry and restarts, ExtractionEngine, ConfigStore with
KeyService; proofs of all their safety invariants, action properties and
refinements. Left, in order of importance:

1. **ExtractionEngine**: an abstract specification of an output file (runs that add
   all, a prefix or nothing) with its refinement, in place of properties format by
   format.
2. **ConfigStore**: an abstract store of bindings, which `.env` implements for as long
   as its lines have the form `set_var` writes.
3. **FallbackChain, ReconReport**: lemmas about what `_identify_stack` makes of pages with
   markers of several stacks.
4. **WallClock**: the pool with durations against the timeout formula, and with it a
   budget that does cover a URL.
