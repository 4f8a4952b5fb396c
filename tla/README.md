# miniserve: TLA+ models, model checking and proofs

miniserve is a small LLM serving engine: requests come in over HTTP, an engine
thread batches them iteration by iteration, a paged KV cache holds their
attention state in fixed-size blocks, and a benchmark harness compares
continuous with static batching and prices migrating KV against recomputing it.
This directory models the parts of it whose correctness depends on *order*:
what is admitted, preempted, resumed, streamed, freed, refused and shut down,
and when. Every definition is translated from the Python source; `PROJECT.json`
maps each one to its lines.

## 1. Inventory

### Components

| component | source (`src/miniserve/`) | state it keeps | operations |
|---|---|---|---|
| KV allocator | `kv_cache.py` | FIFO free list of block ids, block table per request, K/V tensors | `allocate`, `append_block`, `free`, `free_count`, `check_invariants` |
| Scheduler | `scheduler.py` | `waiting` deque, `running` list, one `Sequence` per request, submission counter | `submit`, `step` (admit, partition, forward, sample/emit/retire/grow), `_make_room`, `_preempt`, `_finish` |
| Engine | `engine.py` | submission queue, futures, token streams, `_streams`, stop event, doorway lock, the thread | `submit`, `start`, `stop`, `run`, `step_once`, `_admit`, `_on_token`, `_on_finish`, `_finalize_shutdown` |
| HTTP server | `server.py` | per-handler locals only | `do_GET` (unlocked reads of live counters), `do_POST` (submit, wait for the future, stream SSE) |
| Paged forward | `model.py` | the KV contents of the cache | `forward`, `_forward_one` (write, then gather) |
| Metrics | `metrics.py`, the counters of `scheduler.py` | append-only lists of step and request records, `preemptions_total` | `record_step`, `record_request`, the reads of `GET /metrics` |
| Static batching | `bench/static.py` | `flush`, `max_wait_s` | `_admission_open` |
| Benchmark driver | `bench/run.py`, `bench/workload.py`, `bench/sweep.py` | driver and collector threads, results, rows | `run_workload`, `summarize`, `run_cell`, workload generation |
| Cost model | `bench/costmodel.py` | none (pure functions over a config) | `recompute_ms`, `migrate_ms`, `_bisect_first`, `crossover_tokens`, `crossover_band` |
| Calibration and probes | `bench/calibrate.py`, `decode_probe.py`, `transfer_probe.py`, `activation_probe.py`, `spot_validate.py` | a scheduler of their own each, the records they read | measuring loops, fit and its gate, point selection |
| Session | `bench/gpu_day.py`, `smoke.py` | the files of a session | stages, gates, config assembly |
| Other scripts | `bench/plot.py`, `collision_check.py`, `fake.py` | none | drawing, printing, a fixed-cost model |

### How they interact

- **Server threads → engine thread**: only through `Engine.submit`, which puts an
  item on a queue inside the *doorway* lock; answers come back through a `Future`
  (admitted, refused, stopped) and a per-request stream of tokens and one FINISH.
- **Engine → scheduler**: plain calls on the engine thread (`submit`, `step`);
  the scheduler calls back `on_token` and `on_finish` from inside `step`.
- **Scheduler → allocator**: plain calls inside `step`, several per step and for
  several requests, so the free list and the tables change while the loop over
  the step's work list is under way.
- **Scheduler → model**: one `forward` per step; it writes and reads KV at the
  slots the tables give it and trusts the scheduler that they exist.
- **Server → scheduler**: unlocked single-field reads for `/health` and `/metrics`.
- **Driver → engine**: `submit` like a server thread, but the futures are thrown
  away; a collector thread per stream, joined with a timeout; `stop` in any case.
- **Probes → scheduler**: no engine; they call `submit` and `step` themselves and
  read the step records they caused.
- **Session → everything of `bench/`**: in sequence, partly through files in one
  directory that an earlier session may have written.

### What is hard here, and what must be right

| behaviour | what correctness means | where |
|---|---|---|
| blocks move between requests on a nearly full cache, several times per step | each block in exactly one place | `PagedKVCache` |
| preemption in the middle of the loop over a snapshot of the batch | preempted sequences skipped, the requester gets its block in the same step, nothing raises | `Scheduler` |
| abort-and-requeue, then resume | no token twice, none lost, resumed ahead of the never admitted, FIFO among the fresh | `Scheduler` |
| mutual preemption of requests that do not fit together | still terminates; a fresh request is never preempted before its first token; the queue head always fits an empty cache | `Scheduler` |
| block-boundary arithmetic | a KV slot for every position when forward runs, and no more | `Scheduler` |
| `submit` racing `stop` and a crash | no put after the final drain; every future on the queue resolves | `Engine` |
| an admission that raises something `_admit` does not catch | it ends the thread, and nobody else's future or stream is lost with it | `Engine` |
| crash in mid-step | streams end with one FINISH that counts what was delivered | `Engine` |
| a refused duplicate of a live id | it does not take over the live request's stream | `Engine` |
| freed blocks keep their old contents and change owner | attention sees the KV of its own positions only, poisoned or not | `PagedForward` |
| an admission hook that may stay closed for ever | batches never mix; full batches, `flush` and the timer all get requests served | `StaticScheduler` |
| bisection on a predicate that need not be monotone | the crossover and the edges of the band are exact, the search returns | `CostModel` |
| admission timeouts and clients that hang up, with no cancel | the answer says what happened; the request still retires; no handler waits for a stream without end | `Server` |
| a driver that sees streams only | a valid row is a whole run; a cell always ends and leaves no engine behind | `BenchRun` |
| counters written in mid-step and read without a lock | records account for every token and preemption; a scrape covers what its client has seen | `Metrics` |
| measuring loops around `step()` with hand-sized caches | they end, and time what their label says | `Probes` |
| a session among the files of another, gates, four-in-a-row residuals | no config around a bad fit, nothing of an earlier session in it | `GpuDay` |

`PROJECT.json` lists the same under `hazards`, one by one, at their lines.

## 2. Plan

In order of importance; all are done.

1. `PagedKVCache` – the allocator; on its own and inside the scheduler. *(done)*
2. `Scheduler` – `submit` and the whole of `step`, composed with the allocator
   (`EXTENDS`); safety, termination. *(done)*
3. `RequestLifecycle` – the abstract promise per request; `Scheduler` is shown to
   implement it and `Engine` is built on it. *(done)*
4. `Engine` – threads, doorway, futures, streams, shutdown and crash. *(done)*
5. `StaticScheduler` – the scheduler under the admission hook of `bench/static.py`,
   with `flush` and the partial-batch timer. *(done)*
6. `PagedForward` – which position of which request each slot holds, poison on
   free, composed with `Scheduler`. *(done)*
7. `CostModel` – `_bisect_first`, `crossover_tokens`, `crossover_band`. *(done)*
8. `Server` – the `do_POST` handlers over `Engine`: refusals, admission timeout,
   streaming, client disconnect. *(done)*
9. `BenchRun` – a benchmark cell over `Engine`: driver, collectors, row. *(done)*
10. `Metrics` and `Probes` – what a step records, scrapes in mid-step, and the
    measuring loops that read it. *(done)*
11. `GpuDay` – the calibration session, composed with `CostModel`. *(done)*

Theorems done, in the order they rest on each other: the allocator, the safety of
`step`, the order of service, the refinement of `RequestLifecycle` and that a step
returns (`SchedulerProofs`); safety and order for the static baseline
(`StaticSchedulerProofs`); the forward pass (`PagedForwardProofs`); the engine, the
handlers and the benchmark cell (`EngineProofs`); the accounts of the metrics, whoever
drives the scheduler (`MetricsProofs`); what the measuring scripts measure
(`ProbesProofs`); the cost model and the session (`CostModelProofs`). Every safety
invariant and action property that a passing run checks is a theorem. Section 5 says
what stays with TLC.

## 3. Modules

### `PagedKVCache.tla` (`kv_cache.py`)

`free_blocks` is the deque; `block_tables` is the dict as a total function with
`<<>>` for "no entry" (the dict never holds an empty list: `allocate` refuses
`num_blocks < 1` and `append_block` only lengthens). `Allocate`, `AppendBlock`
and `Free` are the three mutators, each guarded by the condition under which the
code does not raise; a `False` return is a step that changes nothing. The tensors
are in `PagedForward`.

### `Scheduler.tla` (`scheduler.py`), extends `PagedKVCache`

One call of `step()` is the path

    StepBegins  AdmitHead*  CloseAdmission  Forward
    ( SkipPreempted | SampleLast | SampleNext [Grow [MakeRoom [Retry]]] )*  StepEnds

cut where `step()` calls the allocator, `pc` saying where it is. The cut exposes
every intermediate state the allocator, the callbacks and an unlocked reader can
see. `Submit` needs `pc = "idle"`: the engine thread calls it only between steps.

- A `Sequence` object is a record in `seqs` under its id; the object of a retired
  id is replaced by a resubmission.
- A token is its position in the output. Whether a sampled token is EOS is a free
  choice (`eos`), so every early end is explored.
- `preempted_count` is a Boolean (only "0 or not" is read), `seq_no` is kept, the
  clock and sampling parameters are left out; the records are in `Metrics`.
- `tokens` is a history of the `on_token` calls for the current object.
- Where the code would raise, no action is enabled; `NoCallRaises` states that
  this never comes up (and the runs check deadlock as well).
- `allocate`'s return value is ignored, exactly as in `scheduler.py:166`.

### `RequestLifecycle.tla`

The promise: an accepted request gets its tokens one at a time, at most
`max_tokens`, and one end that comes with the last token; live requests keep being
served. `Scheduler.tla` instantiates it with a refinement mapping (`Life`).

### `Engine.tla` (`engine.py`), extends `RequestLifecycle`

Server threads are the `Call`s of `submit()`, each with a req_id and a limit of its
choice, so ids collide. The doorway makes the stop check and the put one critical
section (`SubmitEnters` … `SubmitPuts`); `Stop` and `CrashClosesDoor` set the event
only while nobody is inside. The engine thread's actions are cut at the accesses to
what it shares, and at each sampled token, before any of which a step may crash.
`_admit()` has two outcomes that come back (`Admit`: accepted, or refused on a
`ValueError`) and one that does not (`TakeRaises`): for a limit in `HugeLimits` the
division in `Scheduler._blocks_for` raises `OverflowError`, behind the checks of the
limit and of the live ids; the item is popped and in nobody's hands, and the thread goes
down by the same `except BaseException` as from a step (`Crash`). `Lost` are the calls
that met this.
`Registered`, `Unregistered`, `RefusalSentinel`, `AbortEvent` are the statements
that decide which stream gets what. A limit below one stands for every request
refused for its own sake (empty prompt, bad limit, capacity): the engine treats
them alike. Times in `FinishSummary` are left out; `output_tokens` is kept.

The abstract step serves any nonempty set of live requests (or none if none is
live), each at most once, which over-approximates what `Scheduler` does.

### `StaticScheduler.tla` (`bench/static.py`), extends `Scheduler`

The subclass overrides one method, so the module replaces one action:
`StaticStepBegins` asks `AdmissionOpen` where `StepBegins` starts admitting. All
other actions of a step, preemption included, are the scheduler's. `SetFlush` is
the driver's plain store and may come between any two actions. `max_wait_s` says
whether the timer is set. The clock is seen through the one question asked of it:
arrival times follow `seq_no` and time does not run back, so `expired`, the number
of submissions, oldest first, that have waited long enough, is all there is to know.

### `PagedForward.tla` (`model.py`, `kv_cache.py` tensors), extends `Scheduler`

`kv` gives every slot of every block a content: the position of one accepted
request (`seq_no` and position), the zeros of a new cache, or the NaN of a poisoned
block. `ForwardBegins` is the scheduler's `Forward` with the batch put in `left`;
`ForwardOne` serves one sequence of it: it writes `Positions` (the whole content in
prefill, the newest token in decode) through the block table and gathers the past.
While `left` is not empty nothing else runs, as in the code. Actions of the
scheduler that free a table also poison it if `poison_on_free`, which is chosen
initially. All layers, and keys and values, are treated alike by the code, so one
`kv` stands for them.

### `CostModel.tla` (`bench/costmodel.py`)

A behaviour is one call of `crossover_band()` on one configuration; `lo` and `hi`
are the bisection's range, one `Bisect` per halving, and the other actions are the
decisions before and after each search. Costs are integers, so comparisons are
exact, where the program computes in floating point. A linear fit is a quadratic
one with no curvature. `None` is 0, which is no prefix length.

`GpuDay` runs it as a part of a session; on its own it is in one violation run.

### `Server.tla` (`server.py`), extends `Engine`

A handler thread is a `Call` of `Engine`; `handler` says where it is, the status it
has written, the events it has sent and whether its client has left. A handler is
cut where the code waits (for the future, for the stream) and at each write to the
socket. `Post` is `SubmitEnters` seen from the handler; `Invalid` stands for every
validation that answers before the engine is called, `Unparsable` for the
conversions outside every `try`, which close the connection without an answer. A
write to a client that has left either passes unnoticed or raises: in `WriteEvent`
and `Disconnected` both are possible, in `Json` and `StartStream` the raise ends the
handler. `TimesOut` may come at any time before the future is resolved. The engine,
with stop and crash, is `Engine`'s own actions.

### `BenchRun.tla` (`bench/run.py`, `bench/sweep.py`), extends `Engine`

One cell. The driver submits `Schedule` in order, joins the collectors in order, each
with a timeout that may expire whenever the collector is not done (`Hung`), and stops
the engine on both ways out; the row is written only behind the `finally` clause.
Arrival times only delay submissions. `Summary` keeps the fields of `summarize()`
that are counts; percentiles and makespan are data. The order of the collectors'
appends is the order of `Collect`; sorting by id afterwards loses nothing here.

### `Metrics.tla` (`metrics.py`, `scheduler.py`, `GET /metrics`), extends `Scheduler`

Each action of `Scheduler` with what it records: `MForward` takes the partition that
`MStepEnds` appends, `MMakeRoom` counts the preemption. `_finish()` is cut between
`record_request` and `on_finish` (`Retire`), because a client that sees FINISH may ask
for the counters at once. The step log is kept as its length, the sums of its token
columns and its last record: all that its readers use. `lost` is a history: the KV
entries a preemption throws away. A scrape reads one field at a time, in the order
the dict is built, between any two actions.

### `Probes.tla` (`calibrate.py`, `decode_probe.py`, `activation_probe.py`, `smoke.py`), extends `Metrics`

`mode` says who drives the scheduler: the server (submissions between steps, scrapes
at any time) or one measuring loop. A loop is a *script*: submit, step once, step
until `Filled` or `Drained`. `label` remembers what the last record is filed under.
The scripts are the source's loops with one warm-up probe instead of three, one
repeat, and a mixed cell of batch one; the block counts are the source's formulas
(`PrefillBlocks` …), and `ProbeAssumption` makes an instance give each probe exactly
that many. The one-sequence probes have `max_batch = 1` in the code and a larger one
in the instance, which a single request cannot tell apart. No EOS is sampled:
`eos_id = -1`.

### `GpuDay.tla` (`gpu_day.py`, `calibrate.py`, `spot_validate.py`), extends `CostModel`

One behaviour is one session. `disk` says for each file of the output directory
whether this session or an earlier one wrote it, and a session starts among the files
of an earlier one that ended anywhere. `FitCurves` works on the errors and the signs
of the residuals that a fit may have, not on the fit. `BandStep` is `CostModel`'s next
step, for one tier with any coefficients, linear if the preferred fit was. `Raises`
ends a session before the current file is written.

### Proof modules

`DataLemmas` holds what the proofs share about data: sequences without repetition (free
list, tables, queues), order in such a sequence, finite sums, and induction on numbers
and finite sets. `SchedulerProofs` extends `Scheduler`, `StaticSchedulerProofs` builds on
`StaticScheduler` and it, `PagedForwardProofs` on `PagedForward` and it, `MetricsProofs`
on `Probes` and it, `ProbesProofs` on `MetricsProofs`; `EngineProofs` extends `Server`
and `BenchRun`, `CostModelProofs` `GpuDay`.

### MC modules

`MCScheduler`, `MCPagedForward`, `MCCostModel`, `MCBenchRun`, `MCProbes` and
`MCGpuDay` add the symmetry sets, schedules and coefficients TLC needs as definitions
(`Engine`, `Server` and `StaticScheduler` need none). `MCScheduler` also has
`OrderedSpec`: liveness is checked without symmetry, and ids that were never used are
interchangeable, so it takes them up in a fixed order; retired ids come back at any time.

## 4. Runs

| run | instance | question |
|---|---|---|
| `scheduler` | 3 ids, 4 blocks of 2, batch 3, prompts 1, 2, 7, limits 0, 1, 5, 3 accepted requests, arrivals at any time | all safety invariants of the scheduler; every request finishes; refinement of `RequestLifecycle`, fairness included |
| `engine` | 3 calls over 2 ids, limits 0, 3 and a huge one | streams, futures and registrations under every interleaving of submits, stop, a crash in a step and an admission that raises; all futures but that one resolve, answered streams end, stop ends the thread |
| `server` | 2 handlers over 2 ids, limit 2 and a huge one | answers match outcomes; every client is answered; abandoned requests retire |
| `bench_run` | 3 arrivals, limits 0, 2 | a row is the whole cell, valid rows are whole runs, cells end |
| `metrics_probes` | 8 blocks of 16, batch 2, 3 ids; the server and four probes | records account for tokens and preemptions, scrapes cover what was seen, probes end and measure as labelled |
| `gpu_day` | 729 residual patterns, 9 pairs of errors, 8 leftovers of an earlier session, 1200 fits and tiers, ratio 5/4, 13 tokens | no config around a bad fit, one session per commit, crossover and both edges exact, points ascend, sessions end |
| `static_batching` | 2 ids, 3 blocks of 2, batch 2, with and without timer, 3 accepted requests | batches never mix; full batches, flush and the timer all get requests served |
| `paged_forward` | 3 ids, 4 blocks of 2, with and without poison | every gather sees its own KV; the past stays in place; the free list keeps none |
| `admission_progress` | the scheduler's, prompts 1, 2, limit 5 | *violation*: "admission implies progress" fails for a resumed request |
| `engine_stream_contract` | 2 calls | *violation*: the stream of an undrained call never ends |
| `engine_pending_future` | 2 calls, limits 0, 2 and a huge one | *violation*: the future of a call whose admission raises never resolves |
| `band_gap` | convex fits with a falling start | *violation*: the band holds lengths outside the ratio |

The allocator has no run of its own: `scheduler` calls it in every way the program
does, and the proofs cover every other legal call sequence.

Why these bounds are enough to be interesting:

- Scheduler: with 4 blocks of 2 slots, prompts of 1 or 2 and limit 5, three
  requests are admitted together and cannot all finish together, so preemption,
  self-preemption, two victims in one step and the re-admission of several
  preempted requests in one step all occur; it is the smallest instance found in
  which a resumed request is preempted again before it produced a token
  (`admission_progress` is that trace, and `scheduler` checks that even so
  everything finishes). Prompt 7 with limit 1 is the whole cache exactly (8 slots),
  which is where "need + 1 blocks" and "content + 1 slots" differ. Limit 0 and
  over-sized requests exercise the refusals; batch 3 equals the number of requests.
- Static baseline: batch 2 over 3 blocks with limit 4 preempts one of the batch
  while the other decodes, so the hook is asked with a shrunken batch running, and a
  third submission leaves a partial batch behind.
- Paged forward: 4 blocks for three requests reuse every block several times with
  contents of another request in it; blocks of 2 put a boundary inside each content.
- Cost model: intercepts, slopes and curvatures of both signs against latencies and
  per-token costs on both sides of them give every order of the two curves at the
  two ends; 13 tokens make ranges of odd, even and unit length, and the crossover
  falls on both ends of the range.
- Engine: three calls over two ids give a duplicate of a live id, a reuse of a
  retired id and a call in the doorway while another is queued; limit 3 leaves
  crash points before, between and after tokens. The huge limit (9, of which the model
  uses only that it is in `HugeLimits`) comes first, in the middle or last in the queue,
  alone or twice, at an idle engine, beside a live request of another id and as a
  duplicate of a live one, which is refused before its size is looked at.
- Server: two handlers give every race there is between two of them (one id for both,
  one in the doorway while the other is queued, one streaming while the other times
  out); the client leaves before, between and after writes; limit 2 leaves a crash
  point after a first token that was already sent.
- Bench run: of three arrivals one may be refused, one aborted and one finished, in any
  combination; a crash finds any of them still queued. No limit is huge: a workload draws
  its lengths itself, from small ranges (`generate()` in `workload.py`).
- Metrics and probes: 8 blocks of 16 is what the block formulas of all four probes come
  to for the chosen sizes, so each runs on the cache it asks for; in server mode prompts
  of 20 and 63 with limits 1 and 3 fill it, cross block boundaries and preempt. A decode
  target of 30 with 8 measured steps crosses a block boundary while it is measured.
- Session: six residuals hold a run of four at every position, interrupted or not;
  errors below, at and above the gate and on both sides of the quadratic preference.
- Every action of every next-state relation fires in the passing runs.

Bounds: `MaxSubmissions` caps the number of accepted requests (the counter
`_seq_counter`, and with it the only unbounded supply of work); `Call` is finite.
A session and a cell are one of each: two share nothing but files, which `LeftBy` covers.
Nothing else is cut.

`CHECK_DEADLOCK FALSE` appears in the configurations of the engine, the server and the
cell, where after `AbortStreams` the thread is dead and when nobody has a call left to
make nothing can happen, in that of the probes (a script that is done), and in those of
the session and the cost model, which end. The scheduler
runs do check deadlock: an idle scheduler can always run an empty step, so a
deadlock would be an exception inside `step()`.

### Fairness

- `Scheduler!FairSpec` (and `OrderedSpec`): weak fairness of `Step`. `Engine.run()`
  calls `step()` again as long as something is live, and `step()` is sequential code
  that goes on. Nothing is assumed of `Submit` or of EOS.
- `StaticScheduler!StaticFairSpec`: the same, and weak fairness of `TimePasses`.
  Nobody is obliged to set `flush`.
- `Engine!FairSpec`: weak fairness of the engine thread (`EngineStep`), of `start()`,
  and of a thread that is inside the doorway leaving it. Nobody is obliged to call
  `submit` or `stop`, and a crash is never required.
- `Server!ServerSpec`: `Engine`'s, and of each handler thread that can go on. `TimesOut`
  is in the handler's fairness because the wait has a timeout (30 s); the client's own
  acts are not, so it may stay, leave, or never send anything.
- `BenchRun!CellSpec`: `Engine`'s, and of the driver and each collector, which are
  threads that block only in waits with a timeout or on a stream.
- `Probes!DrivenSpec`: the loop goes on, and so does a step; in server mode nobody has
  to submit or to scrape.
- `GpuDay!DaySpec`: the session goes on to its next stage; it need not raise.

### Findings

1. **A stream that never ends** (`engine_stream_contract`). `_finalize_shutdown`
   fails the futures of undrained submissions but puts nothing on their streams
   (`engine.py:225-230`), while `engine.py:49-50` promises "every stream submit()
   ever returns terminates with exactly one FINISH". A reader that follows the
   stream without consulting the future (a collector of `bench/run.py`) blocks for ever.
   `EveryAnsweredStreamEnds` states what does hold; `EveryClientAnswered` that no HTTP
   handler is caught by it, and `CellEnds` that the driver's timeout gets it out.
2. **Admission does not always imply progress** (`admission_progress`).
   `docs/phase1-engine.md:208-210` says every admitted sequence completes at least
   one decode step before it can face preemption. Headroom is checked per head but
   not reserved, and `_make_room` (`scheduler.py:252`) counts tokens generated
   before an earlier preemption, so of two requests re-admitted in one step the
   second can be evicted by the first before it is sampled. What does hold is
   `FreshNotPreempted` (never before the first token *ever*) and
   `EveryRequestFinishes`.
3. **A band with a gap** (`band_gap`). `costmodel.py:139-140` assumes the cost ratio
   monotone through the band, "which holds for the linear and quadratic forms this
   module emits". It does not for a quadratic fit with a falling start, and
   `results/gpu_day/cost_model.json` is one (b = -0.0057 ms per token): on its
   cpu_to_disk tier moving wins up to 941 tokens, loses from 942 to 3170 and wins
   from 3171 on. `CrossoverIsSmallest` and `LowerEdgeIsSmallest` hold all the same.
4. **A future that never resolves** (`engine_pending_future`). `engine.py:47-48`
   promises that "shutdown and engine-thread crashes both resolve every pending
   future". `_admit()` catches `ValueError` (`engine.py:178`), but `Scheduler.submit()`
   also computes `ceil(n_tokens / self.kv.block_size)` (`scheduler.py:235`), which raises
   `OverflowError` for an integer no float can hold; `max_tokens` comes from JSON and is
   checked for its lower bound alone. The thread ends with the item popped: it is neither
   on the queue nor in `_streams`, so `_finalize_shutdown` answers everybody but the
   call at hand, whose future stays pending and whose stream stays empty.
   `NoPutAfterFinalDrain` and `OnlyTheRaisingCallHangs` state what does hold: this
   happens to one call at most, and nobody else is lost with it. A handler in that
   position times out with a 503 (`EveryClientAnswered`).

Two remarks of the same kind that no run repeats. `_bisect_first` asks its caller to
guarantee `pred(lo)` false (`costmodel.py:106-107`); `crossover_band()` calls it with
`past_hi` and the crossover (`costmodel.py:153`) without knowing that. Where moving wins
decisively from the first token on, the search of a linear fit returns `crossover + 1`, so
the band is the crossover alone although the costs there are not within the ratio; such
are the bands [1, 1] that `docs/phase2-cost-model.md:43-44` reports as collapsed.
`UpperEdgeIsLast` says what the edge is when the precondition holds, `SessionEnds` that the
search returns when it does not. And `crossover_tokens()` returns `None` as soon as moving
loses at `max_tokens`, also where it wins for short prefixes (`costmodel.py:125`), so "None"
does not mean what `costmodel.py:119-120` says.

## 5. Proofs

Each theorem holds for every value of the constants that satisfies the assumption of
the module that declares them, and TLC evaluates each assumption in a run:

| assumption | says | justified by |
|---|---|---|
| `NumBlocksAssumption`, `SchedulerAssumption` | numbers are numbers, `BlockSize >= 1` | `range(num_blocks)` of the free list, the division by `block_size` |
| `EngineAssumption` | `None` is no call, limits are integers, and some of them may be huge | a JSON integer, of any size |
| `ScheduleAssumption` | the ids of a schedule are distinct | `generate()` numbers its arrivals |
| `CostAssumption`, `GridAssumption` | ratio at least 1, `MaxTokens >= 1`, tiers not negative | the defaults 1.25 and 2^20, which no caller changes; latencies and times per token are measured |
| `ProbeAssumption` | a probe's cache has as many blocks as its formula says and its batch a place for each of its requests, `K < Target` | the loops compute `num_blocks` and `max_batch` themselves |

In all of them the argument is the same: the properties speak of single points (while
`forward` runs, between two steps, when a row is written); an invariant extends them to
all points in between and is inductive; there is one lemma per action, and each theorem
reads its property off the invariant.

### The allocator and the safety of a step (`SchedulerProofs`)

`KVConserves`: `KVSpec => [](KVTypeOK /\ BlockConservation)`. The inductive invariant is
the conjunction itself, `KVInv`: distinctness of the free list and of each table,
disjointness of tables and of tables and free list, and completeness. Each is needed for
the others: popping keeps the parts of the free list disjoint because it was distinct,
appending keeps a table distinct because it was disjoint from the free list.
`SplitDistinct` and `ConcatDistinct` carry the sequence reasoning, so the call lemmas
`AllocateKeepsInv`, `AppendBlockKeepsInv`, `FreeKeepsInv` argue about sets. They assume
one call and `KVInv`, so the scheduler's steps cite them.

`SchedulerTypes`, `BlocksFollowRequests`, `StepNeverRaises`, `WriteBeforeRead` and
`ResumeIsNotRestart` are about `Spec`. `SchedInv` has:

- `TypeOK`, `BlockConservation`, `StatusMatchesQueue`, `TablesMatchRunning` and
  `StreamedOnce` as they are. `StatusMatchesQueue` is what makes the queues
  disjoint, hence a preempted or retired request leave exactly one of them.
- `TablesFit`, `SlotForEveryToken` at every point. Between the sample that outgrows
  a table and the block that is added, the table is one block short: `Owed`.
  Admission establishes it (`need` blocks for the content), sampling keeps it or owes
  one block (`BlocksForStep`: one token more needs as many blocks or one more),
  growth pays.
- `WorkIsLive` and `HeadGrows`: what is left of the snapshot still runs or was
  preempted in this very loop, and the requester that waits for room is still
  running. Both are needed because `_make_room` changes `running` under the loop.
- `RoomMade`: after a victim is freed the retry finds a block, which is what the
  assertion in the code relies on. It needs that a victim holds at least one block,
  from `TablesFit` and `LiveHasContent`; that there is a victim at all, `VictimRuns`,
  needs the youngest of the running to exist, by well-foundedness of `<`.
- `SeqNosBelow` bounds the submission numbers, for the type of the next one.

### The order of service and the lifecycle (`SchedulerProofs`)

`StrictFifo` speaks of positions in `waiting`; `OrderInv` says it of pairs (`Ahead`) and
follows a fresh request through a whole step:

- `WaitingInOrder`: in the queue whoever is ahead of a fresh request is older or has a
  token; `TokensToTheOlder`: no fresh request is older than one with a token.
- `RunningInOrder`, `FreshRunFirst`: admission took the fresh from the head of that
  queue, so they run in the order of submission and before the fresh that wait.
- `FreshInWork`, `WorkInOrder`: in the loop, the snapshot still holds every running
  request without a token, oldest first. So the one at its head that gets its first
  token is the oldest of all fresh ones: this is where `TokensToTheOlder` is kept.
- `HeadHasToken`: who asks `_make_room()` for a block has been sampled, so there is a
  candidate with a token and a fresh request is never the victim (`FreshNotPreempted`).
- `LiveFits`: outputs below the limit, and prompt and limit fit the whole cache, which
  `submit()` checked. With `IdleCacheIsEmpty` (nobody running, every block free) it
  gives `HeadFitsEmptyCache` (`HeadAlwaysFits`).

`FirstTokensInOrder`, `OnlyDecodedPreempted` and `HeadNeverWedged` follow.
`ImplementsLifecycle` is the refinement: `InitIsLifeInit`, and for each action either
`HiddenStep` (the phases, limits and counts it maps to do not change) or the one abstract
step it is: `SubmitIsAccept`, `SampleNextIsDeliver`, `SampleLastIsFinish`. It proves
`LifecycleSafety`, which is `Lifecycle` without its fairness.

Of `EveryRequestFinishes`, which fairness keeps out of reach, two theorems prove the part
that is safety. `StepReturns`: `StepLeft`, a number, goes down with each action of a step,
so a step has at most `Len(waiting) + 4 * MaxBatch + 3` of them; it rests on `RoomMade`,
without which the retry could go on preempting. `NoStepInVain`: a step that leaves
admission with no batch had nobody to serve (`HeadFitsEmptyCache`), and in any other the
first request of the batch is still running when its turn comes, so it gets a token. It
assumes `MaxBatch >= 1`: the constructor takes a `max_batch` of 0, with which nothing is
ever admitted. With the limits of `LiveFits` the two bound the work any set of accepted
requests can ask for; that steps keep being called is the fairness TLC assumes.

`StaticSchedulerProofs`: the hook moves `pc` and nothing else, so `SchedInv` and
`OrderInv` are invariant under `StaticSpec` too, and the theorems carry over
(`StaticKeepsSafety`, `StaticKeepsOrder`, `StaticImplementsLifecycle`).
`BatchesDoNotMix` adds `BatchAdmittedTogether`, inductive together with `SchedInv`.

### The forward pass (`PagedForwardProofs`)

`PagedInv` is `SchedInv` and: `LeftIsBatch` (what `forward` has still to serve runs and
is in the work list), `KVInPlace` (the first `Filled(r)` positions of a running request
are in the slots its table gives them; `Filled` is all of them once `forward` served it,
all but the newest from its sample on, none in prefill), `GrowsByOne` (a table
that is being grown fits the content before the last sample) and `FreeKeepsNoKV`. The
slot lemmas say that two positions never share a slot, because blocks do not
(`HeldByOne`) and positions within a block do not (division with remainder). Growing a
table or freeing another request's moves no slot of this one. `DecodePastInPlace`,
`FreedIsPoisoned`, `AttentionSeesOwnKV` (an action property: each gather of `forward`)
follow. `PagedRunsTheScheduler`: `PagedSpec => Spec`, so the scheduler's theorems hold
of it.

### The engine, its handlers and a benchmark cell (`EngineProofs`)

`EngineInv`: a stream is `Shaped` (token *i* at place *i*, a FINISH only last, counting
the tokens before it); the queue holds calls that returned unanswered, each once, and
nothing was put on the stream of an unanswered call; a call that is unanswered and not on
the queue either is the only one, has a huge limit, and the thread is on its way down or
dead (`LostRaised`: `TakeRaises` leaves `idle` or `drain`, where nothing was lost yet, for
places that no action leads back from); a request is live exactly while its req_id
has a stream registered (`StreamOfLive`), and a registered stream is that of the admitted
call, open, with as many tokens as were delivered (`RegisteredIsOpen`); a set stop event
means nobody is in the doorway, and a dead engine an empty queue (`DoorShut`). The last
is what the doorway lock is for. `StreamsKeepTheContract`, `CallbacksFindTheirStream`,
`FinalDrainIsFinal` (with the one lost call in it, not around it) and the action property
`AnswersAreFinal` follow.

`HandlerInv` says for each place of a handler what it knows of its future and stream, and
gives `AnswersAreTrue`. `CellInv`: a result was made of the FINISH of a stream that is
over, once per stream (`ResultsAreEnds`); a FINISH that is not aborted belongs to an
admitted request that is done (`EndedIsDone`); the driver returns when each arrival has a
result. `RowsAreWholeCells` counts (as many results as arrivals, `OneResultEach`), and
`ChartedRunsAreWhole` adds up: each arrival has exactly one result, so the sum over the
results is the sum over the arrivals (`SumRenamed`). `ServerRunsTheEngine` and
`CellRunsTheEngine`: every behaviour of either is one of `Engine`'s `Spec`.

### The accounts (`MetricsProofs`)

`CallerSpec` is any caller: whatever numbers it submits between two steps, any
sampled token EOS, scrapes at any time. `DriversAreCallers` shows that the server and the
measuring scripts are such callers. `MetricsInv`, inductive with `SchedInv` and
`OrderInv`, has:

- `Accounts`: records, `on_finish` calls and `preemptions_total` balance at every point,
  with the request whose record (`Unrecorded`) or callback (`Calling`) is still to come.
- `FreshAccounted`: the fresh tokens, those of the running step included, are the prompts
  of the `Forwarded`: the recorded and the live that have a token or are in a batch whose
  forward pass has run. It needs `FreshNotPreempted`: otherwise a prompt would count twice.
- `RecomputeAccounted`: what the preemptions threw away has been recomputed or is owed to
  the `Resuming`, up to one token per preemption, the one sampled but not written yet.
- `PrefillsKnown`: who is in prefill is in its first forward pass or was preempted.
- `OutputsInSteps`, `RetiredInSteps`: a step gives each request one token at most
  (`ToCome` has those it still serves) and retires at most a batch.
- `ScrapeAgrees`: the values a scrape has read so far cover what its client saw, and each
  bounds the next, because the code reads them in an order in which later ones only grow.

`RecordsAlwaysAccount`, `PrefillTokensAlwaysAccounted`, `ScrapesCoverFinished` follow for
`CallerSpec`, and `DriversKeepAccounts` for `DrivenSpec`, the specification of the run.

### What the measuring scripts measure (`ProbesProofs`)

`ProbesAlwaysMeasureAsLabelled`: for every list of lengths, context, batch and number of
steps, and every block size. `ProbeInv`, inductive with `CallerInv` of `MetricsProofs`, is
built in four layers, each of which needs the one before:

- Room. If `b` requests at most are alive, none ever needs more than `m` blocks and
  `b * m` blocks exist (`Roomy`), then the head of the queue has its headroom
  (`RoomToAdmit`) and a table that must grow finds a block (`RoomToGrow`): blocks in use
  are counted by who holds them (`HeldBound`). `PlanIsRoomy` reads `b` and `m` off the
  formula each script computes its `num_blocks` from.
- Pace. So nothing is preempted (`NeverPreempted`), whatever waits joins the next step
  (`AllJoin`), and every live request gets one token per step since it came (`Paced`).
- Plan. Where the script stands tells how many requests came and how many steps were
  run (`Clock`), which of them are over (`NobodyDone`), and what each of them is (`Asked`);
  the clocks differ by script and account for `fill` and `drain` loops going round.
- Record. The record of step *t* is therefore known before the step runs (`StepIs`,
  `StepsKnown`), and so is the command whose figure is read next (`LabelKnown`).

From the same invariant: `ProbesHaveRoom` (nothing of a probe is ever preempted, a step
that begins has something to run and runs all of it) and `ProbesRunFewSteps` (the loops
around `step()` go round a fixed number of times), the safety half of `ProbesEnd`.
`ProbePromptsAreAccepted` adds that `submit()` refuses none of their prompts, under two
assumptions: no prompt is empty, and `BlockSize >= 16`, the default no script changes. The
second is needed: the mixed cell asks for 64 tokens its formula does not count, and they
fit the four spare blocks if these have 16 slots each.

### The cost model and the session (`CostModelProofs`)

`CrossoverIsExact`, `LowerEdgeIsExact` and `UpperEdgeIsExact` say that the bisections are
exact for every fit, tier, ratio and range. `CostInv` has the bisection invariant
(`SearchFits`: the predicate is false at `lo`, true at `hi`, and false where the search
began) and which results are there yet (`ResultsSoFar`). Bisection alone only finds
*some* change of the predicate; that it is the first is `OneSignChange`: a polynomial of
degree two that is negative at the start and not at the end changes sign once between
them, by `Chord`, which compares three of its values, in the convex and in the concave
case. It is used for the crossover and for the lower edge; for the upper edge the fit must
not be concave and the ratio not be passed at the crossover, the hypotheses of
`UpperEdgeIsLast`, without which it fails (finding 3, and the first remark after the findings).

`PricingReturns`: a round of a search leaves half of what there was to look at and the
call has three searches at most. It needs no more of the predicate than the code checks, so
it holds in the calls of that remark, too, where `_bisect_first()` is called outside its
precondition.

`DayInv` carries `CostInv` through a session, with what the pricing leaves behind
(`EdgesInOrder`), whose files are there (`DiskIsOurs`) and that later stages have passed
the gate (`GatePassed`). `GateIsSound` also needs that the counter of
`_residual_structure`, folded over the residuals, finds a run of four exactly when there
is one (`StructureIsFourAlike`), for any number of grid points. `SessionsBandIsExact`,
`SessionsDoNotMix` and `PointsAreInOrder` are the other theorems.

### Data (`DataLemmas`)

Most lemmas say what one operation does to the elements of a sequence without repetition
or to the order of two of them. The sums of the community modules are recursive functions
on the subsets of a set: `SumIsRule` shows that the defining equation has exactly one
solution, and `SumAdd`, `SumUnion`, `SumSame`, `SumRenamed` and `SumLonger` are what the
other proofs cite. Where induction is needed it is over a set of numbers that has a least
element (`LeastNumber`, from well-foundedness) or over finite sets with the property given
as a set of sets (`SetInduction`), since a theorem with an operator parameter cannot be
instantiated by the provers.

### What is only model-checked

- Liveness, and with it the fairness half of the refinement `Lifecycle`:
  `EveryRequestFinishes`, `OnlyTheRaisingCallHangs`, `EveryAnsweredStreamEnds`,
  `StopEndsThread`, `EveryClientAnswered`, `AbandonedRequestsRetire`, `CellEnds`,
  `ProbesEnd`, `SessionEnds`, `PartialBatchesDrain`, `FullBatchIsServed`. ENABLED and
  fairness are beyond the prover.
  What is proved of them is that steps, searches and loops are finite and not in vain
  (`StepReturns`, `NoStepInVain`, `PricingReturns`, `ProbesRunFewSteps`).
- The four runs that expect a violation: counterexamples, each to a sentence of the docs.

## 6. Not modelled, and why

- The arithmetic of the layers, sampling by argmax, the values of tokens, tokenizing,
  JSON, loading of weights: data that no property here depends on.
- Clocks, latencies, percentiles, makespan, burst profiles, bandwidths: numbers that are
  recorded and printed; no decision of the modelled code depends on them except through
  the timeouts and gates, which are modelled as free choices.
- Of `server.py`: `/health`, and `num_running`, `num_waiting` and the KV percentage of
  `/metrics`: single reads with nothing to relate them to. Process exit with daemon
  handler threads: nobody is left to observe anything.
- `preemption_log` of the scheduler: written, read by tests only.
- Of `run_cell()`: the call of `check_invariants()` behind the engine's stop and the
  condition that a cell of the main sweep be free of preemptions, which narrows
  `valid_for_chart` further; `BenchRun` states what `run_valid_for_chart` means, and no
  property of it depends on either.
- Of the benchmark: the random workload (lengths and times are free choices), the grid of
  cells, `collision_check.py` (the loop of `run_cell` and a count), `fake.py` (a sleep).
- Of the calibration: curve fitting in floating point, device synchronisation, transfer,
  disk and memory measurement, hardware capture. They are I/O and arithmetic without
  control flow a model could get wrong; what is decided from their results is in `GpuDay`.
  Files are whole or absent there: a crash inside `write_text` is not modelled.
- `plot.py`: drawing.
- In `costmodel.py`: `round_trip_ms` and the rounding of floating point.
