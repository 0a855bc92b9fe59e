# Hydra: a verification project

Hydra is a coordinator (Elixir, Phoenix, Oban, SQLite or Postgres) that leases inference jobs to
workers (Rust) over Phoenix channels and answers callers over an OpenAI-compatible HTTP API and
MCP. This directory holds TLA+ models of its logic, the TLC configurations that check them and
machine-checked proofs about them. Source paths below are relative to `src/`;
`jobs.ex` is `coordinator/lib/coordinator/jobs.ex` and so on.

## 1. Inventory

| Component | State | Operations | Hard part |
|---|---|---|---|
| Job lifecycle (`jobs.ex`, `jobs/state.ex`) | one row per job: status, state, worker, lease, attempts, rounds, three deadlines | enqueue, mark_leased, renew, reclaim, progress, park, resume, complete, requeue, cancel, expire | read-then-conditional-write by many processes on many nodes; crashes between statements |
| Lease assignment (`lease_worker.ex`, `lease_sweeper.ex`) | Oban jobs | route and lease, snooze, sweep | ten concurrent executors, at-least-once execution |
| Worker channel (`worker_channel.ex`, `worker_session.ex`, `worker_registry.ex`, `worker_signals.ex`) | per-connection inflight set, latency and failure signals in Presence | job, result, heartbeat, chunk, progress, input request, policy updates, terminate | overlapping connections, late frames, updates between join and subscribe |
| Worker client (`coordinator_client.rs`, `runtime.rs`) | tracked tasks and their leases | run, cancel, heartbeat, reconnect | abort against completion, reconnect with work in flight |
| Worker gateway (`gateway.rs`, `limits.rs`, `retry.rs`, `usage.rs`) | permits, counters, usage buffer | admit, attempt, fall back, judge, account | limits at their boundary, retries, every way out of a call |
| Provider adapters (`adapters/*.rs`) | what a stream has been folded into | complete, stream, send the conversation back | six dialects that must mean the same; streams cut anywhere; call ids |
| Runs of a worker (`worker-tauri/src/runner.rs`, `worker_run.rs`) | the held task, the status the UI polls | start, stop, reconnect | a dropped future detaches the tasks it spawned |
| Self-update (`self_update.rs`) | executable, partial and old file, the service's image | check, download, verify, swap | crashes between renames, a release replaced meanwhile |
| Routing (`router.ex`, `worker.ex`, `worker_policies.ex`, `privacy.rs`) | none | filter and score | privacy lattice, ties |
| Delegation and MCP tools (`delegation.ex`, `mcp/*.ex`) | none of its own; reads Jobs | submit, get, wait, cancel, provide context | check-then-act quotas, answering a round that is over |
| HTTP gateway (`api_router.ex`) | one process per request | submit, await, stream, abandon | timeout against late result |
| Rate limiter (`rate_limiter.ex`) | ETS counters and holders | check, acquire, release, sweep | windows, owner death |
| Retention (`job_retention.ex`), usage (`usage.ex`) | job and usage rows | redact, delete, record | racing the lifecycle; unique rows |
| Device authorization, tokens (`device_auth.ex`, `api_tokens.ex`, `join_auth.ex`) | pending codes, hashed tokens | start, approve, poll | one-time delivery, expiry |
| Secret redaction, identity, vault and sign-in, front-end commands | files and text | -- | I/O and formatting |

How they interact: a caller submits through the HTTP gateway or MCP, which writes a row and an
Oban job. `LeaseWorker` routes the job against the workers in Presence, writes the lease and
broadcasts it on the worker's topic. The worker runs it and pushes progress, questions, heartbeats
and a result on its channel; `WorkerSession` turns each into a call of `Jobs`, which broadcasts the
outcome to whoever waits. The sweeper and a closing channel take leases back. All of these share
one thing, the job row, and the only mutual exclusion between them is the WHERE clause of each
UPDATE. That is why the core of this project is the row. On the worker a run connects, spawns the
tasks that serve the connection, and hands each job to the gateway, which picks a model, reserves a
slot, calls an adapter and judges its answer before any of it leaves.

What makes each correct: the row moves only along the lifecycle and a finished job stays finished;
no job is forgotten; decisions taken from a row that was read earlier still hold when they are
written; a superseded lease has no say; a worker that is no longer wanted is told; every job ends;
counters respect their limits; a routing decision never widens privacy; a limiter never leaks a
slot; a streamed answer is the answer; a job that ended keeps no lease alive; an update that fails
anywhere leaves a worker that runs.

## 2. Modules

The job row:

- `JobStates` -- the two lifecycle columns and the maps between them (`jobs/state.ex`).
- `Jobs` -- the row and everything that writes it. One action per database statement or
  transaction; a handler that reads and then writes is two actions with a snapshot in between
  (`h[p]`), so every interleaving of handlers on every node is in the model. Guards of a write are
  over the row at the time of the write (the WHERE clause), decisions are over the snapshot (the
  record the Elixir code holds). Time is two Booleans per row: `due` (the deadline of the current
  status has passed) and `overdue` (`expires_at` has).
- `JobLifecycle` -- the abstract lifecycle: status, attempts, rounds. `Jobs` implements it.
- `JobsProperties` -- type invariant, invariants, action property, refinement, liveness.
- `JobsClaims` -- a statement of a comment of the repository that does not hold.
- `MCJobs` -- instances for TLC; the `.cfg` files give the constants.
- `JobsInvariant`, `JobsSteps`, `JobsSafety` -- the inductive invariant and the proofs (section 4).

Variables of `Jobs`: `row` and `state` are the columns of `jobs` that decide something (`state` is
kept apart because the abstraction never reads it); `oban` counts the waiting `LeaseWorker` jobs of
a row; `issued` the lease ids generated (`gen_lease_id/0`, 64 random bits, is taken to be fresh);
`sent` and `cancels` the messages ever pushed to workers; `told` what was published on the result
topic; `h` what each executor, channel process or caller is in the middle of. A process in `Fallible`
may die at any step (`Crash`), and a channel in it may have a database call fail while it applies a
result: `persist_result/1` rescues the exception and the result is published all the same, after the
first read (`ResultUnread`) or a later write (`ResultUnstored`). Workers are not
processes there: a worker may at any time report anything on any lease it was ever sent, which
covers lost, late, duplicated and reordered reports and every reconnect.

The link to a worker:

- `WorkerLink` -- both ends of a worker's connections. `chan`, `bus`, `active` and `inflight` are
  the channel process (`worker_channel.ex`: its mailbox of broadcasts, `active_leases`,
  `worker.inflight`); `link`, `task` and `doomed` the client (`coordinator_client.rs`: its socket,
  the `jobs` map of tracked tasks, aborted tasks that have not reached an await yet); `down` and
  `up` the frames in between, cut anywhere when a connection breaks. What `Jobs` decides is one
  variable, `row`: a generation is live, answered, or taken back by somebody else (cancelled,
  expired, reclaimed). Broadcasts are made by other processes than the writes they follow, so a
  cancel may overtake its job, and one generation may be pushed twice (`Twice`), which `Jobs`
  shows to be possible. A job that the worker's build cannot decode (`Undecodable`) is dropped without
a word (`SkipJob`). It meets `Jobs` at three points: `BroadcastJob` is `PushLease`,
  `BroadcastCancel` is `Tell`, and the reports `TakeReport` takes are those `Jobs` allows any
  worker to make at any time, so the model of the row assumes less than the link delivers.
- `WorkerLinkSafety` -- its proofs.

Where a job runs:

- `Routing` -- two decisions as operators on records: the coordinator's (`Routable`: `router.ex` and
  `worker.ex` on the snapshot a worker registered) and the worker's (`Check`, `CandidatesFor`,
  `Choices`: `privacy.rs` and `gateway.rs` on its own catalog and configuration). They are written
  twice in the code, in two languages, which is why they are two definitions here.
- `Dispatch` -- a request from the door to the model. `Submit` is what either door decides and stores
  (privacy level, consent, refusals); `asked` is history, the caller's own words, so that consent is
  judged by what the caller said and not by what the door made of it; `granted` is the admin's row and `shown` the worker's snapshot
  in Presence, which follow each other in their own time (`Grant`, `ApplyGrant`, `Register`, `Leave`);
  `boot` and `catalog` are the models the worker had when it started, which every join repeats, and
  those it has now (`Probe`). `Lease` routes on the snapshot; `Start` is `execute_observed` up to the
  call of the adapter, with the reservation of `limits.rs`; `End` is every way out of it. `times` and
  `slots` are the state of `LimitGuard`. What `Jobs` and `WorkerLink` say about leases and connections
  is abstracted here: a lease may end at any time, well or badly.
- `MCDispatch` -- configurations, requests and models for TLC.
- `DispatchSafety` -- its proofs.

What a model says:

- `ProviderWire` -- how each of the six dialects streams an answer (`Wire`), how its adapter folds the
  lines back into a response (`Feed`, `Finish`), and what its blocking call gives for the same answer
  (`Whole`). Text and the arguments of a call are sequences of tokens, some of them wide (a character
  of several bytes). `Torn` is what `from_utf8_lossy` makes of a line that a chunk boundary cut: its
  wide tokens are garbled, in the text and in the arguments alike.
- `ProviderRequest` -- what each adapter sends of a conversation with tool results (merged turns, ids,
  names), and the gateway's own reading of an answer: tool calls written as markup, schemas, fences.
- `ProviderCall` -- one conversation. A turn is the rest of `execute_observed` after the reservation:
  the bearer token, the attempts of `retry.rs` with their backoff, the chunks, the end of the stream
  or its failure, the judgement, the accounting, and the caller's next turn with the results of the
  tools it called, in any order. `answer` is what the model generates, `received` how many half lines
  of it have arrived, `fold` the adapter's state, `shown` what the caller has already seen, `held` the
  reservation, `records` the usage records. The read timeout is one of each read: `Silence` is a part
  of it passing without a byte, `Drip` a byte that starts it again without adding to the answer, and
  `ReadTimeout` needs a silence that nothing interrupted.
- `MCProviderCall` -- answers and requests for TLC.
- `ProviderStreams`, `ProviderCallSafety` -- what folding the lines of a stream gives, and the proofs
  about `ProviderCall` that rest on it.

`Dispatch!Start` ends where `ProviderCall!Begin` starts, and `Dispatch!End` is any of its outcomes.

The worker's process:

- `WorkerHost` -- the tasks of a worker process. A run is one tokio task: `abort()` takes effect only at
  an await, so the code between two awaits is `Wake` (the task is polled) followed by one section
  (`Registers`, `Connects`, `ReadsJob`, ...), and `Drop` needs the run at an await. The tasks a run
  spawned (`writer`, `pulse`, `catalog`, and per job `work` and `beat`) outlive it. `running` and
  `connected` are the status the UI polls. `raced` is history: a Stop overlapped the run's own writes
  to the status. The frames and permits of a connection are in `WorkerLink`.
- `WorkerHostSafety` -- its proofs.
- `SelfUpdate` -- `hydra-worker update`. Paths name inodes and inodes hold two parts of a build, so a
  file may be empty, torn, mixed or whole, a rename moves content, and an open file survives the
  removal of its name. One action per request, read, write and rename; `Fail` is a request, read or
  write that fails, `Crash` a process killed between any two steps. The host itself does not fail: the
  code flushes without syncing (`self_update.rs:336`, `:376`), so nothing is promised of one that loses
  power. `Publish` is a run of CI that has built a new release, of which `Upload` replaces the binary
  and the checksum in any order, each by deleting the old file and uploading the new
  (`.github/workflows/worker.yml:417`): in between a request for it gets a 404. `sums` says whether the
  release publishes checksums at all, `uploads` what is left to replace. `RestartService` is a restart
  at any moment.
- `SelfUpdateSafety` -- its proofs.

## 3. Runs

| Run | Question | Instance |
|---|---|---|
| `jobs_executors` | two executors race over one job, channels and callers may die: type, lease columns, what a poller sees, lease within the caller's deadline, finality, refinement of `JobLifecycle` | 2 slots, 1 channel, 1 caller, 2 leases |
| `jobs_channels` | two channels deliver results and questions of two generations, the executor may die: snapshots, rounds, `ok` is the end, no job is stranded | 1 slot, 2 channels, 1 caller, 2 leases |
| `jobs_liveness` | every submitted job ends | 1 slot, 1 channel, 1 caller, 2 leases |
| `worker_link` | slots are neither freed early nor lost beyond duplicates, no lease is forgotten but those of jobs the worker cannot decode, a cancel frees its slot although the generation hangs | 2 leases (one pushed twice, one perhaps undecodable), 2 connections, 1 permit |
| `dispatch` | strict levels never reach a provider, what is private runs on a provider only if its caller's own request asks for it or, at the HTTP door, does not refuse it, the operator is obeyed, slots balance, providers come last, the two decisions agree for operators who refuse nothing | 2 jobs, 8 requests, 1 worker, 5 configurations, 2 models |
| `self_update` | a usable binary is always there, what is installed is what was verified, what runs is never written to, and repeating the command gets the last release in | 1 installer, 1 `--check`, 3 builds of which one does not load, both hosts, 1 new release, 2 faults, 2 checks |
| `provider_call` | streaming gives what the blocking call gives, a cut stream a prefix; the caller sees the answer it gets and nothing of a refused one; accounting; tool results; a call ends unless its provider drips for ever | six dialects, 2 turns, 3 attempts, 6 answers, 4 requests |
| `worker_host` | no heartbeat outlives its job, the polled status is true, a closed connection falls silent: reader, writer, heartbeats, catalog refresh and lease heartbeats end | 2 runs, 2 connections, 1 job at a time |
| `claim_cancel_told` | (violated) cancelling tells the worker that holds the job | 1 executor, 1 channel, 1 caller |
| `claim_survives_restart` | (violated) a process death between two statements loses no job | 1 executor, 1 channel |
| `claim_tool_results_named` | (violated) Gemini is told each tool result under the function it is of | Gemini, 3 turns of one call |
| `claim_stop_drops_socket` | (violated) Stop drops the socket | 1 run, 1 connection |

Bounds of the job runs. One job: no statement of `jobs.ex` reads two rows to decide about one of
them, so rows are independent except for the processes that serve them, and a process that serves
another row is busy, which only removes interleavings. `Lease` bounds the generations of a behaviour
(two: one superseded, one live). `MaxAttempts` and `MaxRounds` are 1 where the code has 5 and 3: what
matters is being below and at the limit. `AttemptBound` stops workers from reporting once a job has
spent that many attempts, since requeue has no limit of its own. `Fallible` names the processes that
may die; the two safety runs split it so that each stays below two minutes. `jobs_channels`, which
checks `OkIsTheEnd`, has no channel in it: the property needs the channels' database calls to succeed
(section 5 says what happens when one does not). `jobs_executors` has results that are
`ok` or oversize, the two that differ most in what is published.

Bounds of `worker_link`. Two leases, so that a report of one could free the slot of the other; two
connections, so that the old one may be half open while the client is on the new one, and so that
one has a build that acknowledges cancels and the other one that does not (`Acks`); one permit, so
that a task may wait for another that hangs; one lease whose job the client may be unable to decode,
which `LeaseAccountedFor` leaves out and `CancelFreesSlot` does not. A generation is broadcast once, or twice if it is in
`Twice`, and cancelled once: messages are finite in number and no other bound is needed.

Bounds of `dispatch`. One worker, because neither decision relates two workers, under each of five
configurations (the default routing policy, the fallback switched on, prefer external, external only,
local only; operators that allow all levels and operators that do not); a local and an external model,
so that each catalog from none to both occurs; two jobs, so that one waits for the provider slot of
the other (`parallel` is 1); two requests per hour, so that the hourly limit refuses too. The eight
requests take both doors, all four levels, private with and without a word about providers, public
that declines them, the contradictory ones (sensitive with consent, a
`local_only` job that names an external model) and a question tool.

Bounds of `self_update`. One process that installs, because two are beyond what the code promises
(section 5), and one that checks, because `--check` also cleans up; three builds, so that there is one
to come from, one to go to and one that is published but does not load; a new release at any moment,
each of its files gone for a moment; two faults, so that the recovery from one fails too. Five inodes are never
exhausted: at most three paths, an image and a download are in use. `InstalledAsVerified` says nothing
of the checksum when none was found, for lack of one or in the moment CI replaces it
(section 5). `Converges` is about a release whose files agree: with one new release
they do in the end, two runs of CI at once could leave a checksum of one and a binary of the other.

Bounds of `provider_call`. Two turns, so that a result goes back; two calls in an answer at most, which
is also `MaxCalls`, where the code has 64; text up to and beyond `MaxText`, three tokens for the
code's byte limit; three attempts as in the code, backoff 1 capped at 4, and a Retry-After
above the cap or none. `StreamedIsWhole` leaves out an OpenAI answer of more than `MaxCalls` calls: the stream
ignores those beyond the limit, the blocking call does not. The answers have a wide
character in text and in arguments, calls with fragments and without arguments, too much text, markup
of an offered and of an unknown function, fenced JSON. With two turns a conversation
holds the calls of one assistant turn when it is sent back; for longer ones `ToolResultsNamed` rests on
its theorem. The model takes a line to be cut at one place, ids and names to be
ASCII, a line that is too long to be a broken stream, and Ollama to put all calls of an answer on one object. A read timeout before the headers counts as a
failed attempt, which is retried; in a response a provider may fall silent or drip for ever.

Bounds of `worker_host`. Two runs and two connections, each used again when it is over, so that one
left behind by Stop overlaps the next; a job left behind on the first overlaps one of the second by
using the job again.

Fairness. `jobs_liveness`: deadlines pass, a begun handler continues (weak), an Oban executor
eventually takes each waiting job and each sweep (strong, because the ten executors are shared: an
executor that is free is only intermittently so). Oban's queue and cron plugin justify both. Nothing
is assumed of workers or callers: the deadlines and the sweep must end the job alone.
`worker_link`: channel processes handle their mailbox, the client reads its socket, the transport of
a connection the client has left times out (weak; Phoenix and tokio schedule every process with
work, Phoenix closes a socket that misses its heartbeats). A generation need never end and no permit
need ever be given.

`self_update`: an update that runs goes on, the operator repeats the command until it succeeds, CI
finishes replacing the files of a release (weak); `Converges` is claimed for Unix. `provider_call`: a
job begins, time passes and timers fire (weak), nothing is assumed of the provider, which may send
nothing, or a little again and again. The read timeout ends only the first of these, so `CallEnds` says
that a call ends or its provider drips for ever; such a call, like one of Ollama, which has no read
timeout and is left out, lasts until the coordinator cancels the job. `worker_host`: the executor polls
ready tasks, timers fire, the code between two awaits ends (weak); nothing is assumed of the user, of the
coordinator, which may keep a connection open for ever, or of the backends: a job need never end.

The deadlock check is off where an instance comes to rest: when its jobs are over and its bounded
supply of leases, messages, turns, releases or faults is used up, or when a stopped worker is not
started again. `dispatch` never rests and checks it.

## 4. Proofs

All theorems hold for every value of the constants that satisfies the named assumption of the module
(`JobsAssumption`, `WorkerLinkAssumption`, `DispatchAssumption`, `ProviderCallAssumption`,
`WorkerHostAssumption`, `SelfUpdateAssumption`).

**The job row.** `JobsSteps` proves `Spec => []TypeOK`, which is inductive: a pushing handler's
worker is part of the handler's type. The safety properties are not. That a decision taken from a
snapshot still holds when it is written needs that a lease id is live at most once, and that needs
that every lease id in a row, a snapshot, a message or a request was issued, so that a new one is
none of them. The inductive invariant `IInv` (`JobsInvariant`) therefore has ten conjuncts: `TypeOK`;
`Submitted` and `Unsubmitted` (what is worked on has a row, what has no row has spent nothing, which
`JobLifecycle!Submit` needs); `LeasesKnown`; `LeaseColumns`; `DecisionsHold` (`SnapshotCurrent`, also
for the reclaim loop while it tells a worker); `RoundsBounded`; `LeaseWithinDeadline`; `ColumnsPaired`
(the pairs of columns that do occur, from which `PollerNotMisled` follows); and
`ChannelsStore => OkIsTheEnd`, where `ChannelsStore` is `Fallible \cap Channel = {}`. `OkEndsTheJob` has
that as its hypothesis; the other theorems hold whatever database calls fail (but see `NeverStranded`).

The proof does not take the thirty actions times ten conjuncts. `JobsSteps` shows once that every
step changes one row in one of nine ways (`RowStep`: it stays, enters, ticks, is assigned, retried,
exhausted, parked, resumed or finished), that every handler reads, renews or goes on
(`HandlerStep`), and what is sent and published (`SendStep`, the tell lemmas). `JobsSafety` then
preserves each conjunct against those kinds, and maps the nine kinds to the steps of `JobLifecycle`
for `JobsImplementLifecycle`.

`NeverStranded` is proved last, from an invariant of its own, `QInv`: a pending row has an Oban job
or a process that answers for it, and an operation is where the code runs it. It assumes
`Fallible \subseteq Slot`: only Oban executors die, whose jobs Oban runs again. Without that
assumption the property is false, which is run `claim_survives_restart`.

**The link.** `IInv` of `WorkerLinkSafety` has, per connection, the count (`Slots`) and, per lease, its
whereabouts (`Accounted`, `PushedAgain`). `InflightDrift` is not inductive without knowing that a
generation that is active and waits in the mailbox again is on its second push.
`LeaseAccountedFor`, of the leases outside `Undecodable`, is not inductive for builds that do not acknowledge: the client drops the task and
says nothing, and what saves the lease is the order on the socket, that an active generation was
pushed again after its cancel (`PushedAgain`).

**Where a job runs.** `ChoiceSound`, `LocalFirst` and `RoutedHasChoice` are lemmas about the two
decisions alone. `IInv` of `DispatchSafety` carries them along a run: `Sealed` (a stored job is what its door makes of `asked`, so one of a strict level has no consent), `Placed` (what the worker decided at `Start` still holds while the job runs,
because neither the row nor the configuration changes, although the catalog and the grants may) and
`Counted` (slots are the provider calls that run). `NeverLeaves` needs the first two together: the
worker's check alone would let a sensitive job out if its caller consents and its operator lists the
level, and only the doors rule that out. `FallbackIsInert` needs no state: dropping providers behind a local
candidate that always wins changes nothing.

**What a model says.** None of the properties of a response is inductive: while a stream lasts there is
no response, and what will be one is in the adapter's assembly. `ProviderStreams` therefore says what
the assembly is after `k` lines of an answer (`Assembled`): the text is like the text of those lines, a
character cut by a chunk aside, the slots or calls are those announced so far with the arguments so
far, the deltas are the text, the usage is there once its line was read. It holds of the empty fold
and each of the six `Feed`s keeps it, whether the line was torn or not (`AssembledStep`); a chunk folds
the lines that are complete since the last one, so it keeps it too. At the end of the stream
`FinishText` and `FinishCalls` turn it into the statements about the response: all of the answer when
all lines were read, a beginning of it otherwise, in which every call but perhaps the last has the
arguments of the blocking call's, garbled characters aside, and the last may lack their end. `IInv` of `ProviderCallSafety` is `Typed` (`TypeOK`
with a sharper bound of the time waited, which is by attempt, and the ranges of answers and messages),
`Bookkept` (`AccountedOnce` with the reservation of an idle job), `Assembling` (`Assembled` while the
stream lasts, and what was shown is the deltas or nothing) and the properties themselves, which the end
of a stream makes true and which nothing disturbs until the next turn.

The definitions underneath are recursive functions and folds, which TLA+ defines by CHOOSE, so what
they compute can only be said after it is shown that a function with that equation exists. The
library's induction theorem takes an operator as parameter, which these provers cannot instantiate;
`Induction` states it for a set instead, from the well-foundedness of the naturals, and existence and
value are proved by it (`FoldOfIterate`, `FoldOfFeed`, `FoldOfMarkup`, `FoldOfTurns`, `DoubledType`).

**What is sent back.** `ToolResultsNamed` is about sequences of any length that are joined and filtered.
The provers take `SelectSeq` as opaque, so `ProviderRequest` filters by joining (`Kept`), and two facts
about joining carry the rest: `FlattenConcat` (what two sequences of sequences give is what each gives,
one after the other) and `KeptConcat`. The parts of a request are then those of each message
in turn (`PartsFor`, `RequestTurns`), for Anthropic too, whose turns hold several results
(`AnthropicStep`): a result is one part, any other message gives none that is a result (`ResultsTold`),
and where there are ids the calls told are those of the conversation (`CallsTold`). The inductive
invariant `Conversing` says what the messages are: the system message comes first, only assistants make
calls, and the k-th tool message answers, by its id, a call of the function `meant[k]`. Only `NextTurn`
adds messages, and it answers each call of the response once (`ConversationGrows`). As the ids differ
there is one function for each id (`OneCallEach`), so the last call with it, which the dialects
by id and Gemini's map of names both take, is the one that was answered (`ResultsAreNamed`).

**A worker's tasks.** `IInv` of `WorkerHostSafety` adds to `TypeOK`, `BeatMeansWork` and `ShownIsTrue`
two facts. `OneRun`: of the runs that were not aborted only the held one lives.
`OneWriter`: without a race, only the held run is between two awaits, hence writes the status.
`AtMostOneRun` follows: however often Start and Stop are pressed, at most one run is
not on its way out.

**The update.** `SelfUpdateSafety` proves its four theorems under the hypothesis `OneInstaller`: at most
one of the processes is not a `--check`. Its invariant follows the installer: `Checking` (a check never
gets past the comparison), `Distinct` (the executable, the download and the file moved aside are
different inodes), `Writing` (an open download is the partial file, and nothing that runs),
`Downloaded` (from the verification on, the partial file is whole and is `got`), `Images` and
`BinaryKept`. `Images` is what saves Windows between its two renames: the file moved aside is the image
of every process that could remove it, and an image cannot be removed there.

**Only model-checked.** Liveness: `EveryJobEnds`, `CancelFreesSlot`, `Converges`, `CallEnds`,
`ClosedFallsSilent`; the proof system does not reason about ENABLED, hence about fairness. The violated
claims.

## 5. Where the code and its documents disagree

Four disagreements are runs, each with a trace: `claim_cancel_told` (a cancel that read the job as
pending never tells the worker it was leased to meanwhile, `jobs.ex:975`), `claim_survives_restart` (a
process that dies between the UPDATE and the insert of the Oban job loses the job, `jobs.ex:1073`),
`claim_tool_results_named` (`gemini.rs:245`: ids start again in each response, so an older result goes
out under the latest function's name), `claim_stop_drops_socket` (`runner.rs:65`: the tasks of the
connection outlive the run).

Others were met while modelling and have no run of their own; the models have the code's behaviour:

- `worker_session.ex:243` rescues whatever `Jobs.complete/2` raises, a failing database call included,
  and the result is broadcast as `ok` although nothing was stored: the caller has its answer, the row
  stays leased, and after the sweep the job runs again. The rescue is meant for jobs that are not in the
  database (`worker_session.ex:241`). `OkIsTheEnd` therefore assumes that no such call fails, and is
  violated as soon as a channel is in `Fallible`.
- `worker_session.ex:84` says that a result of a superseded lease is never broadcast; for an oversize one
  `handle_result/1` (`worker_session.ex:106`) ignores the verdict and broadcasts the refusal.
- `types.rs:230` wants a job with a field the worker does not understand refused and not ignored;
  `coordinator_client.rs:744` drops it without task, answer or log line, and its channel keeps the lease
  active until it runs out or is cancelled. `LeaseAccountedFor` leaves such leases out (`Undecodable`).
- `privacy.rs:41` and the repository's `README.md:240` let a private job out only by its caller's
  permission; at the HTTP door saying nothing is one (`api_router.ex:675`; the comment at
  `api_router.ex:658` says so). `ExternalByConsent` is stated for each door as the door behaves.
- `README.md:244` and `open_api.ex:381` say that a public request may decline providers; neither
  `router.ex:95` nor `privacy.rs:75` looks at the refusal of a public job. `ExternalByConsent` says
  nothing of the caller of a public job.
- `self_update.rs:259` wants a download to match the checksum if one was published; while CI replaces
  the checksum the request for it gets a 404, which `self_update.rs:208` reads as a release that has
  none.
- `openai_compatible.rs:279` says that the job of a backend that never stops fails; the cap is looked at
  when the stream has ended (`openai_compatible.rs:262`), and the read timeout starts again with each
  chunk (`http.rs:19`).
- `jobs.ex:15` says every write of `status` writes `state`; the reclaim's UPDATE (`jobs.ex:396`) sets
  `status` alone and leaves a pair that `jobs/state.ex` does not list.
- `jobs.ex:7` names a limit on attempts; the requeue at `jobs.ex:1049` counts an attempt
  without comparing it to `@max_attempts`, also after a question too many and when two processes
  report on one row. The models bound it (`AttemptBound`).
- `privacy.rs:1` says worker and coordinator apply the same rules; `router.ex` (51, 94-106) never reads the
  levels the operator allows for providers, which a registration does not carry. `RoutableIsRunnable` is
  therefore stated for operators who refuse nothing.
- `tools.ex:447` offers `require_local` as a refusal to use a provider; `router.ex` (44-53) asks for a
  worker that has a local model, only when the job names none, and the worker, which chooses the
  model, is not told.
- Two updates at once share `.hydra-worker.partial` (`self_update.rs:200`), and one may rename what the
  other is writing. The theorems say `OneInstaller`.

## 6. Not modelled

- Of the job row: the progress sequence and timing columns (observational), the payload and the text of
  questions and answers, idempotent resubmission, Oban discarding a job after twenty attempts, the
  token budget as a number (a job is in `Budgeted` or not).
- Of the channel and the link: what else the snapshot in Presence holds (latency and failure signals,
  policy broadcasts that arrive out of order, two overlapping channels of one worker), chunks, progress
  frames, the bound of the client's outbound queue (1024 frames; senders wait), results without a
  lease id from workers that predate generations.
- Of dispatch: the router's score (any eligible worker may win, which is more behaviours), trust
  levels, the hourly ceiling the coordinator keeps, capabilities (only models of the job's capability
  are listed), parsing of payloads, a worker that restarts with other configuration or empty limits.
- Of the adapters: listing models, checking credentials, images, the wording of errors. Of the usage
  buffer: rollups on disk and their synchronisation.
- Of a run: panics of its tasks (a job that panics on a connection left behind would keep its heartbeat),
  the queue of outgoing frames (a writer ends at its next send on a closed socket), the counters and
  the last error of the status, the length of the backoff, a pure function the code tests. A job left
  behind by Stop on a local backend that hangs never ends: it has no read timeout (`http.rs:24`), ignores
  that its deltas cannot be sent (`coordinator_client.rs:855`), and nobody reads a cancel for it. A worker's
  `max_parallel_jobs` is per connection, so a connection left behind by Stop adds to it.
- The HTTP gateway beyond `Submit`, rate limiter, delegation quotas, retention, usage rows, device
  authorization: each is a few guarded statements on state of its own that no modelled component
  reads. Their hazards are listed in `PROJECT.json` with this reason.
- Identity keys, vault and sign-in: files rewritten whole by one process and cryptography. Read from the
  code: the vault is read, changed and written back without a lock, `fs::write` is not atomic, and
  refreshed provider tokens stay in memory (`adapters/gemini_oauth.rs:7`).
- A host that loses power in an update (`self_update.rs:336`, `:376`: neither file nor directory is
  synced).
- Formatting and translation: OpenAPI, MCP framing, secret redaction, HTML; logging, boot checks and
  the other commands of the front ends.
