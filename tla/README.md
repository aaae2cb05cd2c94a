# Mix-Saving-Bot in TLA+

A verification project for Mix-Saving-Bot, a Telegram bot (Python, asyncio,
aiogram, yt-dlp) that downloads a media link in the background and sends the
file back to the chat. The modules model what the code under `src/` does; TLC
checks them on small instances, and TLAPS proves the central results for every
value of the constants.

## The system

The repository holds two stacks that do not call each other.

**Stack A, the bot that `run_bot.py` starts.** One process, one event loop.

| Component | State | Operations |
| --- | --- | --- |
| Download router (`bot/routers/download.py`) | one coroutine per update | `enqueue_download_job`, the menu for implicit links |
| Job service and repository (`services/jobs/`) | a record per job: status, dedupe key, error code | `submit`, `get`, `mark_running/succeeded/failed/canceled` |
| Terminal waiter (`services/jobs/terminal_waiter.py`) | a future per awaited job, the last remembered verdicts | `subscribe`, `publish_terminal` |
| Memory queue (`services/queue/memory_queue.py`) | bounded `asyncio.Queue`, closed flag | `enqueue`, `subscribe`, `close` |
| Worker loop (`services/worker_runner.py`) | one consumer task | `handle`, `wrapped` |
| Downloader (`downloader/`) | executor threads | `download` |
| File cache (`services/cache/file_cache.py`) | blobs on disk | `get`, `put_from_path` |
| Notifier (`bot/notifier.py`) | none | `notify_job_update` |
| Pending choices, rate limit (`bot/`) | tokens with a time to live; hits per user | `create`, `pop`; the middleware call |
| Redis queue (`services/queue/redis_queue.py`), instead of the memory queue | a stream with a consumer group, outside the process | `enqueue`, `subscribe` |

A handler submits a job (or joins the active one with its dedupe key),
subscribes to its verdict, announces it, puts a message into the queue and
waits. The worker takes the message, looks into the cache or runs yt-dlp in a
thread, records the verdict, which resolves the future, and tells the chat. With
`MIX_QUEUE_BACKEND=redis` the messages go over a stream that outlives the process;
records, futures and callers do not.

**Stack B, the queue and pool of `services/`.** `python -m services` runs it as a
smoke test with a mock processor; the processor of `remote_backend.py` drives a
remote HTTP service.

| Component | State | Operations |
| --- | --- | --- |
| Job queue manager (`services/queue_manager.py`) | bounded `asyncio.Queue` with its count of unfinished work, table of jobs in flight, a future per waiting caller | `enqueue_and_wait`, `dequeue`, `acknowledge`, `nack`, `recover_stale_tasks`, `publish_result`, `abandon_wait_if_pending`, `close` |
| Worker pool (`services/worker.py`) | worker tasks, the recovery task | `Worker.run`, `_recover_loop`, `stop` |
| Dedupe cache (`services/dedupe_cache.py`) | completed keys, reservations, an index on disk | `try_reserve`, `commit`, `abort` |
| Task pipeline (`services/pipeline.py`) | one coroutine per call | `submit_download` |
| Remote backend (`services/remote_backend.py`) | HTTP session, temporary files | the processor's `_run`, `execute_remote_download` |

A caller reserves the key of a link, registers a future and enqueues a job; a
worker takes it, runs the processor, which commits or aborts the reservation,
publishes the result to the future and acknowledges the job, or puts it back for
another attempt. Jobs that stay in flight too long are recovered.

### What is hard

Concurrency here is cooperative: code between two points where a coroutine
really suspends is atomic. An `asyncio.Lock` that is free is taken without
yielding, and no body of a lock in stack A awaits, so those locks are never
contended. The points that remain are the Telegram calls, `wait_for` around the
executor thread, `sleep(1.0)`, `get` on an empty queue, `put` on a full one,
`wait_for` on the future, and the commands to Redis. At each of them other
handlers, the worker, a fault or the shutdown may step in. The hazards are listed
at their lines in `PROJECT.json`. With Redis the process may also end and start
again between any two steps, with the stream, the cache and the work directories
left as they were, and a command may be executed though its reply is lost. In
stack B the same holds of `dequeue`, the requests of the processor, the wait in
`enqueue_and_wait` and the sleep of the recovery loop; everything a worker does
with a result is one step. Hard there: a worker that ends in the middle, a
timeout beside a result, a queue that is full when a retry comes back, and above
all that `recover_stale_tasks` cannot tell a job whose worker has died from one
whose worker is slow.

### What makes it correct

- Jobs and waiter: one active job per key; whoever waits hears; a verdict is
  published once, for a settled job.
- Worker loop: one file per job at most, no file after a failure, every job
  settles, the work directory goes with its job.
- Redis queue: no message of an open job is acknowledged; what is settled, or
  belongs to an earlier process, stays as it is, whatever is delivered again.
- Queue manager and pool: a job is in one place, the count agrees, attempts end,
  no caller waits for a result that will not come.
- Dedupe: one download of a key at a time, no reservation without a job.
- Remote backend: it ends in bounded time, and leaves no temporary file.
- Menu and rate limit: a menu is used once, by its owner, in time; no window
  holds more events than allowed.

## Modules

| Module | Models | Correspondence |
| --- | --- | --- |
| `TerminalWaiter` | the waiter and its futures | `Subscribe`, `PublishTerminal`, `CancelFuture` are the two methods and `wait_for`'s cancellation |
| `JobService` | service over repository, EXTENDS the waiter | `SubmitNew`/`SubmitJoin` are the two ways through `submit`; one operator per `mark_` method, each with the publication it ends with |
| `MemoryQueue` | the queue | `Put`, `Take`, `CloseProducer`; `Busy` is the router's look at its length |
| `WorkerLoop` | consumer task, downloader threads, cache, notifier | one action from each suspension point to the next: `Handle...` from `get`, `Download...` from the end of a download attempt, `Notify...`/`Apology...` from the end of a Telegram call |
| `DownloadRouter` | `enqueue_download_job` | `Request...` up to the announcement, `Announce...` up to the wait, `Finish`, `Interrupted`, `Timeout` |
| `BotCore` | the process of `run_bot.py` with the memory queue | composes the above with faults and shutdown; states the properties |
| `JobLedger` | what the bot promises about jobs | abstract: no queue, worker or futures |
| `BotInvariant` | the inductive invariant `IInv` | |
| `BotStepProofs`, `BotCoreProofs` | the proofs | |
| `WorkDirs` | `temp_work_dir` and its `finally`; EXTENDS the worker loop | `WorkDir` is conjoined with every step of the consumer task; `ThreadRecreates` is what an abandoned thread may do |
| `RedisWorker` | `RedisQueueProducer`, `RedisQueueConsumer`, the worker loop behind them, and the end and restart of the process | `CallEnqueue` is XADD by how it ends, `ReadEntry` an XREADGROUP that arrives, `Acknowledge` and `ApologyLogged` the two ends of an entry; `ReplyLost`, `ReadFails`, `Restart`, `PeerReads` the faults |
| `DurableLedger` | what the service on the stream promises about jobs, through cancellations and restarts | abstract: no stream, worker or futures |
| `RedisProofs` | the proofs | |
| `JobQueueManager` | stack B's queue and waiters | one operator per method, or per way through it; `NackRequeue`, `NackGiveUp`, `NackOverflow` are the three ends of `nack` |
| `WorkerPool` | workers, recovery loop, stop; EXTENDS the manager | `Take`, then `Complete`, `Fail`, `FailOverflow`, `Miscount` or `Crash`; `Recover...` and `Stop...` by how they end |
| `DownloadCache` | the dedupe cache and its index | `Duplicate`, `TryReserve`, `Commit`, `Abort`, each with the index failing or not |
| `TaskPipeline` | `submit_download`, the processor, the whole of stack B; EXTENDS pool and cache | `Submit...`, `Interrupt`, `Return`; `Completes`, `Fails`, ... join a worker's step and the cache's |
| `DownloadLedger` | what stack B promises about downloads | abstract: no queue, workers, futures or index |
| `PipelineInvariant` | the inductive invariants: `PInv` of `SoundSpec`, `OnTimeInv` of `OnTimeSpec`, `StandInv` of `Spec` | |
| `PipelineBooksProofs`, `PipelineProofs`, `PipelineLedgerProofs` | the proofs | |
| `RemotePipeline` | `execute_remote_download` as the processor, with time; EXTENDS the pipeline | from one request or pause to the next: `BeginPost`, `BeginPolling`, `NotFinished`, `PollAgain`, `BeginFetch`, and one action per ending |
| `RemoteProofs` | the proofs | |
| `RateLimit` | the rate limit middleware | `Admit`, `Refuse` by what it is called with |
| `LinkMenu` | the menu of a bare link; EXTENDS the rate limit | `SendLink`, `ShowMenu`, `Redeem`, `Miss` |
| `MenuProofs` | the proofs about menus and the rate limit | |
| `MCBot`, `MCRedisWorker`, `MCPipeline`, `MCRemote`, `MCLinkMenu` | instances for TLC | |

One set, `Calls`, names the runs of `enqueue_download_job`, the jobs they
create and the future objects they create: a run makes at most one of each.
`holds` and `futures` record that several handlers may hold the same future
object. A dedupe key is a model value; `Allowed` are the keys whose URL
`validate_for_download` accepts, and `BlobOf` maps a key, which is scoped to a
chat, to the cache key, which is not. Job ids are random, so a new process never
uses a name of an old one: in `RedisWorker` a caller that has not begun survives
a restart as a caller of the new process, and the others are `gone`.

Abstractions: the wording of messages, file names, sizes and URLs; metrics and
logs; progress callbacks; `"file"` in `inbox` stands for whatever the notifier
sends for a success. The semaphore of the worker is left out because the
consumer handles one message at a time and never contends for it. In
`RedisWorker` the callers use the service in any order a caller could, instead of
the router's, so that what holds there holds of any front end. One thing is assumed of
them: a caller cancels a job that it has just seen active. `mark_canceled` itself
does not ask for the status, and nothing in the repository calls it. In `TaskPipeline`
the age of an entry is its membership in `stale`, which `RemotePipeline` replaces
by clocks; a job stands for the call that submits it; and a restart of the process
leaves the index alone, which `EarlierKeys` are.

`TaskPipeline` has three next-state relations. `Next` is all the code can do.
`OnTimeNext` leaves out a job that becomes stale while its processor still works on
it (then two workers hold it, and the second `acknowledge` meets a count of zero).
`SoundNext` also leaves out a recovery that overflows the queue (then jobs are in no
place and the count is too low) and what comes of it. The safety properties of
stack B hold of `SoundSpec`. Which of them needs which premise is proved too. In
`OnTimeSpec` one place per job, one download per key and a bound on failed attempts
still hold, so an overflowing recovery cannot break them. Room for the jobs that are
stale (`Roomy`), the second premise, does the rest: with it `OnTimeSpec` is
`SoundSpec`; and even when busy jobs are put back the queue's count is never too
high. What is left under all the code can do is `StandInv` and `AnswersAreFinal`,
proved of `Spec`.

`RemotePipeline` puts numbers to the first premise: a processor takes `LongestRun`
at most, a request for the submission, the deadline, one more request, and one more
request or pause that was begun before the deadline was looked at. Its steps are
those of `Next`, with the clocks deciding when a job is stale: recoveries overflow,
spoil the count and die of it as in the code, and `stop` may break. With
`stale_after` at least `LongestRun` every behaviour of `RemoteSpec` is one of
`OnTimeSpec` (theorem `RemoteIsOnTime`, and the run `remote` at the least such
value); with the proportions of the defaults, `stale_after` of 600 seconds against a
poll of up to 900 (`_DEFAULT_MAX_WAIT`), the run `double_download` shows two workers
on one key. The second premise is nothing the code provides: a queue that new
submissions fill is full when a recovery comes. Where a result needs it, it is stated
in the result: `RemoteIsSound` and `RemoteKeepsBooks` ask for `[]Roomy`, and so does
`CallersReturn`, without which a recovery that overflows can leave a caller waiting
for ever.

## Runs

| Run | Instance | Shows |
| --- | --- | --- |
| `bot` | 2 calls, 1 queue place, memory 1, Telegram faults, shutdown at any point | `IInv`; one active job per key; the hand-over to the queue; no lost wake-up; messages agree with record and disk; "running" only for the job in hand; abandoned threads; refinement of `JobLedger` |
| `bot_quiet` | 2 calls, no fault, no shutdown, fairness | jobs settle, calls return, verdicts are sent |
| `redis` | 2 callers, a URL that is accepted and one that is refused, memory 1, any fault, end and restart of the process at any point | nothing of an open job is acknowledged; open jobs are on their way; settled jobs and those of earlier processes stay; a chat gets a file once and never after a failure; work directories have owners; futures are settled once, by the step that settles the job; the memory of verdicts; refinement of `DurableLedger` |
| `pipeline_sound` | 2 downloads and 1 job with retries, 2 keys, 2 workers, 2 places, 2 attempts, `SoundSpec` | `PInv`; the count and the places of jobs; waiters are served; one download per key; reservations are released; failed attempts are bounded; answers are final; refinement of `DownloadLedger` |
| `remote` | 1 download and 1 job with retries, both with callers that wait without a timeout, 3 workers, 1 place, every duration 1, `stale_after` = `LongestRun` = 4, fairness | the processor's time is bounded; no temporary file is forgotten; one place per job, also when recoveries overflow; refinement of `OnTimeSpec`; waits end (with a worker left and room for the stale jobs) and jobs leave (with a worker left and a recovery loop that has not died), whether the service answers or not |
| `link_menu` | 2 users, 2 links, 2 events per window of 2 | the limit at its edges; a menu starts one download at most, for its owner, in time |
| `horizontal_scaling` | as `redis`, with another process in the group | counterexample: an entry is acknowledged by a process that does not know its job |
| `double_download` | 2 downloads of 1 key; request 1, deadline 3, `stale_after` 2: the defaults in units of 300 s | counterexample: a recovered job is downloaded by two workers at once |
| `rate_limited` | as `link_menu`, called as `app.py` registers it | counterexample: no event is ever limited |
| `queued_notice` | 2 calls, faults | counterexample: a notice of a queued download for a job that is not in the queue |
| `consumer_attached` | 2 calls, faults | counterexample: the consumer task ends while the bot polls |
| `waiters_hear` | 2 calls, no faults | counterexample: a handler's timeout cancels another handler's wait |

**Bounds.** Two calls share a job or race for a key, on the same key, on a
second key with the same blob (another chat), or on a refused one; a third call
adds the interleavings of one more handler, which the proofs cover for the
safety properties. A queue of one place and a high-water mark of one make it
full, and busy, after one message: handlers block in `put` and are turned away;
two calls that passed the mark together still meet the full queue. A memory of
one verdict makes the waiter forget. In `redis` the stream has no bound in the
code and needs none in the model: each caller adds two entries at most. Two
callers give a job of the old process beside one of the new, a verdict that
pushes out another, and two entries of one job around those of another. In
`pipeline_sound` two downloads may share a key, or meet the second key, which an
earlier process has left in the index; three jobs over two places overflow on
submission and on a retry; two attempts are one retry; with two workers one may
crash and the other take what is recovered. In `remote` every request ends at
once or at its timeout, a poll can be under way when the deadline passes, and a
job whose worker was cancelled outlives it and is recovered. Two jobs over one place
overflow when both are stale, or when one is and the other is queued; of three
workers two may be lost, at once or one after the other, and one remains. Ages are
not counted beyond `stale_after + 1`, since the code only compares them. `link_menu` has the
only artificial bound: `Horizon` stops time after two and a half windows, beyond
the time to live of a menu sent in the first one. Nothing else is bounded: a call
runs once, and retries are limited by the code.

**Deadlock** is not checked: the systems really stop, when every call has
returned and the workers wait on an empty queue, are stopped or are dead.
`redis` can always restart and `remote` let time pass, so that it would say
nothing there. What must not get stuck is stated as liveness.

**Fairness.** `QuietSpec` assumes that a call which can go on does (a Telegram
call ends, since aiogram bounds it by a timeout; a `wait_for` ends at its
deadline at the latest), and that the consumer task, when one of its steps can
be taken, takes one: an event loop runs what is ready, and a download attempt is
bounded by `DOWNLOAD_DEADLINE_SEC`. Nothing is assumed about users, or about an
abandoned thread. Weak fairness suffices because no step of one process disables
those of another for good: only a full queue does, and the worker empties it.
`FaultySpec` lets a fault take the place of an answer. `RemoteFairSpec` assumes
that time passes; that a request is over at the session's timeout and a pause at
its end, by whatever outcome, a cancelled processor included; that an idle worker
takes a job; that a done future wakes its caller; and that the recovery loop and
`stop` go on. Nothing is assumed of the remote service, of callers, of timeouts or
of the survival of workers: both liveness properties ask for one worker that is
left, over and over. `CallersReturn` also asks for room for the stale jobs:
without it a recovery drops jobs, or leaves the count too low, and a later one dies
of it with the job in its hands (`queue_manager.py:101`); TLC finds the caller that
waits for ever when the premise is left out. `JobsLeave` asks for a recovery loop that
has not died instead, and so covers recoveries that overflow: a dead one leaves the
jobs of ended workers in the table. No liveness is claimed with Redis: a lost reply or an XADD
that raises leaves a job open for good, and `OpenJobsMove` names these cases.

**Not caught.** No run states a property that the consequences of a busy job put
back would break, other than `double_download`: the count, the places and the
callers are checked of specifications that leave it out. Nor does one say that the
reservation of a job in `leaked` is released, because nothing releases it.

## Findings

The six counterexample runs contradict sentences of the repository; they are
quoted in `PROJECT.json`. In short: an announcement that fails orphans a queued
record, and later calls for the key join it; two notifier calls that fail in a
row end the consumer for good; `wait_for` on a shared future lets one handler's
timeout end the others; a slow job is recovered and downloaded twice; the rate
limit, registered on `dp.update`, never sees a user; and with several processes
on one Redis stream a job's entry is given to a process that cannot know it, and
is acknowledged.

## Proofs

**Stack A, memory queue.** For every set of calls and keys, every queue capacity,
high-water mark and memory of verdicts (assumptions: `None` is no call and no key,
`Allowed` is a set of keys, `BlobOf` maps keys to keys, capacity positive):

- `TypeCorrect`: `Spec => []TypeOK`
- `OneActiveJobPerKey`, `QueueHandOver`, `WaiterBridge`, `AnswersAreVerdicts`:
  `AtMostOneActivePerKey`, `QueuedOnce`, `NoLostWakeup`, and `HeardIsSettled`, a
  part of `IInv`
- `RunningJobsAreHeld`, `ThreadsAreAbandoned`, `VerdictsAreBacked`:
  `RunningIsHeld`, `AbandonedThread`, `VerdictBacked`
- `BotKeepsLedger`: `Spec => LedgerKept`, the refinement of `JobLedger`

None of these is inductive. `IInv` adds: a call that has not begun left no trace
under its name (so a new job, future and record cannot collide with old ones); a
call past `submit` has a job and a future, and its own job stays queued until it
has put it into the queue (so the worker cannot settle a job whose creator still
announces it); a future is registered for one job, an active one; remembered
jobs are settled (so `subscribe` cannot meet a memory of an active job); the job
in the worker's hands is running or settled (so it is no longer in the queue and
its creator has let it go); every record has a key; and nobody marks a job
canceled. `TypeOK` and the four safety properties of the second line complete it.
`Hands`, on top of it, needs one fact more: the file of a success that is being
sent is in the cache.

`BotStepProofs` has one lemma per kind of step (a call opens, joins, moves on,
gives up; the worker starts, settles; a message is put or taken) and what it
does to the part of the invariant about records, futures and calls.
`BotCoreProofs` shows for every action of `Next` that it is a step of such a
kind and keeps the rest, and maps every kind of step to a step of the ledger or
a stutter, with `IInv` as the only other premise.

**Stack A, Redis queue.** Under the same assumptions, for every number of callers
and through any number of restarts. `Spec` is a process that has the stream to
itself; in `GroupSpec` other processes of its group take entries out of the
stream, so what holds of the second holds of the first. Of
`GroupSpec`:

- `RedisTypes`: `TypeOK`
- `RedisKeepsLedger`: `DurablyKept`, the refinement of `DurableLedger`
- `SettledJobsStay`, `FuturesAreSettledOnce`, `SettlingWakes`: the action
  properties `SettledStays`, `FuturesSettleOnce`, `TerminalStepWakes`
- `RememberedWakesAll`, `MemoryStaysBounded`: `RememberedHasNoWaiter`,
  `MemoryBounded`
- `ChatsAreToldOnce`, `WorkDirsAreOwned`: `InboxShape`, `DirsOwned`

and of `Spec` alone:

- `NothingGivenUp`, `OpenJobsAreOnTheirWay`: `AckedIsSettled`, `OpenJobsMove`

The division is a result: these two are all that a second process on the stream
breaks (the run `horizontal_scaling` shows the first one broken); files, verdicts,
futures and directories stay sound with any number of them.

`RInv` says where the entry in hand and the job in hand stand to each other: an
entry of an open job is held with that job, and no longer than the job is open
in the worker's hands, so an entry that is let go is one of a settled job. The
action properties are what one step does from a state of `RInv`. Five more
invariants rest on it: `Memory` (remembered verdicts have no waiter and no
duplicates), `Mail` (nothing is sent before the verdict, one message at most
before an apology, which is for a job that has not succeeded), `Disk` (a thread
the worker does not wait for belongs to a job that was given up), and for the
types `Rest` (a job with a record has a key, so that its file has a place in the
cache). The refinement needs two facts more: `Shared` (whoever holds a future
holds one of a call with the same job, and a registered one is not done) and
`Speaks` (what the record of the job in hand says at each point of the worker).
They show which verdicts may overrule which: the ledger allows a cancellation to
be overruled by the download that was under way, and a success or a failure by a
failure, nothing else.

**Stack B.** For every set of jobs, keys and workers, every size of the queue and
every number of attempts (`None` is no job and no key, `NoJob` no job, sizes and
attempts positive, `Retry` and `EarlierKeys` of their kind):

- `PipelineInvariance`: `SoundSpec => []PInv`, and of its parts `BooksBalance`
  (`Balanced`), `JobsAreInOnePlace` (`OnePlace`), `WaitersAreServed`
  (`NoLostWaiter`), `DownloadsAreUnique` (`OneDownloadPerKey`),
  `ReservationsHaveJobs` (`ReservationsReleased`), `FailuresAreBounded`
  (`FailuresBounded`)
- `PipelineKeepsLedger`: `SoundSpec => DownloadsKept`, the refinement of
  `DownloadLedger`
- of processors in time, whatever recoveries do: `OnTimeInvariance`
  (`OnTimeSpec => []OnTimeInv`) and of its parts `OnTimeIsOnce` (`OnePlace`,
  `OneDownloadPerKey`, `FailuresBounded`)
- with room in the queue for the stale jobs: `RoomIsSound`
  (`OnTimeSpec /\ []Roomy => SoundSpec`) and, with jobs put back while a processor
  works on them, `CountIsCovered` (`Spec /\ []Roomy => []Covered`: `idle_join` never
  waits for a job that is nowhere, though it may return too early)
- of all the code can do: `StandsAlways` (`Spec => []StandInv`), of its parts
  `WaitersAlwaysStand` (`WaitersStand`) and `CompletedKeysStayClosed`
  (`CacheStands`, `CompletedKeys`), and `AnswersAreFinal` (`AnswerIsFinal`)
- for every duration with `LongestRun <= StaleAfter`: `RemoteIsOnTime`
  (`RemoteSpec => OnTimeSpec`), `RunsAreBounded` (`RunBounded`) and `TempFilesOwned`
  (`TempsOwned`), and with room for the stale jobs as well `RemoteIsSound`
  (`RemoteSpec /\ []Roomy => SoundSpec`) and `RemoteKeepsBooks` (so the books are right
  and the ledger is kept with the remote processor)

`FailuresBounded` counts what `nack` counts, failed results. A worker that ends with
its job in the table leaves the counter alone, so a job that is recovered may be
begun more often than `max_attempts` says.

`PInv` has two parts. `OnTimeInv` is what holds as long as no busy job becomes
stale; `Accounts` (`Balanced`, `NoLostWaiter`, `ReservationsReleased`) says that every
job which was accepted and has not ended is accounted for, which a recovery that
overflows breaks. Every step keeps the first without the second, and the second where
both held. `PInv` adds to the checked properties: a job whose call has not begun is nowhere
(so a reservation or a place cannot collide with it); nobody works on a stale
job (so a recovery takes nothing out of a worker's hands); jobs with a key are
not put back after a failure (so an aborted reservation has no job behind it);
and a completed job has completed its key (so that no second one succeeds).
`PipelineBooksProofs` proves what the kinds of step do to queue, table and
count: a job is put, taken, dropped, put back, recovered in any order, or left;
`Load`, the jobs queued or in flight, is all the rest depends on.
`PipelineProofs` takes the actions one by one. `PipelineLedgerProofs` maps them to
the ledger, for which it adds to `PInv` that an answered call's job was tried.
`AnswersAreFinal` needs only that a call which has not begun has no future: no
step other than its own registration makes a future pending.

`StandInv` is what is left when a busy job was put back, a recovery has overflowed
or a count has gone wrong. `Balanced`, `OnePlace`, `OneDownloadPerKey` and the part
of `NoLostWaiter` that gives the job a place are gone; but the queue keeps its size
and the table its types, a job nobody has submitted is nowhere, a pending future is
still registered for a call that waits, whoever is answered is answered after a
result, the key of a completed job is completed, a completed key is not reserved,
and an index that works has it. The argument needs no more of the queue than that
each step brings into it, or into a hand, only jobs that were there or that are
just submitted.

`RemoteProofs` has
`OnTimeInv` and the clocks as its invariant: a processor that has reached a phase has
been at work for no longer than the phases before it may take, so that an overdue
job is in nobody's hands. It needs no count and no room, so recoveries may overflow.
However short `stale_after` is, `RemoteSpec` implements `Spec` by its form (the lemma
`RemoteIsPipeline`), and `StandInv` holds of it.

**Menu and rate limit.** For any users, menus, limits and times:

- `UpdatesAreNeverLimited`: if the middleware is called with updates alone
  (`EventsHaveNoUsers`), as `app.py` registers it, nobody is ever refused and nothing
  is counted, whatever the limit: `rate_limited` is no accident of its bounds.
- `MenusAreUsedOnce`: `Spec => []MenuUsedOnce`; a stored choice has not been
  redeemed, and a token is stored once.
- `WindowsAreKept` and `RefusalsHaveReason`: `WindowKept` and `RefusedWithReason`,
  if the middleware is called with events that have a user (`EventsHaveUsers`;
  the run `rate_limited` shows what happens without). `WindowKept` speaks of
  windows laid anywhere, the code only of the one that ends now. `RateInv` closes
  the gap: the deque is the end of what was handled, what is no longer in it has
  left the window, and of any two handled events that are as far apart as the
  limit the later one came more than a window after the earlier.

Only model-checked: the liveness properties `EveryJobSettles`, `EveryCallReturns`,
`VerdictDelivered`, `CallersReturn` and `JobsLeave`. They rest on fairness, and
TLAPS has no `ENABLED`. Every safety
invariant, action property and refinement of safety that a passing run checks is
stated by a theorem. No run checks
`StandInv`, `OnTimeInv` (but its part `OnePlace`, in `remote`) or `Covered`: they
speak of wider specifications than `pipeline_sound` checks; TLC confirmed
the last two on instances of three jobs and two workers before they were proved.

## Not modelled

`PROJECT.json` lists every component. Left out of stack A: the cancellation of
the handlers that are still suspended when `asyncio.run` ends, and the closing of
the consumer and of the HTTP session (the process is over); the engines
(`downloader/_sync_engine.py`, `services/downloader.py`), which run yt-dlp inside
one thread and share nothing with the rest, of which the model keeps the outcomes
a download can have; `delete` and `touch_ttl` of the cache, which nobody calls;
settings, logging, metrics, keyboards, formatters. Left out of stack B:
`is_duplicate` and `reset_memory`, which nothing but tests calls; `idle_join`,
which has no caller and only reads the count that `Balanced` and `Covered` are about; and what
the remote service does with a job whose caller gave up, which no code here
decides.

## Plan

What is written is complete in the order in which it was planned: core, worker
loop, pipeline, Redis, remote backend, ledgers, proofs. Left, should the code call
for it:

1. *Both queues as one*: an abstract at-least-once queue that `MemoryQueue` and the
   Redis stream implement, for worker loops that are proved about it alone.
2. *Pure algorithms*: classification of download errors, host checks, key scoping,
   against reference definitions.
3. *Liveness with Redis*, once the consumer reclaims pending entries.
