# Telegram downloader bot: a TLA+ verification project

The bot takes a link from a Telegram user, asks what to download, queues it,
downloads it with one of two engines, sends the file back, and counts the
download against the user's day. It is one Python process on one event loop
(several may share a database), with Redis (queue, claims, FSM records, instance
lease, counters) and Postgres (users, quota, cache, payments, texts) outside it.
This directory models the parts of it where the interleaving of awaits, the
loss of a process or the failure of a command decides what happens: whether the
user gets one file, once, for one slot, whether a payment is decided once,
whether an announcement reaches everybody once, and what a dozen smaller
services promise.

Contents: [inventory](#inventory), [modules](#modules-and-how-they-correspond-to-the-code),
[runs](#runs), [proofs](#proofs), [findings](#findings),
[abstractions](#abstractions-and-what-is-not-modelled), [plan](#plan).

## Inventory

### What is modelled

| Part | State | Operations | Talks to |
|---|---|---|---|
| `services/queue.py` Redis queue | claims (one key per job, with a TTL), the list, the processing shelf; in the process: `_inflight` | `enqueue`, `dequeue`, `release`, `requeue`, `requeue_orphans` | handlers enqueue, workers do the rest, `main.py` drains the shelf at boot |
| `services/worker.py` worker loops | the job at hand, `quota_held`, attempt number, status card | `run_worker`, `_process_with_retry`, `process_download_task`, `_finish_upload`, `_settle`, `_requeue_for_shutdown` | queue, quota, cache, both engines, Telegram |
| `core/database.py` daily quota | two columns of `users` | `can_claim_download`, `refund_download_claim` | called by the worker only |
| `services/cache.py` smart cache | rows `url, format, tier -> file_id`, with what they say of the file | lookup, `memorize`, `forget` | the gateway (`_submit`), the menu and the worker |
| `services/extractor.py` probe | a race of metadata requests, each with clients and a jar | client lists, failover walk, menu, selector | the question session |
| `services/extractor.py` runs, `verify.py`, `quality.py`, the disk sweep | directories, threads that outlive their job | `download`, retries, conversion, checks, labels, `sweep` | one job of the worker |
| `services/cobalt.py`, `fallback.py` | per node: dialect, quarantine; the node that answered last | `resolve`, `fetch`, hand-over from the primary engine | all workers share it |
| `services/delivery.py`, `core/telegram_api.py`, sends of the worker | flood budget per attempt, the latch of the cloud fallback | `flood_aware_call`, albums, streamed and document fallbacks, re-aiming | Telegram and a local Bot API server |
| `services/download_mode.py` sections | `_ACTIVE`, `_SEEN` in the process, `download_mode` in the FSM record | `begin_session`, `job_started`, `job_settled`, `is_compatible` | handlers read and start, the worker settles |
| `handlers/user.py` | the FSM record (state and data), retry keys, deletions in flight | link intake, menus, probes, taps, retry cards, `/cancel`, `_submit` | sections, queue, cache, probe |
| `services/subscription.py` join wall | remembered passes | `check`, `recheck`, `cached_pass` | link intake, verify button, inline answers |
| `services/song_id.py`, `handlers/inline.py` | mappings, counters, negative marks, search slots, all in Redis | song buttons, inline tokens | users, a recognizer, admins |
| `services/cookie_refresh.py`, `cookie_watch.py`, `scripts/fix_login.py`, the extractor's copies | the jar, candidates, copies, what was announced | import, export, writable copies, watch | the extractor reads it |
| `services/oauth.py`, `/oauth` | one flow at a time, its child process | register, run, wait for the code, drop | admins |
| `services/backup.py`, restore handlers | pending files behind nonces | accept, cancel, confirm, emergency file, transaction | the owner; texts are reloaded after it |
| `services/broadcast.py`, announcement handlers | draft, send lock, cursor, report | draft, confirm, walk | admins, every user |
| `core/texts.py` | a snapshot per process, a version counter in Redis | `sync`, edits, resets, restores | every handler reads it |
| `services/helper_watch.py`, `proxy_health.py`, notices of `telemetry.py` and `main.py` | rows and stamps in Postgres, throttle stamps in the process | sweep, page, digest, early alert, notices | helper servers, admins |
| `services/doctor.py`, boot latches of `main.py` | what the extractor was built with, the last answer of the fallback | probes, rows, verdict, recall | admins |
| `services/instance_guard.py` | one Redis lease, a state per process | `start`, `refresh_once`, `stop` | nothing depends on it: it warns |
| `handlers/payment.py` and the wallet | `transactions` rows, `users.wallet_balance`, the pending purchase or top-up in the FSM record, buttons in the admins' chats | plan choice, top-up card, receipts, approve and reject, pay with wallet | buyers and admins, through Postgres and the FSM; grants premium to the quota's entitlement |
| `main.py` life cycle | stop event, tasks, clients, lease | start-up order, polling or webhook, `shutdown` | all of the above |

What is hard there, and what has to hold:

* **Queue.** Every operation is two Redis commands with an await in between, so
  a death, a failing command, one that landed and whose reply is lost, or another handler fits in the middle. A request is
  one payload in one place; it holds its claim while it is alive and never comes
  back once it was settled; a repeat is refused meanwhile.
* **Worker and quota.** An attempt may raise at any await, is repeated up to
  three times, may be handed back at shutdown and may be cancelled. The slot has
  to come back exactly when nothing was delivered; concurrent workers must not
  oversell a day; the file has to arrive once; the user has to be told; the job
  has to settle and its claim to come back.
* **Engines and delivery.** Workers share the memory of the instance pool, and a
  send may be refused, limited or lost, while the server it is aimed at comes and
  goes. One job asks one instance one thing once; within an attempt no message
  goes out twice, and what counts as delivered is there whole.
* **Files.** A thread that timed out goes on writing, and a sweep judges
  directories by age. The sweep must not take one from under a job, and what the
  caption and the cache row say of a file is what was measured.
* **Sections and questions.** The section lives in Redis, the count of its jobs in
  the process, one FSM record holds the question for the newest link, and every
  handler reads one, awaits, and writes the other. The count must be the jobs that are
  there, no link may enter another section's session, and a tap starts only
  what some menu offered for that link.
* **Join wall, songs.** Answers of other services are remembered and asked with
  awaits in between, by updates that overlap.
* **Jar and login flow.** Several processes write one file; a login must not be
  replaced by less.
* **Restore, broadcast, texts.** Confirmations race; accounts sign up during a walk;
  processes answer from snapshots.
* **Helpers, doctor.** Stamps survive the process and throttles do not; the verdict
  joins observations of different moments.
* **Guard.** Reads and writes of the lease are separate commands and time passes
  between them. The alarm must fire, end, and not steal a live lease.
* **Payments.** The buyer's photos are handled concurrently over one FSM record, several
  admins hold a button for one payment, and a death fits between any two statements. A transaction gets
  one verdict and at most one grant, nobody is thanked for a receipt nobody can decide, and the wallet
  pays for what is granted from it.
* **Life cycle.** A start may fail anywhere, a signal may come anywhere, and waits
  time out: nothing may use what shutdown has closed.

### What is not modelled

| Part | State and operations | Why |
|---|---|---|
| `MemoryTaskQueue` | an asyncio queue and a claim table | no call of it suspends between its check and its change; its one difference (a hand-back goes to the tail) is listed as a hazard |
| `services/host_guard.py`, `providers.py`, URL canonicalisation in `content.py`, the match of `spotify.py` | none | pure functions over URLs and answers, best checked by their unit tests |
| screens of `handlers/admin.py`, `services/panel.py`, profile and language screens | none of their own | single statements behind buttons |
| `core/` catalogue and settings, captions, the progress editor, telemetry counters | none | wording and parsing |
| `services/cobalt_cookies.py`, premium expiry, pruning of rows, `deploy/`, most of `scripts/` | none in the bot | single statements and operator tools |

## Modules, and how they correspond to the code

```
SingleFlight          what the queue contract promises
   ^ implemented by (SingleFlightSpec, theorem Refines)
RedisTaskQueue        services/queue.py
   ^ extended by                         Quota   core/database.py
Worker                services/worker.py, main.py   (extends both)

inside one job        Engines   Probe   Delivery   JobFiles
around the user       DownloadMode   Menu   Membership   Songs   Payments
around the admins     Broadcast   Restore   TextSync   OAuth   HelperWatch   Doctor
around the process    Lifecycle   InstanceGuard   Cookies

RedisTaskQueueProofs, WorkerProofs, PaymentsProofs
                      theorems of the module of that name; WorkerProofs also of TextSync and MCLive
LifecycleProofs       theorems of MCServices: Lifecycle, HelperWatch, and the twelve together
DeskProofs            theorems of MCDesk: Broadcast, DownloadMode, InstanceGuard
AdminProofs           theorems of Restore, Cookies, Doctor
UsersProofs           theorems of Membership, Songs, Menu
FilesProofs           theorems of JobFiles, Engines, Probe, Delivery
MCQueue, MCWorker, MCPay, MCMenu      instances of one module for TLC
MCLive, MCFaults, MCDesk, MCServices  instances of several
```

`Worker` composes the queue and the quota, because they share state. The other modules meet it
in outcomes: `Engines`, `Probe`, `Delivery` and `JobFiles` refine what is one step of `Worker`
(a download that serves, fails or is refused; a send that lands or raises), and `Menu` ends where
`Submit` of `Worker` begins.

**`RedisTaskQueue`**: one action per Redis command. `claims`, `queue` and `shelf` are
what Redis keeps through a crash; `inflight`, `gate` (an `enqueue` between its SET NX
and its LPUSH), `unheard` (payloads whose LPUSH landed while the `enqueue` still waits for the reply), `at`/`has` (a consumer
inside a queue call) and `moving` (`requeue_orphans` between RPOP and RPUSH) die with the process. A job's place
runs `idle -> popped -> holding`, then `lremmed -> freed -> idle` for `release` or
`taken -> idle` for `requeue`. The constant `Faults` switches on the death of the
process, failing commands, cancellation and claim expiry. Payloads carry a stamp (the
enqueue time in the code), so `LREM` by bytes is removal of that element. An LPUSH that raises has landed or not
(`EnqueuePushUnheard` then `PushRaises`, or `EnqueuePushFails`); either way `enqueue` calls `release`, which takes the claim
of a payload that may be in the list. `doubted` remembers, as a history, the keys this happened to, and `Trusted` are the payloads of the others.

**`SingleFlight`**: pending requests, accepted only if their key has none. `open` of the
queue (pushed and not yet settled), of the trusted keys, is the refinement mapping: a key leaves the contract with its first push that
landed and raised.

**`Quota`**: the two UPDATE statements, guards included, and midnight.

**`Worker`**: extends both, and every queue step of it is the queue action of the same
name. `stage` follows one job: `attempt` (top of the loop, reads the stop event),
`lookup` (worker-side cache check), `missed`, `granted` (slot claimed), `sent` (slot
spent), `retrying` (backoff), `failed` (attempts used up), `settle`, `handback`. `held`
is `task.quota_held`. `copies`, `answered`, `paid` and `claimDay` are histories that
no guard reads. The gateway is `Submit`; by the time it claims, its own cache and quota
look-ups may be stale, so they guard nothing.

**`DownloadMode`**: one user. A handler is a thread whose `pc` is the await it stands at;
`snap` is what it last read of the FSM data. One FSM read or write is one step.
`_clear_format_state` and `/cancel` are the read, the clear and the write-back they are. The section of a link is that of
the URL as it was sent; a link of `Shares` may resolve to one of another section, and from there on the job is of that one. `blind` are
the sections with live jobs the registry was never told of, `hasty` those in which a job settled before its handler had counted it.

**`InstanceGuard`**: one process per `pc`; each Redis command is a step that takes no
time, and the clock ticks only when no process is inside a command and none is due.

**`Payments`**: one buyer. `pc` is the await a handler stands at and `my` its locals; an UPDATE is one
step, `decide_transaction` two (`LockRow`, then `Commit` or `Rollback`), and a row that is locked makes
others wait. The tap of an admin and the first statement of its handler are one step, since nothing is
read in between. `cards` are the messages with live buttons; a failed edit leaves one. `granted`,
`bought`, `credits`, `thanked` and `shown` are histories. A plan bought by receipt is counted in
`granted`, from the wallet in `bought`.

**`Engines`**: a job is a thread of the worker; every HTTP request to an instance is a step, and
`node`, `activeNode` are the pool's memory that all of them read and write. A wrong path is recognised as one only by the statuses the code
looks at; any other answer to it (401, 403, 429, 5xx) is remembered as the dialect of the instance, and a page that is no JSON ends the walk. Of its order a job keeps what is
`left` of the pool, the instance it is `on` and the dialects it will still try there: which instance comes next follows from the
pool's memory at the start of the walk (`AttemptOrder`, `PoolPlace`). `fresh` and `asked` remember
what a walk began with and whom it asked. `GiveUp` returns to the retry wrapper, which may start the
whole job again.

**`Probe`**: three `leg`s (the two racers and the solo attempts), each a walk over the numbers of the requests it
may still send (`FailoverSteps`); a request is the clients it names and whether the jar goes along, and `Sent` is what is left
of it after `effective_youtube_clients`. A blank list names nobody, and yt-dlp takes its own choice (`DefaultClients`), which depends on the jar. In which order a request names its clients is left out: yt-dlp asks them all. The menu is computed from what the answers listed, with the
label, rank and selector rules as operators, so that an offered rung can be tapped in the model.

**`Delivery`**: one Telegram call is one step, and its outcome a choice: it lands, floods, is refused, or
breaks off with or without the message arriving. A message may arrive without a file id (`named`), which ends the post there as delivered. `latched` is the setting that aims a session, `driven` says
whether the session built at boot follows it.

**`JobFiles`**: `threads` are the runs of yt-dlp, each with a directory; one that timed out is
`dropped` and goes on. `Check` is verification with its ladder of conversions, `Uploaded` the delivery with
the row that remembers it, `Sweep` the disk sweep. A product is what the engine left, measured and claimed.

**`Menu`**: one user. `frames` are the handlers at their awaits with their locals, `waiting` and `data` the FSM
record, `drawn` what some question offered, `air` the jobs queued. A link is turned away, answered
without a question, asked from cached rows, or probed; a tap reads the record, clears it, and submits.

**`Membership`**: the updates of one user (link, verify tap, inline answer) each ask every target
separately; an answer arrives in one step and is stored in another, and time may pass in between.

**`Songs`**: every Redis command of a song lookup and of an inline answer is a step, in the order of the
code; `expires` are the keys with their TTL, `promised` what a shown button counts on.

**`Cookies`**: a file operation, or code between two awaits of the bot, is a step. `jar.stamp` is the
mtime; importers look, export a candidate, judge it and move it; concurrent runs of yt-dlp take a stamp, copy, move and note it.
`copied.moved` and `copied.noted` are histories: the runs whose bytes and whose stamp are in force.

**`OAuth`**: the registration of a flow, its child and the handler that waits; a flow bears the name of
its handler.

**`Restore`**: two reads and a send build the emergency file (`ReadTexts`, `ReadState`, `SendFile`),
one transaction applies the upload; other updates edit settings and generated rows at any point.

**`Broadcast`**: the Send handlers are threads; reading the draft, clearing it, and taking the lock are three steps, the check of the lock and taking
it one, since nothing is awaited between them; a page is one query, a delivery one step with one of its outcomes.

**`TextSync`**: an edit or a restore writes the table, the snapshot of its process and the counter in steps of their own; a
`sync` compares the counter, reads the table and takes it over. `editing` are the edits and `syncing` the reloads under way, any number in one process.

**`HelperWatch`**: a sweep looks at one helper at a time, writes its row and its stamps, and sends its
pages at the end; the notices read a window, send, and stamp, each of several senders (workers and loops) for itself. Any statement may fail, the
stamp after a message included. A helper has at most one row of a
moment, so the rows are a set; a downtime is the set of its ticks.

**`Doctor`**: boot asks every helper with patience and latches what the extractor is built with;
a report asks them again, tests a link, asks the fallback, and decides.

**`Lifecycle`**: `phase` is the place in the start and in the shutdown; tasks and deletions run beside it and
use the clients that are open. `ServingEnds` closes the bot's session, as `start_polling` and the cleanup of the web runner do before `shutdown`
is called; it cuts deletions under way, and the next request opens the session again (`Calls`).

Lines of each definition are in `PROJECT.json` under `map`. Definitions named in
its `mutants` are changed one at a time (the operators commented *Mutant*) to check that
every property of every passing run notices a plausible bug.

## Runs

`tlc -workers 2 -config X.cfg M`, for each row.

| Run | Module | What it shows | Size |
|---|---|---|---|
| `MCLive` | `MCLive` | the pipeline with retries, races for one slot and a graceful restart: `SlotsExact`, `OneDelivery`, `SettledAnswered`, `NothingLost`, and every job settles (`EveryJobSettles`) and every claim comes back (`ClaimsComeBack`). Beside it the texts of two processes: one edits, with edits that overlap, the other reloads, several times at once: a peer whose version is the counter's shows the table (`TextsAgree`), and comes to show it for good (`TextsConverge`) | 254 k states |
| `MCFaults` | `MCFaults` | the pipeline under every fault but an early expiry, with two-part deliveries and a midnight (`NeverOversold`, `SlotsCovered`, `SlotHasJob`); the payments with deaths, failing statements and sends (`GrantsMatch`, `DecidedIsFinal`, `ThankedIsDecidable`, `WalletPays`) | 1.3 M states |
| `MCDesk` | `MCDesk` | the queue under deaths, failing commands and lost replies (`ClaimCovers`, `OneCopy`, `NoZombie`, `RedisKeepsIt`, single flight), the registry of the sections (`CountCovers`, `NoPhantom`), the lease of three processes (`OneHolder`, `NeverStolen`), announcements (`BroadcastExact`) | 808 k states |
| `MCServices` | `MCServices` | `EnginesOnce`, `ProbeSound`, `DeliveredWhole`, `RestoreSafe`, `JarKept`, `GateHolds`, `PagesHonest`, `MenuHonest`, `OrderlyExit`, `SongsKept`, `DoctorHonest`, `FilesHonest` | 599 k states |
| `MCQueueLost`, `MCMidnight`, `MCRetire`, `MCPayPhoto`, `MCMenu`, `MCCeiling`, `MCOAuth`, `MCSections` | | violations, see [findings](#findings) | |

The four passing runs hold several components side by side. These share no state, so
a behaviour picks one of them at the start (`live`, `side`, `part`, `service`) and the others stand still: the state space is
the sum of theirs, not the product, and each is checked as it would be in a run of its own.

What the properties of the services say:

* `EnginesOnce`: a job asks an instance one thing at most once, once both engines have had a link it is never run again, and no node that was fresh when
  the walk began is passed over, although the memory the workers share may be wrong.
* `ProbeSound`: no request that names clients pairs a login with one it poisons, no walk sends one request twice, and
  every rung on the menu is what some answer's own format chain delivers when it is tapped.
* `DeliveredWhole`: no message twice within one attempt (albums of one group), and a delivered post is in the chat
  whole unless Telegram kept back a file id.
* `RestoreSafe`: a file is applied at most once and never after it was void; the emergency file undoes the commit
  unless somebody edited meanwhile.
* `JarKept`: no import takes away the login it looked at, no export is announced twice, a copy whose bytes and stamp
  come of one run is no older than the jar it passes for.
* `GateHolds`: who is let through was in every target within the time of a pass, or its check failed; nobody is
  turned away for a target he was in all along.
* `PagesHonest`: no page within the cooldown, nor about a helper the history calls fine but for a look that failed half-way; no notice twice by one sender
  in a window unless its stamp was lost, no window of a digest or an early alert spent on a message that did not arrive, no downtime reported that the history does not hold.
* `MenuHonest`: what is queued was drawn for that link; a retry button starts one run, and two never look up one link at once.
* `OrderlyExit`: shutdown closes nothing a task still uses, the lease is given back unless its delete failed, and the
  deletions shutdown found in flight are over before it takes anything down.
* `SongsKept`: a button leads to a mapping that lives as long as it may, a counter that refuses runs out,
  a song is muted only when a search or a tap found nothing, pages keep their distance.
* `DoctorHonest`: the operator is sent after another address only when the login was there and everything configured was in use;
  a remembered answer is about the machine configured now.
* `FilesHonest`: the sweep takes no directory from under a job, directories left over are accounted for by runs let go and deaths, labels and
  rows say what was measured, and the panel knows what became of a link the fallback should have saved.

**Bounds.** Two keys and three requests (`MaxStamp = 3`) let one key be accepted, settled and accepted
again while another moves, two consumers let two jobs meet. The worker
runs have two links of one user, whose limit is one slot a day: both jobs compete for it. Two
attempts stand for `MAX_ATTEMPTS = 3` in `MCLive`: one retry and one final failure; under faults (`MCFaults`) one attempt is enough, since a job
can be handed back, die and start again as well. `MCFaults` leaves out one fault, a claim that expires under its job: a lost reply deletes one there as well, and the theorems about slots cover both. `Parts = 2` is an album. `MaxStops`, `MaxDay`, `MaxJobs`, `MaxRestarts`, `MaxBlips`, `Calm` and `Drain` bound
counters in the guards. The lease counts ten seconds a tick: TTL 60 s, stale 30 s, refresh 20 s,
grace and drain rounded up to one tick, which keeps the order of the constants in the code. `ShortQueue` cuts the
list at two where claims that were taken from under a payload let copies multiply (`MCFaults`, `MCDesk`): without it
they would not be finite. `SlotView` leaves histories that the slot properties do not mention
out of a state's identity, and `PayView` the photos that were shown. The payments have two overlapping updates,
two admins and two photos (one overwritten by the other) around one transaction and one top-up: what two
transactions share is the unique index (`MCPayPhoto` has two) and the wallet, whose debits have no
transaction. A top-up of 3 pays one plan of 2 and not a second. `MaxCredits`
is one approval in the run; the theorems are for any number. The sections have one handler beside the workers and a restart, for two jobs;
`CountCovers` and `NoPhantom` are proved for any number of handlers, and `MCSections` has two.

Announcements: three accounts of which one signs up late, pages of one, two taps and two runs: a page
boundary falls between any two accounts. Texts: two processes of which one edits, two edits that may overlap, two reloads of the other at a time, every command may
fail. The editing process has no reloads in the run (`MaxSyncs`): no property speaks of it, and it shares nothing but the table and the counter. `MCServices`: two workers on a pool of two nodes with different dialects and one retry (`Engines`); five client lists,
one of each kind, and four views with a portrait, an unknown width, two rows of one label (`Probe`); every shape of post
that takes another branch, floods within and beyond one wait, the server going or coming once (`Delivery`); two confirmations and two
files (`Restore`); two importers of the bot and the wizard, and apart from them two yt-dlp runs that copy at once, with two writes
(`Cookies`, the services `imports` and `copies`: an import reads no copy and a copy only the jar, which anybody may write in both); one target, two overlapping updates and two moves (`Membership`: targets are asked independently);
four ticks with one helper, which cover failing, paging, cooldown and pruning, and two senders of a notice that needs an arrival and of one that does not, any stamp and any statement failing (`HelperWatch`); a video, a track and a single post, two handlers, three updates
(`Menu`); two tasks and two deletions (`Lifecycle`); one clip and one link, every counter and slot at one (`Songs`);
three deployments and four states of the world, one change (`Doctor`); two jobs after each other, two directories
at once, one retry, three ticks against budgets of one (`JobFiles`: an abandoned run, its successor and the sweep meet). A third directory
multiplies the states and adds no meeting of new kinds.

Symmetry is used in safety runs only: keys and consumers, the processes of the guard, and in `MCServices` the two handlers of the
restore and of the menu, which no value tells apart.

**Deadlock** is checked in `MCLive` and the violations of the queue, worker and payments.
`MCFaults`, `MCDesk` and `MCServices` say `CHECK_DEADLOCK FALSE`: their parts include processes that have ended for good, updates all
of which were handled, and bounds on both.

**Fairness.** `MCLive` assumes, for the pipeline: weak fairness of each consumer's next step (the
event loop runs every ready task, and every await in a job has a timeout), of a started enqueue's
push, and of the process coming back (`restart: unless-stopped` in `docker-compose.yml`). No fairness is assumed
for new requests, for the shutdown request or for any fault; there are no faults in it beside the failure
of the work itself: a process that dies at the wrong moment does lose a job (`MCQueueLost`),
and then nothing brings the claim back but its TTL. For the texts: weak fairness of a process's `sync` that found
a moved counter, of the reload it starts, and of the rest of a begun edit; every update that is handled calls `sync` first, so this
says that each process goes on handling updates. Reloads fail a bounded number of times. No edit has to happen.

**What holds only under the conditions of its run.**

* `SlotsExact` and `OneDelivery` without faults,
  `SlotsCovered` with all of them (a lost refund costs the user a slot; it never gives
  one away), until a first midnight.
* `ClaimCovers`, `OneCopy`, `NoZombie` and the single flight speak of the keys none of whose pushes landed and yet raised. After a reply that
  was lost, `enqueue` frees the claim of a payload that is in the list (`services/queue.py:258`), a second request of the key gets in, and what the docstring at line 178 promises,
  no two downloads of one request, does not hold of it. `RedisKeepsIt` and the slots hold of every key.
* `CountCovers` leaves out the sections
  whose live jobs the registry was never told of (`blind`: jobs of an earlier process, and a push
  whose depth read raised), which `download_mode.py` accepts. `NoPhantom` leaves out those in which a worker settled a job before its handler came back from the queue
  and counted it (`hasty`): the clamp at zero then swallows the settling, the count stays one too high, and a section with it stays locked until a restart.
* `NeverStolen` speaks of behaviours
  in which no command failed, and leaves out the very tick in which a lease was written: a plain SET
  decided a moment earlier may overwrite a lease just claimed, which TLC finds.
* `TextsAgree` and `TextsConverge` speak of the peers of those who edit (`Readers`), whatever the editors do. An editing process itself may show an old
  text for good: a reload of it that read the table before the edit and is taken over while the INCR is under way puts the old text back, and the version of the INCR
  then hides it (`core/texts.py:496`, against the docstrings at lines 27-28 and 381-382). So does another editor's INCR. Both leave out an edit whose INCR is to come, and one whose INCR failed (`lost`).
* `JarKept` says of copies only that those whose bytes and stamp come of one run are no older: of two that cross, the older bytes may stay
  under the newer stamp until the next export.
* `EnginesOnce` does not say that a remembered dialect is one the instance speaks: a refusal (401, 403, 429, 5xx) of a wrong path is remembered as its dialect (`services/cobalt.py:787`).
* `ProbeSound` speaks of requests that name their clients. A blank list leaves the choice to yt-dlp, which with a jar that signs in names `tv_downgraded`.
* `PagesHonest` allows one notice for each sender and each lost stamp in a window, where the docstrings (`main.py:228`, `services/telemetry.py`) say one; and
  a page about a helper the rows call fine only where a failure came between the row and the clock of its outage: the clock of the old outage then goes on.
* `DeliveredWhole` says nothing of an album over ten pictures or of a mixed post whose later send fails: the code sends the
  earlier ones again. A message without a file id ends its post as delivered, the rest unsent (`services/worker.py:1272`), which its second part excepts;
  the docstring there says the file is in the chat, which of a post of several messages is true of the first ones only.
* `RestoreSafe` excepts configurations edited between the emergency file and the commit.
* `FilesHonest` assumes (`JobFilesAssumption`) that a pull from the fallback and an upload fit the age the sweep goes by; the sweep's
  floor is computed without `COBALT_DOWNLOAD_TIMEOUT_S`.
* `BlameFair` of the doctor speaks of helpers that did not change since boot: the process keeps what it was built with.

## Proofs

`tlapm M.tla` for each of the eight modules named `*Proofs`, a few minutes
each. The theorems hold for every set of keys, consumers, users, links, admins, photos, accounts, targets, tasks, files, processes, clips,
instances and clients, and for every bound. Each rests on the `ASSUME`s of its module, which TLC evaluates in the runs, and on what is named here:

* `TypeCorrect`, `RedisKeeps`, `NoOversell`, `SlotsHaveJobs`, and everything about payments: under every fault.
* `ClaimsCover`, `OneCopies`, `NoZombies`, `Refines`, `WorkerSingleFlight`: assuming
  `SteadyClaims`, that is, no claim expires under its job and no cancellation cuts into a release.
  Both are real (a claim has a TTL, a shutdown cancels), and with either the properties are false;
  crashes, restarts, failing commands and lost replies are covered, with the exception the properties name.
* `NothingIsLost`: assuming `Reliable`, which is `SteadyClaims` without deaths and failing Redis commands. Graceful restarts
  are covered; either of the two loses work (a death between the pop and the shelf does, see the findings).
* `NobodyForgotten`: assuming `Heard`, no death, no failing Redis command and no failing Telegram call; cancels, expiring claims
  and lost refunds are covered.
* `DeliversOnce`: assuming `Undisturbed`, deliveries of one message and no fault but a lost refund. With albums, deaths, cancels or a
  failing card it is false (`MCRetire` shows the last).
* `WorkerTypes`, `CoveredSlots`: under every fault, for finitely many consumers. `ExactSlots` assumes `Kept` as well: no lost refund, no death
  and no cancel, each of which may leave the row one above what it counts.
* `ExitIsOrderly`, `PagesAreHonest`, `WallHolds`, `RestoresSafely`, `JarIsKept`, `BroadcastsExactly`, `RegistryCovers`, `RegistryNoPhantoms`, `SongsAreKept`,
  `MenuIsHonest`, `DoctorIsHonest`, `DeliveriesWhole`, `EnginesAskOnce`, `ProbeIsSound`, `TextsAgreed`, `TextTypes`: under everything their modules let happen. `DeskTyped` says of
  `MCDesk` that whichever part runs, all keep their types.
* `LeaseNotStolen`, `OneProcessHolds`: for timings in which a lease that misses no refresh stays fresher than the stale limit
  (`GuardAssumption`: `Stale + Refresh < TTL`, `Grace <= Refresh`; in the code 30 + 20 < 60 and 5 <= 20).
* `FilesAreHonest`: for budgets within the age of the sweep (`JobFilesAssumption`), see the condition above.
* `ServicesTypes`: under everything the modules let happen.
* `LiveIsParts`, `ServicesAreParts`: no condition. A behaviour of `MCLive` is one of `WorkerSpec` and of `TextSpec`, one of `MCServices` is one of the
  twelve components in it; so each theorem about a component is one about the run that checks its property.

**The queue's inductive invariant** (`IInv`). `OneCopy` is not inductive: that a pop yields a
payload no other consumer has says nothing about the enqueue that is about to push, the
release that is about to free the claim, or the boot that has taken a payload off the shelf. `IInv` adds

* `OneOpen`: two open requests never share a key, so a claim belongs to one request;
* `StoredOnce`, `InTheHand`, `Apart`: the list has no duplicate, a stored payload is in no hand it
  should not be in, and two consumers never work on one payload;
* `Releasing`: between LREM and DEL the claim is still the released job's, and nothing else of that
  key is alive, so the DEL frees nobody else's claim;
* `Keyed`: `inflight` holds, under a key, the payload the consumer of that key has, which is why `LREM`
  of the remembered bytes removes the right one; an enqueue under way has the claim, and its key nothing open;
  a payload whose push nobody heard of is open, so the release that follows touches only its own key;
* `Booting`: while orphans are moved no consumer holds anything.

All but the last speak of the trusted payloads only: a key becomes doubted in the step in which its push raises though it landed, so that what the
release in that step breaks is broken of that key alone. That the other keys keep all of it is the content of the theorems.

`Refines` maps `open`, of the trusted keys, to `pending`: `EnqueuePush` is `Accept` (its key has nothing open, by `IInv`), heard or unheard,
`ReleaseLrem` is `Settle`, and so is the step in which a key becomes doubted; everything else stutters. `RedisKeeps` needs only a weaker invariant
(`KeepInv`), which is why it holds under every fault.

**The worker.** `WorkerIsQueue` proves that every worker step is a queue step or leaves the queue
alone; the queue's theorems carry over from there. `NoOversell` follows from the WHERE of the claim; it needs the
types of the rows beside it. `SlotsHaveJobs` needs to know at which stages a consumer holds a job, and
that a hand-back returns the slot before it takes the payload off the shelf.

**Nothing is lost, nobody is forgotten.** `Somewhere` says where the payload of an open request is at every await: in the list, on the
shelf, between the two commands of a pop or of a hand-back, or in the hands of the boot. `AnswerInv` says that the stages which lead to a
release (`sent`, `settle`) are reached only past an answer, so the release that closes a request closes an answered one.

**One delivery.** `DeliveryInv` rests on the queue's `IInv`: an attempt about to send holds an open request in its one hand, and an open request
with a file in the chat belongs to the consumer that sent it and is on its way to the release (`Delivered`). A stamp belongs to
one request from its claim on (`StampsApart`), so a new request starts with no file.

**The slots.** `Balanced` is the account of a row until a first midnight: at least what its deliveries spent and the consumers
that hold a slot (`Holders`), and exactly that under `Kept`. A claim adds one on both sides, a refund takes one from both, a delivery moves
one from the holders to the deliveries; each is a lemma about adding or removing one element of a finite set. That `granted` implies a
held slot, claimed on a day of the past or today, is what makes the account inductive.

**The payments.** `GrantsMatch` is inductive together with the types and `LockHolds`: an admin inside
`decide_transaction` has a pending row that no other admin has. `Finality` follows from the same invariant.
`WalletHolds` needs the account: the balance is credits less debits, and every grant, done or still to
come (the handlers in `Paying`), has its debit; the number of handlers is finite for that.
`ThanksHold` needs to know that a card is only taken down after its transaction was decided (`Told`), and that
a top-up's reference is no transaction.

**The life cycle.** `OrderlyExit` is read off from the phase: before the spawn there is no task, after the gather
none is left (`TasksByPhase`), and in between the pool they use is open (`OpenByPhase`). The session is not, or not always: the end of the serving closes it. `DeletesByPhase` says that
the deletions shutdown looked at were in flight, and that none of them is once the drain was passed.

**The join wall.** The invariant is an account of ages. `gone` counts how long the user has been out of a target; a
remembered pass has `gone + what is left of it <= PassTTL + 1`, an answer on its way to be stored is at most one tick old,
and a target that was ticked off bounds `gone` by the time of a pass. Without the second the first is not inductive: an answer
stored late starts a whole pass of its own.

**The jar.** Stamps only grow, so a jar that still has the stamp an import judged by is the jar it judged (`Judged`);
the bot has one import at a time (`OneImport`), so its candidate is the one it exported. `Announced` ties the announced stamps to the
one the watcher saw last, `Copies` orders a run's stamp before its bytes, for every run of those that overlap: what one run moved and noted fits together
whatever another did between the two.

**The restore.** A nonce is in one place: waiting (`WaitsOnce`), in the hand of one confirmation (`HeldOnce`), used or void (`Unspent`).
`SafeFile` says at each await how much of the emergency file already equals the tables, for a confirmation nobody's edit outdated; at the commit this is
all of it.

**The broadcast.** The walk keeps a cursor and no memory of whom it handled; the invariant supplies it: there is a set `done` of the accounts
handled, disjoint from the page still to come, as large as the report's total, and everybody of the audience up to the cursor is in one of the
two. A page is the next accounts by rank without a gap, which takes lemmas about ranks in finite sets of numbers.

**The pages.** What a page promises is about the rows, what it is decided from are stamps; `WatchInv` ties them. `Clocked`: whatever row
calls a helper fine, a later one that does not is no younger than the clock of the outage, unless the look at it failed before the clock (`torn`), so a page that
waited out the clock is about a helper the rows call down. `Stamped` and `Windowed`: a stamp is no older than its message, or its sender is still on the way to
it; whoever sent in the window in force and did not lose the stamp finds the window closed.
`Recorded`: from a row that says down to the next that does not, every tick was down; pruning takes rows only with all that precede them.

**The sections.** `CountCovers` alone is not inductive: between the push of a job and `job_started` the registry counts one too few, between the
settling and `job_settled` one too many. `Placed` says which handlers are in between and for which section, `Bounded` bounds the count with them. `CountCovers` and
`NoPhantom` are two sides of one account, and each step is one handler added to or taken from a finite set; only a settling of a count that is zero already
disturbs it, and those sections are `hasty`.

**The lease.** `HeldLease`: a holder that met no failure is at most one refresh from its last write, so its lease is fresher
than `Stale`. `Overtaken`: without failures, a process about to write while another one that is up holds the lease decided so in the tick in which that lease was written. Of the settling (`OneHolder`)
the invariant keeps an account of the calm: `calm`, the ticks since anybody started, ended or failed, bounds the age of a lease nobody
renews and, per process, the time to its next look; once `calm` reaches the bound, the lease was taken and seen by everybody.

**The doctor.** A verdict is `Diagnosis` of a report that is complete, nothing else writes it; while nothing flapped, what was built at boot and what the report saw
are what is out there (`AsBuilt`, `AsSeen`), and a remembered answer names the address configured now (`RecalledAbout`).

**The songs.** Each promise has its keeper: a shown button a key with its TTL or an update about to write it (`Promises`), a
counter its expiry or the update that counted first (`Windows`), a mute a search or a tap that found nothing (`Markers`), a page the
stamp or its sender (`Pages`). The hard part is `Windows`: INCR and EXPIRE are two commands, and a death or failure between them is where a counter could refuse for ever.

**The menu.** `drawn` only grows, so it suffices that whatever carries a resolution had it from there: a handler's locals (`Frames`), the FSM
record (`Record`), a retry button (`Buttoned`). `Lookups` ties a running look-up to its link, so that a second is refused.

**The delivery.** `SentSoFar`: an upload stands at an item; the items before it are in the chat, and unless the post is more than one group those
from it on are not. A send that broke off after landing is the reason for the last clause, and for albums of one group only. A post that lost an id stands
at its last item for good (`named`), so it claims nothing of the rest.

**The files.** `OneHand`: a directory belongs to one thread, to the job, or to nobody; `InBudget`: its age is at most what its owner
has used of its budget, so the sweep finds only directories of nobody; these are counted by runs let go and deaths (`Loose`).
What waits to be sent was checked for the request it was made for (`Fitting`), what was filed is what was sent (`Filed`).

**The pool.** `Walk` says of each job which part of the pool it has asked: none of the instances left, and of the one it is on none of the dialects to come.
That an instance free at the start is not passed over is its complement: `fresh` is what was asked, what is left and where it is. The dialects the pool remembers
need not be right for it.

**The probe.** A walk has numbers of its own requests left, and two numbers are two requests (`FailoverSteps`, a lemma); a jar that signs
in goes with the first only. That a rung is offered and delivered needs the answer to have one at all: the stream that `Picked` takes at the height of
the row of the tallest label is of that label (`MenuDelivers`, by the lemmas on ranks, `Picked` and `RowHeight`).

**The texts.** A version is only evidence of what was read before it. The invariant of `TextsAgree` says so of every version a peer of the editors
has or is about to take: it is in the past (`Behind`), and the rows of a reload that asked for the counter are the table's or the counter has moved since (`ReloadsFresh`), because a
reload asks the counter first. Every change of the table is one of an editor (`EditorsEdit`), and until its INCR it is the exception the property names; the INCR then puts every
version read before it behind. Of the editing processes nothing is needed, which is why their edits and reloads may overlap as they like. `CounterBehind` bounds the counter: the edits
whose INCR is still to come and the counter together are no more than the edits.

**The types of the services.** Most follow from the invariants above. Three do not. What is kept for a restore is within its cap (`RestoreTyped`): an upload drops the
oldest by rank of their nonces, and the lemma `OldestGo` counts what is left (ranks are distinct, so the pigeonhole principle bounds them). An export of the jar that is there has a stamp
(`Written`), or the watcher could announce nothing at all. A job waits for one thread at most (`FilesTyped`), and no directory is from the future (`DirsDated`).

**What the attempts found.** The models were changed where they could not be reasoned about or were wrong:

* `EnqueuePushFails` of the queue took an LPUSH that raises for one that never landed, which made `Refines` a theorem of another program.
* `Doctor` chose its verdict by a CASE whose guards overlap, which TLA+ leaves open; the code's order of `if`s is now the order of the operator.
* `Delivery` let `Posts` contain an empty set, with which no upload could start and the types said nothing.
* `JobFiles` let the fallback hand over an empty picture, which nothing checks afterwards; `services/cobalt.py:925` refuses a file with nothing
  written, and the guard is now in `Pulled`.
* The lease's theorems need the margins between its constants, which the model had left to its configuration; they are `GuardAssumption` now.
* `Engines` and `Probe` built their orders by selecting from sequences, which hides from the provers that a walk has no instance and no request twice; they
  now keep what is left as a set and take the next by its place. `HelperWatch` folded over its rows; a downtime is now the set of its ticks.
  All three have the state graphs they had.
* `TextSync` kept the reloads of a process away from its edits by a guard the code does not have; without it the property had to be one of the peers.
* `TextSync` allowed a catalogue of no keys, with which its types are false (an edit, even one at rest, has a key); `TextKey # {}` is assumed now.
* `CookiesInit` starts beside a jar that was written once, which a bound of no writes excluded from the types: `MaxWrites` is at least one.

**Model-checked only**:

* all liveness (`EveryJobSettles`, `ClaimsComeBack`, `TextsConverge`): liveness under fairness is beyond the provers, and so is `ENABLED`, by which
  weak fairness is defined. Every invariant and action property of a passing run is stated by a theorem.
* The violations, which are counterexamples and have nothing to prove.

## Findings

1. **`MCQueueLost`**, `services/queue.py:279`: a death between `BRPOP` and the push onto the shelf loses
   the task; the comment above it says such a task is recoverable.
2. **`MCMidnight`**, `core/database.py:613`: a slot claimed before midnight is refunded from the new
   day's counter once the user has claimed in the new day; docstring and test say it never is.
3. **`MCRetire`**, `services/worker.py:1878`: deleting the status card of a delivered job may raise
   other errors than the two that are caught; the job is retried and the file arrives twice.
4. **`MCPayPhoto`**, `core/database.py:424`: the photos of an album are attached to one purchase one after the
   other, each is forwarded with its buttons, and the one overwritten may prove the next purchase; the schema
   and the docstring say one photo is one decision.
5. **`MCMenu`**, `handlers/user.py:2338`: a menu drawn from the cache, or after a failed probe, leaves `live` and `size_guess` of the
   link before it in the FSM record, and a tap queues the new link with them; the worker then refuses it as live or too large.
6. **`MCCeiling`**, `main.py:102`: a bot that booted while the local server was down is built on a session that
   does not follow the latch; once an upload clears the latch the limit rises, file URIs go to the cloud, and the cloud refuses files the limit let through.
7. **`MCOAuth`**, `handlers/admin.py:1762`: `/oauth` waits for a code before it starts the child that prints it.
8. **`MCSections`**, `handlers/user.py:1838`: a link is checked against the section once, as it was sent. A share link that resolves to another section's, or a section tap
   handled before the job is queued, lets it into a session it does not belong to; the docstring of `download_mode.py` says a link can never slip in.

Seen while modelling, and without a run of their own:

* A reply that is lost after the LPUSH has `enqueue` free the claim of a payload that is in the list (`services/queue.py:258`), and one request becomes two downloads.
* A job that settles before its handler has counted it leaves its section counted, and locked, until a restart (`handlers/user.py:3212-3235`).
* An editing process may hide its own edit from itself for good (`core/texts.py:496`), and two editors each other's.
* Two yt-dlp runs that copy the jar at once may leave the older bytes under the newer stamp until the next export.
* An instance of the pool that refuses a wrong path (401, 403, 429, 5xx) is remembered by it (`services/cobalt.py:787`), and asked that way first from then on.
* A stamp that is lost after a notice was sent, or two workers that find it due at once, has the notice sent twice in a window (`main.py:228`, `services/telemetry.py`); a failure
  between the row of a recovery and the clock of its outage has the next outage page at once.
* A message without a file id ends a post of several messages as delivered, with the rest unsent (`services/worker.py:1272`).
* The comment in `shutdown` has deletions drained "before the bot session below is closed"; `start_polling` has closed it by then (`main.py:925`). What is in flight is cut, and
  the next request opens another session, which `shutdown` closes.
* After an INCR that failed the log says that the other processes pick the edit up within the TTL (`core/texts.py:562`). `sync` looks at the TTL only while the counter
  does not answer, so as long as it answers and nobody edits they keep the old text; `TextsAgree` and `TextsConverge` except this (`lost`).
* A second draft replaces the announcement under the first copy's button; an edit between the emergency file and the commit of a restore
  cannot be undone by that file.
* A failing step of the maintenance loop skips the later ones; a failed send of the `/oauth` status leaves its flow registered; the tunnel is decided
  once, at boot; an abandoned yt-dlp thread may begin another attempt after its timeout; the
  replay of a refused photo group sends its first photo only.

## Abstractions, and what is not modelled

* In `Worker` the two engines are one outcome: a fallback that serves a link goes the way of a download, one that
  fails as well ends the job. `Engines`, `Probe` and `JobFiles` take these steps apart, each on its own; what they share with the
  worker is the outcome, and no run composes them.
* A task carries the message id of its card, as every request of the handlers does: `_open_status` sends
  nothing of its own.
* The shelf is a set, and `requeue_orphans` empties it in any order; the order of the queue is kept.
* One update of an FSM record is one step. Its read-modify-write inside the storage
  (`update_data`) is not split.
* Jobs of retry and song buttons (`Direct` of `DownloadMode`) have no section check in the code, and none here.
* A payment has one price and one amount. A transaction may run out of rows (`NoRowLeft`), which is a
  bound. The wait for a typed amount is no wait
  for a photo (`wait = "none"`). An admin decides one thing at a time; two taps of one admin at once are two admins here.
  False by the design of two statements, and so no property: that every debit is granted, every approved
  top-up credited, and credited once.
* A lease command takes no time; one that is slow or lost is a `Blip`.
* A claim expires in `RedisTaskQueue` under the fault `expiry`, and without it only when nothing alive needs it (`LeftBehind`): a claim a death left
  behind is freed by its TTL.
* Heights, rates and codecs are numbers and names of small sets; a URL is a model value; DNS, TLS and the content of an HTTP answer are the choice among its outcomes.
* Time is counted in ticks that keep the order of the code's constants, and passes between any two steps where the code awaits.
* The retry after a flood wait in `Broadcast` is one send with one of its outcomes; `Delivery` has the waits.
* `validate_backup` is reduced to the rule that separates settings from generated and secret rows.
* `Membership` and `Songs` have one user each for what only he can read; the slots of `Songs` are shared.
* Boot asks whether the provider's root answers below 500, `/doctor` asks its `/ping` for a version; in `Doctor` both see one fact, whether it is there.
* In `Lifecycle` the tasks are alike but for the guard; warm-up and the command menu are left out.
* Not modelled: the parts of [the second table](#what-is-not-modelled), the progress editor, the outage
  page of the guard and its state without Redis, pruning of cache rows and expired premiums, telemetry counters, impersonation and tokens of the extractor.

## Plan

1. *Done*: queue, single flight, quota, worker, sections, guard, payments, and the services; their runs, and the theorems above.
2. *Next*: `MemoryTaskQueue` as a second implementation of `SingleFlight`; the expiry of premium between check and claim.
3. Compose `Engines` and `Delivery` with `Worker`, so that the flood budget runs against the attempts.
4. Liveness of the section (a used section unlocks) under the handlers' fairness.
5. What of single flight survives for a doubted key: how many copies one lost reply can make.
