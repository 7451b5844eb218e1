# A TLA+ verification of seiza's concurrent and persistent core

seiza is a Rust workspace for astrophotography: plate solving, stacking, image
processing, catalogs. Most of its lines are numerical functions of images, without
state that outlives a call. What can go wrong for reasons no unit test is likely to
reach is elsewhere: files several machines put into one store, stacks resumed from
what another run left, requests cancelled while they wait, a cache directory that
several processes share under a lock. Those parts are modelled here, checked with TLC
on small instances, and their safety proved with TLAPS for every instance.

Contents: [the inventory](#1-inventory), [how the modules correspond to the
code](#2-modules-and-the-code), [what each run checks](#3-runs), [bounds](#4-bounds),
[fairness](#5-fairness), [what is proved](#6-proofs), [findings](#7-findings),
[what is left out](#8-not-modelled-and-why), [the plan](#9-plan).

`PROJECT.json` lists the components, the runs, one mutant of the code for each property
(a change under which TLC finds that property violated), the source lines of each
definition, the hazards and the theorems.

## 1. Inventory

### Modelled

**Step store** (`seiza-pipeline/src/store.rs`).
*State:* a directory, `steps/<2 hex>/<key>/<name>`, and hidden files `.<pid>-<nanos>.<name>`
beside the real ones; no lock, no index.
*Operations:* `find` (is there a file, and does its header name this key), `path`, `put`
(a FITS file: `find` first), `put_file` (any file: an existence check first).
*Interaction:* called by sessions and channels, by any number of threads, processes and
machines on a shared file system.
*Hard:* every put is a sequence of file system calls that can fail or be cut short, and
others see what is between them; hard links make publication atomic and exclusive, the
fallback for file systems without them does not.
*Correct when:* a real name only ever names a whole file of its own step; the first copy
stays; a put that returned a path returned one that holds a file. Hidden files are removed
as far as they can be: a removal that fails is ignored, and a put may leave its own
behind.

**Sessions and channels** (`seiza-pipeline/src/session.rs`, `channel.rs`; the identities of
`partial.rs` and `identity.rs`).
*State:* in the store, partial stacks, live-stack contexts and tiles by key; in memory, the
live stack of the session being run.
*Operations:* `SessionStep::plan` hashes the lights; `run_into` reuses a stored partial
stack, extends the longest stored prefix whose context is the one its cards record, or
stacks afresh, and falls back from the second to the third on an error; `run_channel` runs
the sessions in order, skips those that accepted nothing, and combines the rest.
*Interaction:* reads light frames that other programs write; shares the store with other
machines running overlapping plans.
*Hard:* content addressing makes a promise ("a file under the key is this step's output")
that every path must keep: reuse, extension of an extension, fallback after a partial
failure, a crash between the context and the partial stack, two machines doing the same.
*Correct when:* what is stored under a key is the stack of exactly the lights the key
names; a run returns the tile that one machine alone would make; a recorded context is the
one held; a run ends.

**Plate-solving worker** (`seiza-cli/src/worker.rs`, `main.rs:solve_with_pass`, and
`SolveLimits` of `seiza/src/solve.rs`).
*State:* an mpsc channel between a reader thread and the main loop, the sequence number of
the last cancel read (an atomic), whether the worker is initialized, the limits of the
solve under way.
*Operations:* the reader numbers each line, marks a cancel at once and passes the line on;
the main loop handles requests in turn; a solve looks at its limits between its steps,
starts over once on a finer detection, and on a remote server is polled.
*Hard:* the cancel overtakes the lines in the channel; it must reach every solve before it
and none after it; requests, notifications, unreadable lines and blank ones are answered
or not from one place; neither the end of the input nor a failure to read it may overtake
what was read before.
*Correct when:* a cancel stops earlier solves only and every one it finds waiting; each
line that calls for an answer gets one, in order; the worker ends when its input does or
can be read no more, with everything read answered; a limit ends the solve it reaches.

**Orbital element cache** (`seiza-satellites/src/cache.rs`, `source.rs`, `history.rs`,
`blocking.rs`).
*State:* timestamped snapshots and `.partial` files in one directory, an advisory lock file
beside them.
*Operations:* `load_active` (CelesTrak's current catalog, fresh for two hours, any age when
the download fails), `load_at` of the history providers, the cached loads that use no
network; under them the two looks at the cache, publication by rename, and eviction down to
a ceiling.
*Interaction:* several processes, each with several providers, one directory; tokio tasks
whose futures may be dropped at any await.
*Hard:* shared lock, then exclusive lock, then a second look; eviction beside readers; a
ceiling too small for what must be kept; file operations on blocking threads that outlive
the future waiting for them, and the lock that future held.
*Correct when:* a snapshot is whole; nothing is downloaded for want of a second look; what
was listed under the lock is still there; the newest snapshot and a fresh download outlive
eviction; a load ends.

**Work ahead of the stacker** (`seiza-stacking/src/pipeline.rs`, `tasks.rs`).
*State:* of a run over a batch, a channel of one frame for each worker, a stop flag, or,
on a pool thread, a window of tasks whose slots are emptied once; the stack itself and the
paths it has taken.
*Operations:* `push_fits_pipelined` settles the repeats of the batch before anything is
opened, then reads and prepares several frames at once and integrates them in order,
calling back after each; a task is run by a pool thread, by the one who joins it, or by
nobody when it is dropped; a helper thread beside each task reads its file through, for
the page cache.
*Interaction:* worker threads or the caller's Rayon pool, and a callback that may cancel or
panic.
*Hard:* frames ready in any order; panics of a worker, a task nobody will collect, or the
callback; a cancel with every channel full; a joiner that is the only thread of its pool,
and a pool thread that runs other tasks while it waits for its own.
*Correct when:* from outside it is a stack fed one frame after the other; a frame is read
and prepared once, and not for nothing; what is prepared ahead is bounded; no panic is
lost; the run ends, helpers included.

**Catalog downloads** (`seiza-download/src/catalog.rs`, `bundle.rs`).
*State:* a cached manifest, artifacts under their hash, a lock file for each hash, temporary
files, and output directories whose files may be links to the artifacts.
*Operations:* `ensure` (the manifest by one of four policies, then each artifact: size,
lock, size again, download, verify, rename), `materialize` (each output file a link to its
artifact, or a verified copy).
*Interaction:* several processes and async tasks on one cache and one output directory,
and a server that publishes new manifests.
*Hard:* a look before the lock and another under it; a rename that outlives the dropped
call and its lock; a manifest replaced under a reader; two names for one file, so that
writing to an output file may be writing to the cache; an output name that cannot be
removed, which the code ignores; a cached file a disk has damaged, which its size may not
tell.
*Correct when:* what the cache holds stays as it is, and what it returns is there; nothing
is downloaded twice; an installation is of one version; a call ends.

### Not modelled yet

**Scratch directories and interrupts** (`seiza-cli/src/interrupt.rs`): a first and a
second signal, directories named by process identifier, collection of what dead processes
left. **Mirror and resolver** (`seiza-satellites/src/mirror.rs`, `resolver.rs`): the
mirror's `load_at` takes the steps of SatChecker's, which `SatelliteCache` has; the
resolver's cascade of loads from the cache, the mirror and SatChecker is a sequence of
such loads. **The drizzle a frame behind and the band reader** (`replay.rs`, `batch.rs`):
other users of `tasks.rs`, with its bounded `send`.

### Outside the reach of this method

The solver's search, stacking and calibration arithmetic, image processing, image formats,
catalog formats, C and Python bindings, upstream downloads, training and packaging:
`PROJECT.json` lists each with the reason. They are floating-point functions of data, or
marshalling. Where one of them touches state a model holds (where a search looks at its
limits; which lights a stack accepted), the module of that state has that touch.

## 2. Modules and the code

| module | stands for | extends |
|---|---|---|
| `WriteOnceStore` | what the step store promises, without files | |
| `StepStore` | `store.rs` by file system calls; refines `WriteOnceStore` | |
| `ChannelRun` | `channel.rs`, `session.rs` and what they use of `partial.rs`, over a store | |
| `Worker` | `worker.rs` and the limits of a solve | |
| `SatelliteCache` | `cache.rs`, `source.rs`, `history.rs`, `blocking.rs` | |
| `SequentialStack` | what a pipelined run promises: a batch stacked one frame at a time | |
| `FramePipeline` | `pipeline.rs` and the tasks of `tasks.rs`; refines `SequentialStack` | |
| `CatalogManager` | `catalog.rs` and the transfers of `bundle.rs`; refines `WriteOnceStore` | |
| `MCStepStore`, `MCChannelRun`, `MCWorker`, `MCSatelliteCache`, `MCFramePipeline`, `MCCatalogManager` | their inputs and symmetries for TLC | the module |
| `StepStoreProofs`, `ChannelRunProofs`, `WorkerProofs`, `SatelliteCacheProofs`, `FramePipelineProofs`, `CatalogManagerProofs` | theorems | the module, `TLAPS` |

Operators named "Mutant of ..." are not part of a model: each is a plausible bug in the
action that follows it, used to see that a property notices.

### StepStore

A writer is a thread of any process. Its `pc` is where it stands in `put` (from `find`) or
`put_file` (from `check`, the existence check); `temp` is its hidden file, which nobody
else can name, since the name holds a process identifier and the time. A file is who wrote
it, in which put, for which step, and whether it is whole: two runs of one step need not
give the same bytes, so a replaced copy is a different copy. `Create`, `Write`, `Link`,
`Exists`, `Rename` and `Clean` are single calls; `DirectoryFails`, `WriteFails` and
`RenameFails` are the error paths, `Crash` the death of a process between any two calls,
after which its hidden file is `litter`. Both places that remove a hidden file ignore the
result (`store.rs:102, 111`), so `TryRemove` may leave it as litter too, and the put
returns what it would have. `Links` is whether the file system has hard links: without
them `hard_link` fails and the code checks again, then renames. A `hard_link` that fails
once where links work, for another reason than a taken name, takes that same path, which
is modelled for `Links = FALSE` only: there a put keeps what `store_rename` checks, and
not the promise that nothing is replaced.

### ChannelRun

A digest is modelled by what it is a digest of. A light's content is the light and how
often it was rewritten; a session's key is the sequence of its lights' contents; a tile's
key the set of its sessions' keys; a stack is the sequence of contents pushed. "The step's
output" is then an equation, `partial[k].frames = k`. `context` and `partial` are the two
files a session stores; the context whose digest the cards record is that context. Placing
a file is two steps, the check and the placement (a link keeps the first, a rename the
last), which is what `StepStore` shows of `put_file`; the reading of headers, the longest
prefix and the two reads of a light (one for the key, one when it is pushed) are where the
code has them. `StackFails` is any error of any step in `resume_into` or `stack_into`;
`Crash` is the death of a run. `Rewrite` is external: another program writes a light
again. `PlanSession` hashes all lights of a session at once, and `Resume` scans all
prefixes at once: a finer grain would let a light change between two hashes of the same
plan, which gives the key of a session nobody has either way. A channel has one recipe and
one reference, so the grid check of `run_channel` cannot fail.

### Worker

The client's lines are one sequence; `read`, `passed` and `taken` count how far the reader
has read, how many lines it has sent, how many the main loop has received, so that the
channel is what lies between the last two. `cancelled_through` is the atomic of the same
name; it is set when a cancel is *read*, before it is passed. Kinds of lines are those the
dispatcher tells apart: `other` is any further method, known or not; `garbage` no request
at all; `blank` a line of spaces. `Handle` is a whole iteration of the main loop for a
line that starts no solve, errors included; `ending` is what the reader has sent last, the
end of the input or an error, since a read that fails (`worker.rs:353`) is passed through
the channel like a line and ends the worker when its turn comes (`line?`, 270), whether or
not the client closed its end. It may fail within a line, which is then lost, at any time
(`ReadFails`); `StartSolve` begins a solve whose parameters are sound. `check` is
`SolveLimits::check`, `search` the work between two checks. `Fail` starts over once, as
`solve_with_pass` does with its finer detection. `late` is a history variable. Write
errors of a client that went away are left out: the worker ends at the first.

### SatelliteCache

A loader is a process that makes one load at a time. A load goes through `prune` (the
ceiling is looked at first), `lock`, `look`, `read`, and, when nothing would do, again
under the exclusive lock (`phase = "recheck"`), then `fetch`, `create`, `write`, `rename`,
`enforce`. A failed download of the current catalog looks for a snapshot of any age
(`"stale"`). With the network left out a load is `"cached"`. Sizes are counted in
snapshots. `Remaining` gives the outcomes of an eviction, oldest first with ties open.
`Cancel` drops the future of a load that uses the network: the lock goes, and the file
operation under way, if it was on a blocking thread, joins `detached` and may run at any
later time. Which epochs a snapshot serves is a partition here (each epoch has a reuse
window of its own), and a cached load, which takes the snapshot nearest to a time of the
caller's, may take any. `reused` is a history variable: the names that a load took, in the
same second and process, while the creation or renaming of a cancelled load's file of that
name was still to be done. `"error"` also stands for a cached load that finds nothing.

### FramePipeline

Two modes, chosen with the batch and the files in `Init`. `"threads"` is the body of
`run_pipeline`: `worker`, `turn` and `queue` are where each worker is, its index and its
channel of one; `Receive` integrates and records the frame and calls back (`coord =
"callback"`), where the answers and the panic of the callback are three actions; then come
`RaiseStop`, `DropReceivers` and `JoinWorkers`, of which an unwinding skips the first.
`"pool"` is `run_in_current_pool` with `tasks.rs`: `task[i]` is whether the slot of frame
`i`'s work is full (`"queued"`), its work runs (`"running"`), its outcome was sent
(`"sent"`) or its receiver is gone while it runs (`"left"`). `JoinTakes` and `TakeTask`
empty the slot, one wins. `busy[t]` is the stack of tasks thread `t` runs, since a pool
thread that waits for Rayon work runs others meanwhile; the caller does so too while it
joins, drops or integrates, and goes on in its own code when they are done. A frame is its
index; a path's reading and preparation come to `"good"` (integrated or rejected),
`"unreadable"` (any error) or `"panics"`. What a run tells of is `reported` and `stacked`;
`phase` maps where the caller is to the phases of `SequentialStack`, whose `LatePanic` is
the one thing a pipelined run may do that the sequential one cannot: after a cancel, raise
the panic of a frame already begun. `helpers` are the frames whose files helper threads
are reading through; they begin with the window (`Spawn`), may be at it before, after or
without the task's own reading, and the scope the run is in waits for the last
(`ScopeEnds`). `reads` counts how often a frame was read and prepared: the two openings of
a file within `read_for`, one to read it through and one to decode it, are one reading.

### CatalogManager

A manager is a process with one call at a time. Files have identities: `objects` and
`output` are names for them, `data` is what each holds, so a link is two names for one
file and a write through one is seen through the other. A file that is cut short holds
`Broken`; sizes are those of contents, and two versions of `objects.bin` have the same
one. A call goes through the manifest (`manifest`, `fetch`, `store`), then for each name
`probe`, `lock`, `recheck`, `download`, `publish`, and `rename` or `discard`; an
installation through `inspect`, `remove`, `link` and, where the link fails, `copy` and
`verify`. `Copy` is the opening of the target, which empties it. `Remove` is of a name of
the output directory; the code ignores its result (`catalog.rs:210`) and goes on, so it
may leave the name where `RemovesFail` says it can: in an output directory on the cache's
file system (`TRUE`), on another (`FALSE`), or on either. At first the cache is empty or
has one damaged object, cut short or of the right size and any content of that size, which
`Hit` takes for whole as `size_matches` does. `Drop` is the end of a call anywhere, by the
caller or by the death of its process; the rename it waited for joins `detached` and may
still be done, or never. Freshness by age is a choice, and so is whether a cached manifest
can be read. Once the call ends, what it knew is forgotten (`Forget`), which is the end of
its locals and keeps the states few. File identity is that of Unix; elsewhere
`is_same_file` says no and every call installs again. An installation is not dropped: its
callers wait for it.

## 3. Runs

Distinct states as TLC counts them; every run ends in about three minutes or less on two
workers.

| run | states | what it shows |
|---|---|---|
| `store_links` | 35,169 | With hard links, two writers, two places, removals of hidden files that fail: whole files only, and `StepStore` implements `WriteOnceStore`: nothing is replaced and "ok" means held |
| `store_rename` | 38,789 (up to symmetry) | What is left without hard links, three writers racing: "ok" means held, and a place once filled is never empty |
| `channel_grow` | 247,750 | Two machines, a session that grows, contexts kept or not, failures and deaths anywhere: keys name their contents, tiles are the plans', runs end |
| `channel_combine` | 259,858 | With a light rewritten and hard links: a recorded context stays the one held, and no partial stack changes under a run that combines it |
| `channel_rewritten` | violation | A light rewritten between its two reads |
| `worker` | 383,449 | Every order of four lines of six kinds, local and remote, the input closed or failing anywhere: cancels reach what is before them and nothing else, answers are in order and complete, and searches and the worker end |
| `worker_limit` | violation | A remote answer later than the limit |
| `cache` | 564,615 | Two processes, the current catalog and one epoch, a ceiling of one snapshot, failures and deaths, and one load cancelled anywhere: snapshots are whole, the newest is kept, and loads end; until the cancel, also no needless download, no snapshot lost to a reader or to the load that downloaded it |
| `cache_cancelled` | violation | What a cancelled load leaves running |
| `pipeline` | 1,173,960 | Batches of four, one with a repeat, every file good, unreadable or panicking, one to three workers, on threads or in a pool of one or two, every answer of the callback: `FramePipeline` implements `SequentialStack`, reads and prepares no frame twice or for nothing, stays within its window, loses no panic and ends, with the helpers it began |
| `catalog` | 437,834 | Two managers, two versions, one damaged artifact or none, output on the same file system or on another where copies may not be removable, one installing at a time, every policy, failures anywhere, one drop: `CatalogManager` implements `WriteOnceStore`, downloads nothing twice, installs one version, and ends |
| `catalog_installers` | violation | Two installations into one directory at once |

Deadlock is not checked: each of these systems may stop (no writer begins another put, no
plan is started, the worker has exited, the bound on loads is reached). That nobody is stuck
on the way is said by the liveness properties instead: `RunEnds`, `LimitsEndSolves`,
`RequestsAreAnswered`, `ClosingEndsWorker`, `LoadsEnd`, `CallsEnd`.

`SnapshotsAreWhole`, `MostRecentIsKept`, `LoadsEnd` and the types of `SatelliteCache` hold
with cancels, the first but for a name in `reused`: where a load of the same process
publishes in the second a cancelled one took its name in, one's `File::create` may empty
what the other renames. The others (`NoNeedlessDownload`, `ListedIsStillThere`,
`DownloadedIsKept`) say something until the first load is cancelled, no more: they are
what the lock protects, and a cancelled load's blocking task is outside the lock.
`cache_cancelled` shows one consequence.

## 4. Bounds

- **`MaxPuts`, `MaxRuns`, `MaxLoads`, `MaxLines`**: how often each actor begins. Two puts
  a writer and three loads let one actor go through a whole operation, another overtake
  it, and the first come back to what the second left. Three runs let a plan store a
  prefix, another extend it, and a third find both or either half. Four lines are an
  initialization, a solve with a cancel on either side or two solves around one.
- **`Writers`, `Machines`, `Loaders`**: two are enough for each race the code can have,
  since they meet in one place with one check and one act; three writers in
  `store_rename`, where a rename may hit a copy that was itself renamed over another.
- **`GrowingPlans`, `CombiningPlans`**: a session of one light, the same grown, the grown
  one beside a session given twice and one that accepts nothing. With `Accepted = {a}` the
  last stores nothing (`AcceptsNone`), alone in its plan or among others.
- **`Limit = 1`** is the ceiling that bites: one snapshot must go whenever there are two.
  `MaxTime = 2` with `MinRefresh = 1` lets a snapshot be fresh, just fresh and stale.
- **`MaxRewrites`, `MaxCancels`**: one is enough to violate what can be violated by it; a
  second one meets the same states again.
- **`Batches`, `WorkerCounts`**: four frames give a worker of two a second turn and leave
  a window of three something to slide over; a repeat and a path taken before are each
  refused in the middle and at the start. Three workers, more threads than the pool has.
- **`PoolThreads`**: one thread besides the caller's, or none, where the caller is alone
  with what it waits for.
- **`Bundle`**: an artifact both versions have and one that changes without changing its
  size, which is the case sizes cannot tell. **`Damaged`**: the one the second version
  drops, since a bad file under the hash is replaced, or taken for whole, the same way
  whichever it is; it may hold the content that replaces it, one of the same size that no
  version has, or its own. `MaxEnsures = 2`, `MaxDrops = 1`: one manager twice or two
  once, with one call dropped.
- **`Installers = 1`, `RemovesFail = {FALSE}`** in `catalog`: installations take turns,
  and a name stays only where it is a copy's; `catalog_installers` says what happens when
  two do not take turns, and section 7 what happens when a link stays. The twelve
  `FileIds` are more than can have a name or be held at once, as `FilesAssumption` asks:
  four objects and two outputs, a temporary file and the source of a copy for each
  manager, and one of a dropped call.
- **`Links`, `Clipped`, `Remotes`**: each value is checked by some run, `Remotes` both at
  once.

## 5. Fairness

Weak fairness of the straight-line code of each machine, thread or loader, and of nothing
else. The code it stands for has no blocking call except where a guard says so (the
channel, the file lock), and the operating system runs a runnable thread. No fairness for
clients, clocks, failures, deaths, cancels, rewrites, detached tasks, or for a limit to
pass.

- `Worker`: the reader and the main loop are one weakly fair action each. A search may go
  on as long as it likes under this, so `RequestsAreAnswered` and `ClosingEndsWorker` have
  the premise `SearchesAreFinite`, that a search that goes on taking steps comes to its
  last: its list of windows is finite, and a remote one's polls are limited by the
  server's timeout. `LimitsEndSolves` needs no such premise: it is what the limits are
  for.
- `FramePipeline`: the caller's loop, its callback (which is called and returns), each
  worker, and each pool thread with a task it has begun, and the helpers. Nothing makes a
  pool thread take a task: `RunEnds` holds although the joiner can count on nobody but
  itself. Reads and preparations end, and so does what helpers read.
- `CatalogManager`: each manager's next step, which is a lock once it is free, and for a
  request an answer or a failure.
- `SatelliteCache`: a lock that is free is given (weak fairness of a step that takes it).
  Loads are finitely many, so no process is passed over for ever by others that come and
  go; with endless loads an advisory lock promises less.

## 6. Proofs

Each of the six components has a module of proofs, and every invariant, action property
and refinement that a passing run checks is a theorem there; what is left to TLC is
liveness. The theorems hold for every value of the constants that the named assumptions of
the models allow: `None` and the like are values of their own, bounds are naturals, plans
have sessions and sessions lights, requests are requests. One says more: `FilesAssumption`
(`CatalogManager`) has more files than can be in use, so that there is always a new one.
Nothing else is taken on trust.

Some theorems, or the properties they state, have hypotheses: `Links`, that the file
system has hard links; `rewrites = 0`, that no light was written again so far; `cancels =
0`, that no load was cancelled so far; `Installers <= 1`, that installations into one
directory take turns, and `TRUE \notin RemovesFail`, that what may be a link into the
cache can be removed. For the second to the fourth a run of section 3 shows what happens
otherwise, and for the last section 7.

**`StepStoreProofs`.** `PlacedIsWhole` alone is not inductive: a link places whatever the
hidden file is. `StoreInv` adds what each place in `put_file` says of the writer's hidden
file (`HiddenFile`: whole from the link on, none before it is created, and never past the
link in a file system that has links) and of its place (`AskedPlace`: held once a link, a
lost link or a rename says so). The step is proved in three parts, the types, what is
placed, and where each put stands; the last uses that no step empties a place
(`HeldStep`). From it follow `TypeCorrect`, `RealNamesAreWhole`, `ReturnedPathHolds`,
`PlacesStayHeld`; under `Links` also `NeverReplaced` and `ImplementsPromise`, the
refinement: `Link` is the abstract `Keep`, `Begin` is `Ask`, a return is `AnswerOk` or
`GiveUp`, the rest stutters. `NeverReplaced` is of `WriteOnce`, which no run lists because
`KeepsPromise` contains it.

**`ChannelRunProofs`.** `ChannelInv` has three layers. `RunInv`, which always holds, types
the machines (a key is in the store once it has been read there, a stack is of contents,
an index within its plan). `KeptInv`, with hard links, says that what a run read of the
store is still so: the context whose digest it will write on its cards, the identities of
the partial stacks it is combining. Its proof rests on `GrowsStep`: what a step does to
the store, under `Links`, is to add to it. `FaithfulInv`, until a light is rewritten, says
what a run holds in terms of the plan: a stack is the part of the key pushed so far,
wherever it was resumed; a finished one is the key; what a tile will be of is the sessions
passed so far that accepted a light. The longest stored prefix enters by
`StoredIsStepOutput` itself: a prefix found under a key is the stack of that key. Hence
`ContextsStay` and `CombiningIsUndisturbed` (under `Links`), and `StoredIsFaithful` and
`RunsAreFaithful` (while `rewrites = 0`), the last two with or without links and whatever
fails or dies.

**`WorkerProofs`.** `WorkerInv` strengthens the four invariants with what the mark says
(`MarkIsACancel`: the line it names is a cancel), what the end of the input says
(`EndIsLast`: everything read was passed, and at a closed input that is everything) and
what a solve under way says (`SolveUnderWay`: it is a line taken, and if a cancel had
reached it, it still counts as cancelled, because the mark never goes back).
`AnswersInOrder` becomes two equations that a step can carry, `Numbers = Due(Done)` and
`Ordered`. Three lemmas carry most of the steps: `Outside` and `Inside` (the client's and
reader's steps leave the main loop where it is, and the other way round) and `MainSteps`
(each step of the main loop takes a line and is done with it, takes a solve, goes on with
one, ends one with an answer, or stops). `LinesGrow` says that a line once written stays
what it is. From `WorkerInvariant` follow `TypeCorrect`, `CancelsLookBack`,
`OneAnswerEach`, `NothingLeftAtExit` and `CancelsReachTheChannel`.

**`SatelliteCacheProofs`.** `LockInv` holds whatever is cancelled: where a load is says
which lock it has (`Standing`), and who has the exclusive lock is alone (`Alone`).
`Undisturbed` holds until a load is cancelled: what a load has seen of the directory is so
(`Sees`: listed snapshots are there; one that goes on to fetch has none that would do; one
that publishes has its partial file, whole by the rename), and two snapshots of the
current catalog are further apart than the refresh floor, which is what keeps a second
look from missing one. Each step of a load keeps the views of the others because it reads
only, or holds the lock alone. `WholeInv` holds whatever is cancelled again: a partial
file at its rename is whole, whether a load or the blocking thread of a cancelled one
renames it, unless its name was taken again (`Ready`, `TakenAgain`). `TypeCorrect` and
`RealNamesAreWhole` hold always; `DownloadsAreNeeded`, `ReadersKeepTheirSnapshots` and
`OnlyCancelsDisturb` while `cancels = 0`; `DownloadsAreKept` (with `cancels = 0`) and
`MostRecentOutlives` (always) are about an eviction as a whole (`Remaining`), for any
ceiling and any set of snapshots.

**`FramePipelineProofs`.** `PipelineInv` says for each mode what is ahead of the caller.
On threads (`ThreadsInv`), each worker is at a frame of its own, and the first it has yet
to hand over is of the round the coordinator is in or the next (`First`, with lemmas on
remainders): this is what makes a frame arrive at its turn. In the pool (`PoolInv`), the
state of a task says whether its index is behind, within or beyond the window, and a task
that runs is one thread's or the joiner's (`BusyInv`). `LoopInv` says how the caller's
loop ended. From it follow `TypeCorrect` (a channel never holds two frames),
`ReadsAreBounded`, `BegunPanicsReachTheCaller`, `ReadsAreNotWasted`, and the refinement
`RunsAreSequential`: a receipt is the abstract stack's next frame, an answer of the
callback its own, the last join its end, and everything the workers and the pool do a
stutter.

**`CatalogManagerProofs`.** `CallInv` holds for any number of installers: where a call is
says which lock it holds, that it has a temporary file, and that each artifact it was told
is there has a file. `FileInv` holds while installations take turns and links can be
removed, and is about names and files: a file that is being written has no name in the
cache, and in the output directory only the one it is copied to (`TempOf`); a rename of a
dropped call is of a verified file without a name (`RenameOf`); what a manager has
verified or installed is as it was (`WorkOf`). Since a link gives one file two names, an
artifact stays whole only because nobody writes to a file with a name in the cache.
`OutputInv` is what lets the code ignore that a copy stays under its name: off the cache's
file system a file of the output directory has that name and no other, so the next copy
over it changes nothing else. An artifact that was damaged at first without losing its
size (`Rotted`) is taken for whole, and nothing is downloaded in its place. That a new
file is new needs a bound on those in use (`ValuesBound`, `UnionBound` and what follows
them). `TypeCorrect` and `DownloadsAreNeeded` follow from `CallInv`; `WholeObjectsStay`,
`InstallationsAreWhole` and `CacheKeepsObjects` (the refinement of `WriteOnceStore`) from
`FileInv` and `OutputInv`, with `Installers <= 1` and `TRUE \notin RemovesFail`: without
either an artifact can be lost. What holds without them is `DamageIsByCopies`, from
`HoldInv`: whoever installs, the file of a download, or of a dropped call's rename, has no
name and no other user, and has its artifact once that is verified, so an artifact that is
whole is damaged by an installation's copy onto its file and by nothing else
(`OnlyCopiesDamage`, which TLC also finds to hold with `Installers = 2` and `RemovesFail =
{TRUE, FALSE}`, 504,863 states).

Each inductive invariant was checked by TLC on the instances of section 3 before it was
proved. Two definitions changed because a proof did not go through. The phases of the
abstract stack, as `FramePipeline` maps them, were given by conditions that overlapped;
and `Discarded` (`CatalogManager`) took a file to be gone with its name in the cache
although it had another name in the output directory, which two names with the same
content would have told apart.

Model-checked only: the liveness properties (`RunEnds`, `LimitsEndSolves`,
`RequestsAreAnswered`, `ClosingEndsWorker`, `LoadsEnd`, `CallsEnd`), since liveness under
fairness and `ENABLED` are out of this prover's reach. So would be induction over data and
`RECURSIVE` operators (no module here has one). The bounds on how often actors begin
(`MaxPuts`, `MaxRuns`, ...) are constants like the others: the theorems hold for each of
their values.

## 7. Findings

Each is a place where a document or a comment says one thing and the code, as far as it is
modelled, does another; the run named finds the shortest trace.

1. `channel_rewritten`: "A store that holds a file under `key` holds this step's output"
   (`session.rs:120`); a light that is written again between being hashed and being pushed
   is stacked and stored under the key of its old content.
2. `worker_limit`: "A remote solve stops waiting for the server at the limit"
   (`worker-protocol.md:180`); the limit is looked at before a poll only, and a poll's
   answer decides the response however late it comes.
3. `cache_cancelled`: the cache is "guarded by one shared advisory lock" (`cache.rs:3`); the
   eviction of a load cancelled in its last step goes on after the lock was dropped and can
   remove the partial file of the next load.
4. `catalog_installers`: "Cache objects are immutable" (`catalog.rs:164`). Two processes
   install into one directory; both remove what is there, one links, and the other's link
   fails because the name is taken. `hardlink_or_copy` (`bundle.rs:489-496`) then copies
   over it, which empties the file before reading it: it is the cached artifact itself.
   Later calls download it again, but every directory it was linked into has lost it. One
   process alone does the same where a removal fails, which the code ignores
   (`catalog.rs:210`), as in a directory whose entries it may not change: the link fails,
   and the copy goes over the file under the name, which after an earlier installation is
   a link to the artifact of an earlier version; where the two are of one size, an
   `ensure` of the earlier version takes the overwritten artifact for whole from then on.
   TLC finds that trace for the same property with `Installers = 1` and `RemovesFail =
   {TRUE}`.

Met on the way, and stated by no run:

- Where hard links do not work, two writers of a step can both pass the existence check
  and the second rename replaces the first's file ("written once and never replaced",
  `store.rs:9`); `store.rs:64-66` concedes it, and `store_rename` has what remains.
- `CachePolicy::OfflineOnly` says "Never access the network" (`catalog.rs:18`); it keeps
  to the cached manifest, but `ensure_file` downloads whatever artifact of it is missing.
- `push_fits_pipelined` promises "the same outcome a sequential `push_fits` loop would
  have produced" (`pipeline.rs:387-389`); a path that could not be read and is named again
  in the batch is refused as a repeat there, while the loop would read it again. Either
  way the caller gets an error, unless the file has become readable.

## 8. Not modelled, and why

Beyond the components listed as such in `PROJECT.json`:

- `StepStore`: collisions of hidden names (process identifier and nanoseconds);
  directories, which once made are never removed; a file system whose hard links fail now
  and then.
- `ChannelRun`: the pixel arithmetic, weights and rejection; the card formats; the store's
  hidden files (that is `StepStore`); a store whose files are removed by hand.
- `Worker`: parameters, the blind index and its catalogs (built with the first request's
  limits, it serves every later one), a client that closes its reading end.
- `SatelliteCache`: the corruption of a whole file, clocks that go back, the skew between
  a snapshot's name and its modification time; waits for the lock left behind by cancelled
  loads, which take it and let it go; detached reads and writes, which change nothing that
  a name can reach; `cached_snapshots`, `prune_cache` and `cached_total`, which repeat
  steps that loads take. A ceiling too small for two providers makes them evict each
  other's snapshots and download again within two hours: it is listed as a hazard without
  a property, since the time of the last download is no state of the program.

- `FramePipeline`: how many workers a memory budget allows; the sequential run with
  calibration sessions, which is `SequentialStack` as it stands; panics of an integration,
  which unwind as the callback's do; how many helpers read at once, which nothing in the
  code bounds but the length of the batch.
- `CatalogManager`: `verify`, which only reads; how a manifest is parsed and what it
  plans, transports and progress; installations dropped half-way; damage that a disk does
  later than at the start, or to more than one artifact.

## 9. Plan

1. **`Scratch`** (`interrupt.rs`): two signals against registration, and the collection of
   directories by process identifier.
2. **The drizzle a frame behind** (`replay.rs`): `run`, `send` and `join_helper` of
   `tasks.rs`, a helper thread that feeds a pool whose only thread may be the one that
   feeds the helper.
3. **The mirror and the resolver** as further loads of `SatelliteCache`, once smaller
   instances of it leave room for a second provider.
