# Verification of CodeVetter: archaeology pipeline and warm verification daemon

CodeVetter is a desktop application (Tauri: a Rust back end, a React front end)
that reviews code, runs local verification and recovers business rules from
legacy sources. This directory holds TLA+ specifications of the two parts with
the richest protocols of their own:

- the *business-rule archaeology* pipeline: a durable job store in SQLite,
  commands that move a job through stages on concurrent threads, synthesis
  commands that call a model under reservations, and a panel that drives them;
- the *warm verification daemon* `verifyd`: a lease by which one process owns a
  repository, supervisors that keep an app server and a Chromium warm, and the
  runs that share them.

TLC checks the specifications on small instances, TLAPS proves the central
results for every value of the constants.

Paths below are relative to `src/apps/desktop/src-tauri/src/commands/` unless
they start with `src/`; `bra/` stands for `business_rule_archaeology/`, `ww/` for
`src/apps/desktop/src/lib/warm-verification/`.

## 1. Inventory

| Component | State it keeps | Operations | What makes it correct |
|---|---|---|---|
| **Archaeology job store** `bra/jobs.rs`, `db/schema/business_rule_archaeology.sql` | rows of `archaeology_repositories` (registered revision, ready pointer), `archaeology_generations` (staging, ready, superseded, failed, cancelled), `archaeology_jobs` (state, stage, owner, cancellation, receipt), work items | about 25 transactions: start, prepare, parse, link, derive, synthesize, validate, publish, complete; checkpoint, heartbeat, pause, resume, cancel, fail, recover; cleanup | readers always find one complete ready generation; one active job; a cancellation is not lost; a finished job stays finished; cleanup deletes nothing in use |
| **Refresh and cleanup commands, panel** `bra/refresh_command.rs`, `bra/cleanup_command.rs`, `BusinessRuleArchaeologyOperations.tsx` | per thread: what the command has read; in the panel: lifecycle, autoRun, action, the promise that is current | refresh, continue, cancel, cleanup, status; Index, Resume, Cancel, cleanup buttons, a 40 ms timer | overlapping commands build a complete generation; the panel stops; a cancellation is carried out; a shown final state stays; cleanup spares what is read or built |
| **Incremental invalidation** `bra/invalidation_store.rs`, `bra/invalidation.rs` | dependency rows per generation, work items | plan, clone, persist metadata | the plan holds everything that depends on a change |
| **Synthesis** `bra/synthesis_command.rs`, `synthesis_runtime.rs`, `synthesis.rs` | `archaeology_synthesis_cache` (reservations and answers), `archaeology_synthesis_attempts`; per command: the invocation, its cancellation flag and its watcher task | run, cancel, continue without a model, cleanup; within a run: reserve, begin, call, finish, retry, settle, materialise | no ordinal is called twice; a served answer was a recorded success; a settled reservation stays; a cancellation wins over an answer and settles what it meets |
| **Daemon: singleton** `ww/singleton.ts`, `ww/ipc.ts` | the lease file, the socket file | acquire (create, read, inspect, probe, recover, retry), listen, release | one owner per repository; the lease of a living owner is never removed; what a killed owner left is recovered |
| **Daemon: supervisors** `ww/supervision.ts` | app server: state, child, generation, attempts, transition in flight; Chromium: the same and the checkout that pins it | start, ensureReady, recover, stop, checkout; exits and disconnects | no process is lost; "ready" speaks of a living child; recoveries are bounded; a pinned browser is not replaced |
| **Daemon: runs and host** `ww/daemon.ts`, `ww/source-watcher.ts`, `ww/runtime-utils.ts`, `ww/daemon-host.ts` | active runs with their abort signals, watches, hashes, the lifecycle of the host | verify_changed, candidate dry run, cancel, disconnect, deadline, shutdown | a pass is about the sources it names and one generation of the runtime; an aborted run does not pass; a shutdown leaves nothing behind |
| **Adapters, inventory, fact graph, rule templates** | content of a generation | parse, link, derive | pure functions of large inputs |
| **Identity, lifecycle, review, temporal stores** | append-only events, rule identities | compare, decide, continue | identities are continued over generations |
| **Archaeology reads and exports** | none | queries of the ready generation | rely on the ready pointer |
| **Artifact retention** `ww/retention.ts` | active and finalizing reservation, bundles on disk | reserve, finalize, abandon, enforce | a reservation and a bundle in use are not evicted |
| **Differential verification** (same directory) | scheduler queue, content-addressed cache with leases | run pairs, store, evict | a leased entry is not evicted |
| **Review pipeline** `review.rs`, `deterministic_review.rs`, `git.rs` | reviews and findings | run an external agent, store | an external answer dominates |
| **Managed work and work items** | work rows | state machine of a work item | legal transitions only |
| **Agent terminal and bridges, MCP sidecar** | ptys, sockets, grants | open, write, close, grant, revoke | mostly operating-system I/O |
| **Structural graph, repository history, sessions, usage** | indexes | index, publish, query | pipelines like archaeology's, and log parsers |
| **Browser preview, sandbox, local checks, user interface** | child processes, presentation | | I/O and layout |

How they interact. The panel calls Tauri commands and awaits their promises.
`refresh` and `continue` run on blocking threads, each with a SQLite connection
of its own; `cancel`, `cleanup` and the status queries use the application's
connection under its mutex. They share nothing but the rows: every fence between
them is a compare-and-set in a `WHERE` clause (owner token, state, stage,
timestamp, cancellation). Synthesis commands are asynchronous tasks on the
application's connection: they hold its mutex for one or two transactions at a
time and none while the provider is called; their watcher task polls the job and
raises the flag that ends the call. Readers follow the ready pointer.

The daemon is a separate Node process, single-threaded: everything happens
between awaits. Processes meet only in the lease and the socket file. Within
one daemon, runs call `ensureReady` on shared supervisors and join whatever
transition is in flight; the exits of child processes, the watcher of the
sources and IPC connections call back between any two awaits; the host calls
`start` and `stop`, and `stop` waits for no transition.

What is hard. Commands read a row, or a file, once and act later on what they
read; two commands may run the same stage, two runs the same recovery, two
processes the same recovery of a lease; callers go away while what they called
runs on; anything may fail or die between any two steps; clocks step back; a
user may cancel at any moment, also after the decision; HEAD moves and sources
are edited under a run. `PROJECT.json` lists these hazards at their lines with
the properties that watch them.

## 2. Modules

| Module | What it is |
|---|---|
| `ReadyCatalog` | abstract: what readers of the catalog are promised |
| `ArchaeologyJobs` | the job store, one action per transaction, *arbitrary callers* |
| `ArchaeologyJobsProofs` | theorems about the store; it implements `ReadyCatalog` |
| `ArchaeologyRefresh` | extends the store with worker threads, invalidation and panel, *the callers the product has* |
| `ArchaeologyRefreshProofs` | the refresh model implements the store; what follows |
| `ArchaeologyStagesProofs` | what the commands leave in the generations they work on |
| `ArchaeologyFaultFreeProofs` | what holds as long as no command is cut off: the settled view, the work plan |
| `ArchaeologySynthesis` | extends the store with the synthesis commands of one job in its synthesize stage |
| `ArchaeologySynthesisProofs` | attempts, answers and cancellation under any number of commands |
| `VerifySingleton` | the lease and the socket, by processes that are killed anywhere |
| `VerifySingletonProofs` | who may hold and who may remove the lease |
| `WarmRuntime` | the two supervisors and the warm runtime, with arbitrary callers |
| `VerifyDaemon` | extends the runtime with runs, source edits and the host |
| `VerifyDaemonProofs` | what the supervisors keep in every behaviour of the daemon |
| `VerifyDaemonRunProofs` | what the verdict of a run rests on |
| `MC...` | small instances for TLC |

### ArchaeologyJobs

`repo`, `gen` and `job` are the three tables; `"absent"` is a missing row. One
action is one `BEGIN IMMEDIATE` transaction or one autocommitted statement. Its
guard is the conjunction of early returns and `WHERE` clauses; a refused
transaction rolls back and is no step. Parameters owner, job and timestamp are
arbitrary, so the store is checked against every order in which anything could
call it, also orders the product does not produce (two owners, recovery, clocks
that step back).

Abstractions. The identity of a generation is its revision: parser and algorithm
identities are constants of a build, source and configuration identities digests
of the tree. The content of a generation is which products it holds
(`manifest`, `link`, `derive`, `catalog`), which units have facts (`parsed`) and
which facts came after the linker read them (`late`), and which units still have
the lineage their parse found (`lineage`); the validation receipt is
that content at the time of validation. Two transactions write no fence on
timestamps (`checkpoint_plan`, `finish_parse`), as in the code. `work` and
`plan` are the pending and all work items of a job.

### ArchaeologyRefresh

`worker[w]` is the command a thread runs, its next transaction (`at`) and what
it has read; `view` the mounted panel; `head` the revision of HEAD; `deps[g]`
the dependency rows stored for a generation. Rows come from two sources
(`Provable`): references are edges between facts, which the linker makes anew for
cloned units too; copies (include, copybook, macro) come from the lineage a unit
still has, and the clone leaves it none (`data.lineage` of a generation). Rows
stored before the linker ran hold nothing. `run_refresh`, `continue_refresh`,
`cancel_refresh` and `run_cleanup` are sequences of actions of `ArchaeologyJobs`
with the owner token, arguments and order of the code. `refused` is a command
whose next compare-and-set matches nothing, `command_fails` one whose statement
SQLite refuses for another reason, `crash` the end of the process (rows survive,
threads and panel do not). `answer_dropped` is a promise nobody awaits.
`DbLocked` is the mutex of the application's connection.

The cleanup command is one transaction in the name of the job on display,
`retain_superseded = 1` as the panel passes it. The panel offers it for a
finished job; its preview changes nothing and is left out. Between the click and
the transaction HEAD may move, and a refresh that outlived its panel may start
the next job and build a generation: cleanup must spare it.

Bounds of the model: the clock does not move (`MaxTime = 0`; regressing clocks
are the store's subject), and nothing pauses a job because nothing in the
product calls `pause_job` or `recover_stale_job` (the *Resume* button of a
paused job is therefore without effect: it sets autoRun, and the effect asks for
`running`). Every reference is resolved (one that is not makes the next plan a
global rebuild), and the dependencies between units are the same at every revision:
what a plan misses, it misses although no dependency has changed.

### ArchaeologySynthesis

`cache[k]` and `attempts[k][n]` are the two tables, `rule[k]` says whether the
rule of a packet still has its template's clauses or those of the model,
`called[k][n]` counts what the provider sees, and `caller[c]` is a command: its
next step, the outcome of its last attempt, the flag and what its watcher saw.
The job is a row of the store and moves by the store's actions
(`finalize_synthesis_catalog`, `request_cancel`, `acknowledge_cancel`, ...).
`ActiveActor` and `AccountingActor` are the two modes of
`validate_persistence_actor`; recording an outcome is allowed while a job is
being cancelled, storing an answer is not. `DbLocked` holds while a command is
between two transactions under one lock (settle and acknowledge; store or read
an answer and materialise it); `continue_overtakes` ignores it because
`continue` has its own connection. `watch_fails` is a watcher that cannot read the
job or whose heartbeat is refused: to it the job is lost. It draws on the budget of
crashes.

Abstractions. The owner token is the job's and thus the same for every command,
so the owner column of the cache tells no two commands apart and is left out.
Deadlines use the monotonic clock and reservations the wall clock: a call ends
within 90 s and a reservation lapses after 120 s, so a reservation lapses under a
live caller only if the machine sleeps (`MaySleep`). `transient` stands for a
failure or a timeout that is retried, `permanent` for any failure that is not. A
command without consent ends before it reserves. Requests, responses, prices and
the provider adapters are data.

### VerifySingleton

`lease` is the file at `leasePath` (who created it, whether it is written,
whether it is older than the grace), `sock` the socket file, `at[p]` the next
system call of process `p`, `saw[p]` the owner it read, `tries[p]` the round of
the loop. Every system call of `acquireVerifySingleton` and
`releaseVerifySingleton` is an action, since other processes run between any
two. The lease is created exclusively and written afterwards; in between it does
not parse, and `fileAge` decides.

Abstractions. A process stands for its owner token, its pid and its start
identity (the code compares them so that a reused pid is no owner). The checks
of owner and mode of the files are left out, every process being the same
user's. `ageLease` lets only the lease of a dead creator grow old: a living one
is assumed to write one line within two seconds. `RacingRecovery` says whether
several processes may meet one abandoned lease; when it is `FALSE`, `start` and
`crash` do not create that situation, and `singleton_race` shows what happens
when they do. `removeOwnedSocket` is one action although it calls lstat and unlink:
both calls end alike on a missing file, so it acts when the unlink does, or when
lstat finds nothing; its refusal of a foreign file is left out with the other checks.

### WarmRuntime and VerifyDaemon

`server` and `browser` are the fields of the two supervisors, `procs` the
processes of the app server that live, named by their generation; `serverJob`
and `browserJob` say what the transition in flight awaits. A caller that joins
it is in `waits`. `serverExits` is the exit event with everything that runs in
the same turn of the event loop: the handler, the transition that awaits the
exit, and the runtime's own stop. `stopRuntime` is not a transition and waits
for none, as in the code. `pin` is the differential checkout of Chromium.

`run[r]` is a run between two awaits: `want` the version of the sources the
client asks about, `hash` what the first hash saw, `ran` what every page of the
scenarios was served (version and generation), `dirty` the watch, `limited` a
limitation of confidence, `abort` the signal. `submit`, `cancel`, `drop`
(disconnect or deadline) are what the client and the timers do; the steps of
`#verifyChangedWithinDeadline` follow one another from `collect` to `finalize`.
`verdict` is one step since no await separates reading the watch from the
result. `host` is `VerificationDaemonHost`: start, up, drain, stop, released or
failed.

Abstractions. Changed paths, configuration and scenario manifest are one version
of the sources, and hashes and change-set identities are equal when versions are;
an edit reaches open watches at once. `browse` (a scenario's page load) is
external; a warm app server is taken to serve the version on disk at once, although
nothing in the code waits for its hot reload to have caught up. `browserClosed`
gives up whatever Chromium is owned, while the code first compares it with the one
it closed: no launch is under way then, TLC finds on the instance of `daemon_runs`,
so the two are the same. A verify run's reservation in the artifact store is present only as the
refusal of a second verify run; while another run finalizes, the refusal may or
may not happen, since the code looks for two names one after the other. It may also
come for any other reason (a reservation left behind, a failing disk).
`restart()` has no caller; start, stop and abort paths that differ only in their
report are one action. A host that failed is not retried.

## 3. Runs

| Run | Instance | States | What it shows |
|---|---|---|---|
| `jobs_catalog` | 2 jobs, 2 generations, 2 revisions, 1 unit | 314k | the store implements `ReadyCatalog`; pointer, lease and content are consistent |
| `jobs_lease` | 1 job, 2 owners, 3 timestamps, 1 unit | 11k | recovery, heartbeat, pause, cancellation and late writers under moving clocks |
| `refresh_sequential` | 1 thread, 3 jobs, 4 revisions, 4 units, 1 copy, 1 reference, 1 cancellation | 619k | plans cover what changed, what refers to it and what copies it and was parsed for the ready generation, over scoped and no-op refreshes, reuse, cancellation and cleanup |
| `refresh_overlap` | 2 threads, 1 job, 1 fault, remounts, fairness | 123k | no stage without its output, nothing unread is published; without a fault settled views stay, the panel stops, a cancellation is carried out |
| `refresh_interrupted` | 2 threads, 1 fault | violation | finding 1 |
| `refresh_scoped_plan` | 1 thread, 3 jobs, 3 revisions, 4 units, no fault | violation | finding 2 |
| `synthesis_overlap` | 2 commands, 1 key, 2 attempts, sleep, 1 crash or failure of a watcher | 654k | ordinals are called once, answers and catalog rest on successes, settled stays, a cancellation wins |
| `synthesis_settles` | 1 command, 3 keys (one ineligible), 2 attempts, fairness | 33k | commands return, one packet is materialised, a cancellation settles what it meets |
| `singleton` | 3 processes, 3 rounds, fairness | 10k | lease and socket name the living owner; leftovers are recovered |
| `singleton_race` | the same, racing recoveries | violation | finding 3 |
| `daemon_runs` | 1 verify run, 1 dry run, 2 versions, 2 edits, 1 recovery | 2.6M | no process is lost, recoveries are bounded, a pass is fresh, an aborted run does not pass |
| `daemon_orphan` | the same | violation | finding 4 |

Why the bounds suffice. *Archaeology:* a second job and a second generation are
needed to replace, to cancel next to a ready generation, and to clean up; for those
a third adds nothing since at most one job is active. The work plan needs three: one
that indexes everything, one that clones a dependent, and one whose plan is computed
from what the second left. Two threads let
one command act on what the other has changed; three continue commands add
nothing a second does not do, because every fence is pairwise. Four units are a copy
(`u1` of `u2`) and a reference (`u4` to `u3`), the least in which a change next to a
copy clones it; `BlobEdited` makes `r2` change `u3` alone, `r3` change `u2` as well,
and `r4` nothing, which is a no-op refresh. `MaxCancels` bounds the jobs the user
cancels. `ParseBatch` below the number of units makes a parse stage need several
commands (32 in the code). `CleanupBatch = 1` makes a batch smaller than the candidates. One fault
is enough for finding 1, and finding 2 needs none. `MaxTime = 2` allows a stale threshold strictly
between two writes.

*Synthesis:* two commands let one take the other's reservation over; two
attempts (`MAX_ATTEMPTS` is 3) let the retry of the late caller meet the ordinal
of the one that took over, and let a takeover find the attempts exhausted. Two
eligible keys are the least that compete for the single transaction that leaves
the stage. `synthesis_settles` has one command at a time, since two commands for
two packets do not settle (section 4), and no crash, after which nobody is left
to settle anything.

*Daemon:* three processes are one that left something behind, one that recovers
it and one that arrives meanwhile; the three rounds are the code's. One verify
run is all that passes the reservation; the dry run is the second caller of the
runtime, whose recoveries overlap with the first's. Two edits allow one that is
taken back. `MaxRecovery = 1` is the product's default and the most the
configuration admits.

`CHECK_DEADLOCK FALSE` is set where the instance ends: ids are used up by one
job or run, every job is terminal, every process has exited, or the host has
released the repository.

Fairness. `FairRefreshSpec`: a thread that can take its next transaction does
(`WF` of `Command \/ refused`), since blocking threads run to their end;
promises are delivered (`WF` of `Answer`); the 40 ms timer fires while the panel
drives a job (`WF` of `auto_continue`); the query of a mounted panel is answered.
Users, HEAD, remounts, faults and crashes owe nothing. The two liveness
properties of `refresh_overlap` speak of behaviours without a fault
(`Uninterrupted`), because one fault is enough to break them (finding 1, and
the observations below); its safety properties hold with the fault. `FairSynthesisSpec` lets every
running command and every watcher go on (`WF` of `Call` and of `watch_owned_job`
per command): both are tasks of the async runtime, and the attempt timeout
bounds the provider. New commands, cancellations, lapses and crashes owe
nothing. `CommandsReturn` is checked with one command at a time: several
commands wait on the mutex of the connection, which promises no order.
`FairSingletonSpec`: a process that is not killed goes on with the acquisition
or the release it has begun; nobody has to start or stop a daemon. No liveness
is stated for the daemon's runs and host: each of their awaits is bounded by a
timer, so that "it ends" would restate that timers fire.

## 4. What the runs found

1. **A refresh interrupted before its plan is checkpointed cannot be resumed**
   (`refresh_interrupted`). `continue_refresh` leaves a job in the inventory
   stage as it is; only the command that started the job prepares it. The panel
   polls it every 40 ms. The manual says an interrupted job resumes from its
   checkpoint.
2. **A scoped refresh loses the copies of what it clones** (`refresh_scoped_plan`).
   `clone_unaffected_ready_facts` empties the lineage of every cloned unit, the
   linker re-emits only lineage that is there, and the include, copybook and macro
   rows of the new generation come from that column alone. So: a full index stores
   that P copies C; a refresh of an unrelated unit clones both; C changes, and the
   plan is C without P, whose old facts are cloned again. It takes one command at a
   time and no fault. What is left is `PlanCoversRefreshed`, which
   `refresh_sequential` checks: references are always followed, copies as long as
   the dependent was parsed for the ready generation. Even this needs that nothing
   comes between the transaction that leaves the derive stage and the one that
   stores the rows (`refresh_command.rs:326`): after a crash there, or when another
   continue overtakes the command, the rows stored before parsing stay, which hold
   nothing, and the next plan is the changed units alone.
3. **Two daemons may own a repository** (`singleton_race`). A process that found
   the lease abandoned unlinks whatever file is at the path by then. If two
   recover the same lease, the slower one removes the lease the faster one has
   created since, and creates its own.
4. **A shutdown may leave a process behind** (`daemon_orphan`). A run aborted by
   the shutdown leaves the transition it asked for in flight. `stop()` waits for
   no transition; if this one owns no process yet, the host releases the
   repository and the transition then launches the app server or Chromium.

Observations without a run, not stated anywhere as promises:

*Archaeology.* After the publication the panel stops at once since the
generation is ready, so the job stays in its cleanup stage, and a later Index is
refused until it is continued after a remount or cancelled; an Index that is
refused because of an active job has by then moved the registered revision, so
that job's publication is refused. A cancel command interrupted between its two
transactions leaves the job `cancelling`: a later Cancel only reads it, the panel
continues only running jobs, and it blocks every new refresh
(`UninterruptedCancelSettles` holds without faults only). With a fault, a status
query or a second cancel may be answered so late that the panel goes back from a
final state.

*Synthesis.* A cancellation between the last look at the job and the storing of
the response settles nothing: the store refuses, the command returns, the
reservation stays pending and the job `cancelling` (`CancelDuringCall` speaks of
the cancellations before, and of those by `cancel_business_rule_synthesis`: the
panel's own cancel acknowledges at once, the command then finds its job lost and
leaves its reservation pending until it lapses). Two commands for two packets both see a cancellation;
the first acknowledges it and the second, which finds the job gone, leaves its
reservation pending. Only one packet per generation can be materialised, since
its transaction leaves the stage. A caller that wakes up after its reservation
was taken over may settle it for the new caller, whose own answer is then refused.

*Daemon.* A cancellation accepted while the result is being retained does not
change it (`finalize`); `daemon.test.ts:463` says "cancels an active run and never
converts it into a pass", which `AbortedNeverPasses` shows of every abort before
the verdict. A creator that needs more than two seconds to write its lease loses
it. When the grace period of the drain elapses, `stop()` throws and
`onShutdown` (`daemon-host.ts:53`) does not handle the rejection.

*Retention*, from reading it: a finalizing run that fails renames its claim back
over a reservation made between `reserveRun`'s look at the two names; the
reservation of a run that crashed refuses every verify run until it is
`maxAgeDays` old; of two cleaners of an expired reservation, the slower one may
remove the file of a new run; a `.cleanup-*` directory left by a crash is not
cleaned; an error in `requestForChangeSet` after `reserveRun` leaves the
reservation behind (`daemon.ts:478`, outside the `try`).

## 5. Proofs

Proved by TLAPS for all sets of jobs, generations, owners, revisions, units,
threads, commands, packets, processes, runs and versions, from the named
assumptions on the constants (`JobsAssumption`, `ReceiptAssumption`,
`RefreshAssumption`, `SynthesisAssumption`, `SingletonAssumption`,
`RuntimeAssumption`, `DaemonAssumption`: the null values are not ids, the bounds
are naturals, the callers of the runtime are the runs and the host). One
kind of hypothesis beyond them appears, where the theorem fails without it: the
theorems about ownership of the lease assume `~RacingRecovery` (finding 3), the one
about the work plan assumes `Undisturbed`, one thread and `MaxFaults = 0` (the last
sentence of finding 2). Every
invariant below was checked by TLC on the instances of section 3 before it was
proved.

| Module | Theorems |
|---|---|
| `ArchaeologyJobsProofs` | `JobsTypeCorrect`, `ReadyPointerCorrect`, `LeaseCorrect`, `PublishedCorrect`, `CancellationCorrect`; the steps `FinishedJobsStay`, `HeartbeatsAdvance`; `JobsImplementCatalog` |
| `ArchaeologyRefreshProofs` | `RefreshImplementsJobs`, `RefreshKeepsCatalog` |
| `ArchaeologyStagesProofs` | `RefreshTypeCorrect`, `StagesComplete`, `PublishedComplete`, `RefreshImplementsCatalog` |
| `ArchaeologyFaultFreeProofs` | the step `SettledViewsStay`; for one thread without faults `PlanCovers` |
| `ArchaeologySynthesisProofs` | `SynthesisTypeCorrect`, `CalledOnce`, `AnswerRecorded`, `CatalogHasAnswer`, `SynthesisUsesStore`; the steps `SettlementIsFinal`, `CancellationWins` |
| `VerifySingletonProofs` | `SingletonTypeCorrect`; without racing recovery `OwnershipKept`, `OwnerUnique`, `SocketOwned` and the step `LiveLeaseSafe` |
| `VerifyDaemonProofs` | `ServerOwnedCorrect`, `ReadyIsOwnedCorrect`, `RecoveryBoundedCorrect`, `CheckoutPinnedCorrect` |
| `VerifyDaemonRunProofs` | `PassedIsFreshCorrect`, `DaemonTypeCorrect`; the step `AbortedNeverPassesCorrect` |

**Job store.** The inductive invariant is

    JobsInvariant == TypeOK /\ CancellationRecorded /\ ReadyPointerConsistent
                       /\ LeaseConsistent /\ PublishedIntact

The last three parts are not inductive alone. A publication keeps the pointer right
because the publisher's generation is staging, which `LeaseConsistent` says; the
lease is kept by cleanup because cleanup spares generations of active jobs; a
published generation stays intact because writers need an active job in a stage
that still holds a staging generation. The proof has one lemma per action or
family of actions and conjunct, joined in `StepInvariant`.

**Store and catalog.** `JobsImplementCatalog` (`Spec => ImplementsCatalog`) is
the refinement the run `jobs_catalog` checks. Only a staging generation is a draft
or sealed and only one exists (`OneStaging`), so every transaction that leaves the
status and the revision of the generations alone seals or unseals that one, or is
a stutter, whatever it does to jobs and content (`InsideStep`). The transactions
that register, start, publish, end or clean up are mapped one by one.

**Commands and store.** `RefreshImplementsJobs` (`RefreshSpec => Spec`): each
transaction of a thread, cleanup included, is a step of `Next`, everything else
leaves the rows alone. The arguments must be ones `Next` admits, so the invariant
is `JobsInvariant` with `WorkersOK` (what threads remember names jobs, generations
and units). `RefreshKeepsCatalog` and, with the previous refinement,
`RefreshImplementsCatalog` carry pointer, lease, content and the catalog's promise
over to the commands, for any number of threads and faults.

**Stages.** `StageOutput` says what a stage has to hold when it is left, whichever
of several overlapping commands ran it. It is not inductive: the clone of prior
facts and the work plan check no stage, and a late one would put facts or work
behind the linker. `PreparationOK` excludes it: the thread that started a job is
the only one between `start` and the checkpoint of the plan, and until that
checkpoint the job, unless cancelled, stays in its inventory stage with the
generation the thread remembers. `ContentOK` strengthens `StageOutput` by what is
not there yet: nothing linked before the link stage, no late facts. `StagesComplete`
and `PublishedComplete` follow, the latter because a publication starts from a
generation for which `ContentOK` holds at the last stage.

**Settled view.** `SettledViewStays` is about answers on their way. `ViewInvariant`
says that whoever is about to tell the panel a finished state tells the truth, that
the panel drives a job only while it shows it as running, and that a job in
`cancelling` has a thread between the two transactions of `cancel_refresh`. Finished
jobs stay finished (`FinishedStep`), so a true answer cannot turn false on its way;
an answer that is not finished reaches the panel only from the poll it still waits
for, which it has given up when it shows a finished job. All of this but the second
is claimed only while `faults = 0`: a cut-off cancel leaves the job cancelling.

**Work plan.** `PlanCovers` is about `PlanCoversRefreshed`, the part of
`PlanCoversDependents` that finding 2 leaves. A plan is a closure over the stored
rows. `Needed(g)` are the rows generation `g` must have: all references, and the
copies of the units parsed for it (`RefreshedFor`). `DependenciesStored` says that
the ready generation has them, and that one past the derive stage has them or the
thread is just about to store them. That storing yields them is `LineageInvariant`
(in `ArchaeologyStagesProofs`, for any threads and faults): every unit of a job's
plan that is no longer pending has its lineage, and nothing is pending in a ready
generation. The closure is monotone in its rows, so the units a thread prepares
include what is due (`Follows`), and what is due stays until the checkpoint as only
a publication changes the ready generation. With a second thread or a fault,
`DependenciesStored` is what breaks.

Both arguments need that a command which can go on is not refused: a refusal of
`continue_derived` would lose rows, one of `cancel_acknowledge` an acknowledgement.
`refused` therefore names the steps that always can (`Matches`, the conditions under
which a later transaction of a command finds its row as it left it) beside
`~ENABLED Command(w)`, which the prover leaves uninterpreted. For TLC the first
follows from the second, and the state spaces are the same with and without it.

**Synthesis.** No lock covers the call of a model, and a lapsed reservation may be
taken over while its first command still waits, so the argument is about the
durable rows. `SynthesisInvariant` says, in `CallOK`: while the job is in the
synthesize stage, a command between the insertion of its attempt row and its
settlement finds that row pending, and has called the provider if and only if it
is past the call. `Distinct`: no two commands are there for the same key and
ordinal. `Accounted`: a call that was made has its row as long as the reservation
can be served. The stage is left once and never entered again (`StoreMove`);
cleanup, the only step that deletes rows, comes later and takes a reservation with
its attempts. From this `CalledOnce` (`OneCallPerAttempt`), `AnswerRecorded`
(`ReadyHasSuccess`), `CatalogHasAnswer` (`CatalogBacked`) and the action
properties `SettledStays` and `CancelWins` follow for any number of commands that
sleep, overtake each other or end with the process. `SynthesisUsesStore`: every
step of synthesis is a transaction of the job store, so its invariant holds there
too.

**Singleton.** Types hold without a hypothesis. For the rest `Uncontended` says
that at most one process meets an abandoned lease; `Findings`, that what a
recovering process read is still so when it unlinks (its owner is dead, the lease
is still that owner's or still unwritten and old); `LeaseHeld`, that the file
belongs to whoever believes so; `SocketGone`, that whoever is about to unlink the
lease has removed the socket. Without `Uncontended`, `Findings` is what breaks:
that is finding 3.

**Supervisors.** The invariant is `ServerInvariant` (the processes that live
are exactly the owned child; a launch is on its way only while there is none; it
has been paid for by an attempt), `BrowserInvariant` (the same of Chromium, and a
held checkout excludes a recovery in flight, and the other way round) and
`Untouched`: before the host starts, nothing has used the runtime. The third is
needed because `start()` launches without looking. Every step of the daemon is a
step of the runtime, an `ensureReady`, a start or stop, a checkout, or leaves the
runtime alone (`RunSteps`).

**Runs.** `RunsOK` adds what a run has seen (`Sound`): while it
executes, the generations of its pages lie between the one it checked out and the
current one; generations only grow (`GenerationsGrow`), so if the check after the
run finds the one it started with, all pages came from it. As long as the watch
is clean all pages were of the version on disk, because an edit marks the watch;
the second hash then compares that version with the first. `DaemonTypeCorrect`
needs the same invariant, since that generations stay in their range is the bound
on recoveries.

Only model-checked are the liveness properties (`UninterruptedRunSettles`,
`UninterruptedCancelSettles`, `CommandsReturn`, `CancelDuringCall`,
`StaleLeaseRecovered`), which rest on fairness. Every invariant and every action
property of a passing run is stated by a theorem.

## 6. Not modelled

`PROJECT.json` gives the reason for each component of the inventory that has no
module. Within the modelled ones:

- store and refresh: parser, schema and configuration drift, removed paths and
  size limits of the invalidation planner; the counters of completed units;
  error texts and progress notices; dry runs of cleanup;
- singleton: ownership and permission checks of files and directories;
- daemon: IPC framing and limits on connections, the health report, the scenario
  runner behind its outcome, loaders of configuration and manifest as data;
- retention is a component of its own. Its interesting properties (a
  reservation is kept until its run ends, an unfinished bundle is not evicted)
  need at least two daemons or a cleanup command beside one, and the races
  described in section 4 violate them; a useful module has to say which
  concurrent uses are supported.

## 7. Plan

1. Retention: reservations and bundles with two users of the directory, first
   the sequential contract, then each race of section 4 as a run of its own.
2. Differential scheduler and cache leases.
3. Managed work; grants of the MCP sidecar; publication of the structural graph.
