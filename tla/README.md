# Verification of irom-tpu-tools

irom-tpu-tools is a job queue for spot TPUs. Users submit jobs with `tpu create`;
a single scheduler process asks Google Cloud for a queued resource (QR) per job,
follows it, and runs the job again when the capacity is reclaimed. There is no
database and no server: a job is a directory of small objects in a GCS bucket,
which users, the scheduler and the TPU workers read and write one object at a
time, without locks or transactions. Whatever the queue promises (a job runs at
most `max_attempts` times, capacity is given back, quotas hold, a cancellation is
seen through) has to come out of the order in which those objects are written,
with a process that may die between any two writes and calls that may fail. That
protocol is what this directory specifies, model-checks and partly proves.

Paths below are relative to `src/`; `scheduler.py` and the like are in
`src/irom_tpu_tools/queue/`.

## 1. Inventory

| Component | State | Operations | Talks to |
|---|---|---|---|
| Scheduler loop (`scheduler.py`) | `jobs`, `queued_resources`, `_create_retry_not_before` in memory; `status.json` and `scheduler_state.json` in GCS | `run_once`: scan, sync keys, cancel, poll, complete, retry, schedule, reap, reconcile, publish | job directories, `gcloud` |
| Job records (`types.py`) | `JobSpec`, `JobState`, `AttemptRecord` | read and written whole | scheduler, CLI |
| Job commands (`cli.py`) | none of their own | `tpu create`, `rerun`, `delete`, `retry` write a spec, a status or a marker | job directories; the snapshot |
| Startup script (`startup_script.py`) | per worker: progress, exit code; per attempt, shared by all QRs requested for it: barrier, `claimed`, `heartbeat`, `succeeded`, `failed` | setup, barrier, claim, run, report | attempt directory |
| GCP backend (`backend.py`) | none | create, describe, delete and list QRs, VM health, SSH metadata | `gcloud` |
| Google Cloud | QRs and VMs | grants, suspends, deletes asynchronously | external |
| Interactive SSH keys (`interactive.py`, `scheduler.py:576-638`, `cli.py`) | key requests in GCS, `ssh-keys` metadata of VMs | request, sync, propagate | scheduler, admin CLI |
| Admin cleanup (`cli.py:1012-1066`) | none | lists QRs, deletes those that the snapshot does not name and those that look idle | snapshot, `gcloud`, job directories |
| Scheduler lock (`cli.py:44-76`) | an flock on a local file | one scheduler per host | |
| Focused scheduler (`scheduler.py:127-151`, `711-733`) | as the loop | the loop for one user: reads the others' records again, leaves out reaping and reconciliation | other schedulers |
| Configuration, packaging, storage audit, SSH transport, admin views | none that outlives a call | parsing, tarballs, reports, subprocesses | |

What is hard here, by component (each point is a hazard of `PROJECT.json`, at the
line where it bites):

* *Loop, persistence.* Memory is changed, then `status.json` is written and the
  result of the write ignored (`scheduler.py:153-158`); a QR is requested before
  anything names it (`:528-552`); a preemption deletes the QR before it saves the
  record (`:437-447`), a finished job is saved before its QR is deleted
  (`:239-280`). The process may die at each of these points, and its successor
  knows only what `status.json` says.
* *Loop, reading.* QRs are found by name, markers and heartbeat by attempt
  number; the two must stay in step over retries, lost writes and restarts. Some
  failed reads are told from absent objects and some are not.
* *Loop, order.* QRs are polled before markers are read; jobs are placed in
  (priority, submission, id) order under two kinds of limits.
* *Reconciliation* deletes whatever is not in `queued_resources`.
* *CLI.* Decides on a snapshot up to a minute old; writes spec and status one
  after the other; leaves markers that stay until somebody deletes them.
* *Focus, lock.* The lock is local, so two schedulers on two hosts may serve the
  same directories, each with a memory of its own of jobs that the other changes.
* *Admin cleanup.* Passes sentence on QRs after reading a snapshot, and executes
  the sentences one by one while the scheduler goes on.
* *Startup script.* A barrier built from object listings; several workers that
  may fail at once; a worker that never arrives, or does not know its number; the
  QR of a second request for the attempt, which meets the markers of the first.
* *SSH keys.* Two programs read, extend and write back the same metadata value,
  and a request may be replaced while it is being served.

A correct queue: an attempt is closed once and on evidence of its own; the QR a
job names runs that job's next attempt; capacity held is known, capacity not
needed returns; limits and order hold; nobody's healthy run is taken away; what a
user asks for happens; a scheduler keeps to the jobs it attends to; no worker starts
before there is one set up for every number, nor, on the only QR of an attempt, before
all the others are, and there is one worker 0.

## 2. Modules

| Module | Models | Kind |
|---|---|---|
| `QueueState` | job directories, QRs, the scheduler's memory; records and how they are read | state, shared |
| `QueueEnvironment` | CLI job commands, Google Cloud, the startup script as the scheduler sees it | environment |
| `QueueScheduler` | the scheduler process, with failing calls and death; `Spec` composes it with the environment | component and composition |
| `JobLedger` | what `status.json` promises a reader | abstract specification |
| `QueueProperties` | invariants, action properties, refinement mapping to `JobLedger`, fairness and liveness | properties |
| `AdminCleanup` | `tpu admin cleanup --yes` beside scheduler and environment | component and composition |
| `SplitSchedulers` | a second, focused scheduler on another host | composition |
| `MCQueueScheduler`, `MCSplitSchedulers` | values of function-valued constants for TLC | models |
| `QueueSchedulerProofs` | type correctness of `Spec` | proofs |
| `QueueRecordProofs` | records, QRs and books fit together | proofs |
| `QueueLedgerProofs` | verdicts rest on evidence; `status.json` implements `JobLedger` | proofs |
| `QueueCapacityProofs` | what polling and reconciliation do not take from a job; one tracked QR per attempt; what a focused process leaves alone | proofs |
| `QueueLimitProofs` | quotas, chip limits and the order of scheduling | proofs |
| `QueueCompositionProofs` | what is left of all this beside an admin's cleanup and beside a second scheduler; the cleanup's own promise; the startup script in the scheduler's world | proofs |
| `StartupScript` | what the startup scripts of the QRs of an attempt show to the scheduler | abstract specification |
| `SetupBarrier` | the workers of all QRs of one attempt: setup, barrier, claim, reports | component |
| `SetupBarrierProofs` | type correctness and safety of the barrier; it implements `StartupScript` | proofs |
| `SshKeySync` | key requests, the scheduler's sync pass, `tpu admin ssh-keys` | component |
| `MCSshKeySync` | values of function-valued constants for TLC | model |
| `SshKeyProofs` | types; keys are kept, served and spread | proofs |

### From code to actions

*Records.* `JobState` becomes `[status, attempt, log, qr, qrState]`: the fields
the scheduler branches on. `qr = 0` and `qrState = "none"` are Python's `None`;
`ABSENT` is a missing file or a job that is not loaded. The attempt log keeps
number, QR and outcome of each `AttemptRecord`; setup and application errors are
one outcome, because the scheduler treats them alike. A QR's name, which contains
random digits, is its position in `qrs`, the sequence of all QRs ever created.

*Job directories.* `filed` says which of `spec.json` and `status.json` exist: "spec"
between the two writes of a submission, "torn" when a deletion has stopped half-way
with `spec.json` still there. `Listed` are the directories with a `spec.json`;
`canceled`, `retryAsked`, `claimed`, `succeeded` and `failed` are the markers, the
last three by job and attempt as in `attempts/attempt-N/`. `retryAsked` remembers
how many attempts the user had seen, which the real marker does not.

*The pipeline.* `run_once` is a loop over stages (`phase`), a stage a loop over
jobs or QRs (`jobsLeft`, `qrsLeft`). A visit is one action, or two where the
handler writes in two places: a read with the decision taken on it, then (`due`)
the writes that follow. So `HandlePreemption` charges the attempt in memory and
deletes the QR, and `SaveStatus` writes `status.json`; `CreateQueuedResource`
makes the QR, and `AdoptQr` enters it in the books; `FinishJob` writes the verdict
and `CleanupFinished` deletes the QR. Users, cloud and workers move between any
two actions, `Crash` and `Abort` (an exception caught by the loop, `cli.py:1213`)
may strike there.

*Failing calls.* Each kind of call that can fail is a member of `AllFaultKinds`,
with what the code makes of the failure: a list that fails ends the iteration
(`MayProceed`), a describe that fails is a QR that has disappeared, a marker that
cannot be read does not exist, a write of `status.json` that fails is ignored, a
create that times out may have been accepted, a refused deletion leaves the QR in
`queued_resources`, with its VM deleted or not (`CleanupResources`, `WithoutVm`: the
two are deleted by two calls, and the missing VM alone is noticed by nobody, since
`get_tpu_vm_status` knows no state of it, `backend.py:271-298`), a recursive deletion
leaves any part of the directory (`ReapFails`). A run names the kinds it allows and how
many may occur.

*What the CLI sees.* A command reads the published snapshot, and scans the job
directories only when it cannot (`Scanned`, under the happening "blind"): `Views` is
what it may decide on. A `View` of a record is its status and attempt, with the
name of its QR where an admin command looks at it.

*Focus.* The process started after `k` crashes has the command line `Focus[k]`: a
user, or "all". `Attends` is the filter that the stages put on jobs and on QRs
(`JobsFor`, `QrsFor`). A focused process reads the records of everybody else anew in
each iteration (`RefreshState`, where the read may fail and the old record stays),
looks for cancellations of anybody's job, and neither reaps nor reconciles.

*Two schedulers.* `SplitSchedulers` runs `QueueScheduler` a second time over
variables of its own (`There == INSTANCE QueueScheduler WITH mem <- theirMem, ...`);
the two share what is in GCS and in Google Cloud, and no lock, since the lock is a
file on each host. Environment and admin are those of the first. `StartThere` starts
the second one at any time, beside whatever the first, the admin and failing calls are
doing (`cli.py:45-76` asks for nothing but the local lock). `AtFirst = TRUE` is a bound
for TLC, used in one run and in no theorem.

*Admin cleanup.* `AdminCleanup` reads the entries (`Views`), lists the QRs, looks at
each of them, and only then cancels and deletes, one call after the other, so that
every sentence may be outdated when it is executed. A list or probe of `claimed`
that fails spares a QR, as `Spare` may always; a heartbeat that cannot be read is a
missing one, which counts as idle. `--idle-minutes` is compared with the heartbeat's age
as it is (`cli.py:1048-1049`): where it is less than the interval of the heartbeat, the
happening "impatient", an attempt may be `Silent` while it beats.

*Time.* There are no clocks. A timeout may fire whenever nothing renews its clock:
`NoClaimTimeout` while `claimed` is absent, also when a worker has just reported a
failure (nothing in `_check_active_timeouts` looks for it), `HeartbeatTimeout` while
worker 0 is not beating. One case is excluded: a heartbeat that ended with a success was
fresh when the marker was written; markers are read every 30 s and the timeout is 10
minutes, so it does not fire before the marker is read, unless iterations were cut short
before they read markers: `late`. `SubmitStatus` is the second write of a submission. It
is given up after 15 s (`backend.py:503`), and scans are 30 s apart, so it can come at any
moment of the first iteration that has seen the spec, also after that one has published a
snapshot, and is over when the next begins to scan, or the process has died and come back
(`RestartSec=10`, and it had requested a QR or written a snapshot before): `TimeUp`.

*The cloud.* A QR waits, is granted, may fall ill (ACTIVE with a stopped or
unhealthy VM), is suspended or fails, and is deleted asynchronously: a describe
reports DELETING like no QR at all, because `QRState` does not know that state.
`worker` is how far worker 0's script is: "off" before the VM, "boot" until it has
claimed, "run", "tail" when it has ended and the others may run on (and report a
failure), "over" with the VM. With `linger` it runs on, and writes markers, while its
QR is being deleted.

*One script, two models.* The scheduler's world has one `worker` per QR and sets of
markers; `SetupBarrier` has all workers of the QRs of one attempt. `StartupScript` is
what the two have in common: worker 0 of a QR claims, and only then may succeed; any
worker may report a failure, at any time; worker 0 may end without a word; the markers
are those of the attempt, whichever QR wrote them. `SetupBarrier` implements it
(`BarrierIsStartupScript`, with `WorkerZero` as the mapping), and `QueueEnvironment`'s
actions for the workers of the QRs of an attempt are its steps (`ScriptsRun`,
`OnlyScriptsRun`).

*The barrier.* In `SetupBarrier` each worker goes through setup, ready marker,
waiting, user command and report; worker 0 lists ready markers and writes the
release, with any worker vanishing, failing or timing out at any point, and a
failure report written in two steps (look for an earlier one, then copy). The
attempt's directory is named after job and attempt (`startup_script.py:66`), and a
second request for an attempt, after a crash, a lost write or a create that timed out,
clears root markers only (`scheduler.py:511-516`). So a host is a worker of a slice
(`Hosts == Slices \X Workers`, a slice is what one QR brings up), and the slices share
all markers: one that comes later, as any may, since a setup may take for ever, finds
what the others have left, and they may run side by side. `id` is
the number each worker takes itself to have, 0 when neither environment nor host
name tells (on the slices in `Unsure`, a constant so that a run can have both kinds), so
that there may be several workers 0 and none. Any `gsutil` call may fail: a listing is then empty (`Listings`), a look at a marker finds nothing, a
write that `set -e` sees ends the script, one inside the trap is ignored.

*SSH keys.* In `SshKeySync` a node's metadata is a set of lines. The sync pass lists
the requests, reads one, visits node after node (read, then write back what was read
plus the entry), and deletes the request if every node was provisioned. The admin
command reads all its nodes, plans, and writes node after node. Each read and each
write is an action, any call may fail (a failed write may have taken effect), and a
pass may break off anywhere. The two programs exclude each other unless `Overlap`;
a request is not replaced while it is pending unless `Reupload`. Order of nodes and
requests is left open. Keys that people remove by hand, and gcloud's own additions,
are left out.

### What is left out

The one-shot `--focus-job`; the root markers of older startup scripts; the `running` marker and
`startup_version`; labels, messages and times in records; the terminal-status branch of
`_handle_qr_state`, which is not reached, since a terminal job has no QR; the scan
guard of `_maybe_reconcile_orphans`, which repeats `run_once`'s. A failed probe for
`canceled` is a marker written a little later; a failed `get_tpu_vm_status` with
an answer that says unhealthy is a VM that falls ill a little later. In
`PROJECT.json` each component says what of it is modelled.

## 3. Runs

| Run | Question | Shown |
|---|---|---|
| `attempts` | Two attempts of one job, with suspensions, user retries decided on the snapshot, aborted iterations, a lost write, a refused deletion or a lost unmark | `VerdictsHaveEvidence`: every log entry names the QR of its attempt and rests on that attempt's marker. `HealthyAttemptKept`: a claimed, beating attempt is never given up. `StatusFileIsLedger`: `status.json` implements `JobLedger` |
| `restart` | Two attempts, a crash anywhere, a lost write or refused deletion, workers that linger, a submission in two writes | `CurrentQrFitsAttempt`, `HeldIsTracked`, `OneQrPerAttempt`, `ReconcileSparesJobs`; `StatusFileIsLedger`: also when what is loaded after a crash is older than what was decided |
| `contention` | Two jobs for one slot and one user limit, suspensions, an incomplete scan, a crash | `TypeOK`, `LimitsRespected`, `NoPriorityInversion` |
| `cancellation` | A cancellation that meets a job at any point, while the process may restart with another focus, a second scheduler may run on another host, and an admin cleans up, under fairness | `CancelHonoured`: for good, whoever writes the job's status besides. `RobbedJobsGoOn`: a QR deleted behind the scheduler's back does not leave its job waiting. `HeldIsTracked`: also for another user's job, whose record the refocused process reads again and again. `IdleCleanupSparesTheLiving`, `FocusKeepsToItsUser` |
| `recovery` | One attempt that may end in any way, one failing call of any of six kinds, a crash, reaping, under fairness | `ForsakenCapacityReturns`, `DeadAttemptsEnd` |
| `barrier` | Two QRs of one attempt, two workers each, those of one QR unsure of their number, every failure, under fairness | `TypeOK`, `EveryNumberReady`; `NobodyEarly`, `OneOfEachNumber`: of a QR beside which no other has got through a setup; `BarrierIsStartupScript`: together they show the scheduler no more than `StartupScript`; `BarrierEnds`: nobody waits for ever |
| `ssh_keys` | Two users, two nodes, an admin command between passes, two failures, under fairness | `TypeOK`, `KeysOnlyAppended`, `ServedMeansEverywhere`, `ZeroMeansSpread`, `RequestsServed` |
| `key_race` | Are keys never removed? (`README.md:190`) | counterexample to `KeysOnlyAppended`, with `Overlap` |
| `error_rerun` | Is a reported error terminal? (`README.md:289`) | counterexample to `ErrorsAreTerminal` |
| `claim_probe` | Is a failed probe told from an absent object? (`PRPL_ADMIN.md:373`) | counterexample to `HealthyAttemptKept` |
| `bad_record` | Is an invalid job skipped? (`scheduler.py:114`) | counterexample to `CancelHonoured`, under `FairSpec`, also for a CLI that reads the directories itself |
| `shared_barrier` | Does every QR wait for its own workers? (`README.md:294-298`) | counterexample to `SliceReadyFirst` |

`QueueProperties` states each property in words beside the lines it is about.

### Bounds, and why they are enough

* Jobs: one for everything about the life of a job, since jobs meet only in the
  limits, the order of placement and the scan; two, for one slot, in `contention`.
  Symmetry is not used: two jobs differ in rank.
* Attempts: two, the least with an earlier attempt whose markers could be mistaken
  for the current one's, a retry and an exhausted limit; one in `recovery`, where
  a crash and a lost request already give the attempt several QRs.
* Crashes: one, at any of the handlers' steps. Faults: one, of any kind the run
  names. Both together in `restart`, `contention` and `recovery`: the writes a
  handler makes are at most three, so a pair is what separates them.
* `Happenings` lists what users and cloud do in a run besides the usual; `Expirable`
  the jobs whose retention may end; no snapshot is published in runs in which
  nobody reads it (`Readers`).
* "blind" (a CLI that reads the directories) is in `bad_record`, where the scheduler
  ceases to publish. `attempts.cfg` with "blind" and without "abort" passes as well; with both it
  has over two million states.
* QRs need no bound: requests are made for attempts left, and repeated for one
  attempt only after a crash or fault.
* In `ssh_keys` two nodes are the least of which one can fail and the other not; two
  users have different keys in passing; one admin command and two failures; nodes
  start with any of a known key and a line that does not parse.
* Two slices in `barrier`, the least that share an attempt, with two workers each: a
  leader and a follower, or, on the slice in `Unsure`, two who both take themselves for
  the leader. `AlmostAll` shows that a count off by one is seen; the theorems hold for
  any finite set of workers and any sets of slices.
* In `cancellation` there is one job, with one attempt: what is asked is who writes
  its status and who deletes its QR, and two schedulers, a user and an admin already
  compete for both. One cleanup command per behaviour; one crash, at which the
  process comes back focused on somebody else; the second scheduler is started
  before the first submission, and from then on no call fails and nobody cleans up
  (`AtFirst`: with the second scheduler this run is about two processes, without it about
  one with an admin and a fault). Without this bound
  (`AtFirst = FALSE`, `Focus <- AnnAlways`, `Happenings = {"cleanup"}`, `FaultKinds =
  {"save"}`, `MaxCrashes = 0`, `SPECIFICATION SplitSpec` in `cancellation.cfg`) TLC
  confirms `HeldIsTracked`, `IdleCleanupSparesTheLiving` and `FocusKeepsToItsUser` too,
  and the theorems about them do not assume it.

### Fairness

systemd restarts the process (`contrib/systemd/irom-tpu-scheduler.service`,
`Restart=always`) and the loop catches every exception, so `WF_vars(Scheduler)`.
What an iteration may skip because its period has not passed (reconciliation every
5 min, the snapshot every 60 s, a timeout) is enabled again and again, not
continuously: strong fairness, since a clock that nothing resets passes its limit.
A backoff ends. Google Cloud completes deletions it has accepted. Nothing is
assumed of users, of workers or of capacity: a job may wait for ever, a worker may
hang. Crashes and faults are finitely many in a behaviour. In `cancellation` only
the loop of the first scheduler is fair and publishes again and again
(`LoopFairness`): the second scheduler may stop anywhere, the admin command may be
interrupted, and neither reconciliation nor the end of a backoff is needed. In `SetupBarrier`, a worker's
loop goes on from call to call and ends at its deadline, however often it polls in between
(`SF_vars(TimesOut(h))`); of setup, the user command and the writing of markers nothing
is assumed.

### Mutants

Beside some definitions stands a variant with a plausible mistake: another
attempt's markers are read (`ReadLastAttempt`), a recovered QR is only adopted
while provisioning (`AdoptedWhileProvisioning`), an attempt is recorded and not
counted (`ClosedUncounted`), an incomplete scan is acted upon (`ProceedAnyway`), a
focused scheduler attends to every job (`AttendsToAll`), a ready marker is named
after the host and not after the worker's number (`HostName`), and so on. No
specification uses them. Put in place of the definition they stand
beside, each makes TLC refute a property of a run (`mutants` in `PROJECT.json`), so
the property does depend on that line of code.

### Disagreements between code and documents

The five counterexample runs are `findings` in `PROJECT.json`. In short:
`error_rerun`, a worker reports an error, its QR is suspended before the markers
are read, and the job runs again; `claim_probe`, one failed `gsutil ls` past the
no-claim timeout gives up an attempt that is claimed and beating; `bad_record`, one
directory that does not parse ends every iteration of the whole queue;
`shared_barrier`, the second QR of an attempt passes the barrier on the markers of the
first, while one of its own workers is still in setup; `key_race`, a sync pass and an admin command overwrite each other's key.

The same models show more of the kind, by the same mechanism, without a run of
their own:

* `shared_barrier.cfg` with `FirstReportKept`, as a property, in place of
  `SliceReadyFirst`: two workers that fail together, or one whose look at the earlier
  report fails, and the second report overwrites the first (`startup_script.py:204`),
  against "preserves the first worker failure report" (`README.md:299`).
* `claim_probe.cfg` with `FaultKinds = {"describe"}`: one failed describe is "QR
  disappeared" and gives up a healthy attempt (`scheduler.py:332`).
* `error_rerun.cfg` with `FaultKinds = {"read"}`: a failure report that cannot be
  read while `succeeded` can turns an error into a success (`scheduler.py:194`).
* `contention.cfg` with `FaultKinds = {"save"}`: the final write of a finished job
  is lost, its slot is given on, and after a restart both jobs count as running
  (`scheduler.py:156`). So `LimitsRespected` is a property without lost writes.
* `ssh_keys.cfg` with `Reupload = TRUE`: a request that replaces one being served is
  deleted with it, its key on no node (`scheduler.py:630`), against "a request is
  deleted once the key is present on every configured interactive TPU" (`:585`).
* A retry sent again before the snapshot shows the first one is served after a
  failure nobody has seen: the marker names no attempt (`cli.py:521`). One that is
  taken up just before a crash is lost: its marker is deleted before PENDING is saved
  (`scheduler.py:303`). No document promises otherwise.
* When the last write of a finished job is lost, retention counts from what memory
  holds and may remove a record that `status.json` still shows as open
  (`scheduler.py:156`, `:671-679`): `JobLedger` lets any record expire.
* A cancellation that meets a job just finished stays in the directory, and cancels
  the job when it is retried (`scheduler.py:160`).
* `tpu admin cleanup` takes a QR requested since the snapshot for an orphan
  (`cli.py:1034`): its job goes on with another attempt (`RobbedJobsGoOn`). When
  an attempt has had two QRs (a create that timed out, a crash), the marker `claimed`
  of the one makes the other look idle while it waits, which the comment at
  `cli.py:1043-1046` means to exclude: `IdleCleanupSparesTheLiving` holds for QRs
  that are alone with their attempt. A heartbeat that cannot be read makes a beating
  attempt idle (`cli.py:1003`), and so do idle minutes below the heartbeat's interval
  (`cli.py:1048`).
* Two schedulers with different focus both take the last slot of a quota group, as
  each counts on the other's `status.json` (`scheduler.py:721`); `README.md:221-227`
  promises quotas for one scheduler.
* When Google Cloud refuses to delete the QR of another user's canceled job, a
  focused scheduler does not try again (`scheduler.py:318`); `README.md:226-228`
  leaves orphans to an unfocused run.
* `README.md:298` has the barrier report SETUP_ERROR after 30 minutes. The
  scheduler's no-claim timeout is of the same length and starts earlier, so it may
  close the attempt as INFRA first (`startup_script.py:72`, `scheduler.py:384`), also
  just after a worker has written `failed`.
* When two QRs run one attempt, two workers 0 may claim, and both may report a success
  (`startup_script.py:195`, `:243`): `StartupScript` has it, the markers are the same.
  A ready marker of the one also stands for a worker of the other that has vanished.

## 4. Proofs

TLC checks the instances of section 3; the theorems below hold for every value of
the constants: any set of jobs, users and groups, any limits, attempts, numbers of
crashes and failing calls.

| Theorem | Module | Says |
|---|---|---|
| `TypeCorrect` | `QueueSchedulerProofs` | `Spec => []TypeOK` for the scheduler with its environment |
| `QrFitsAlways` | `QueueRecordProofs` | `Spec => []CurrentQrFitsAttempt` |
| `HeldAlwaysTracked` | `QueueRecordProofs` | `Spec => []HeldIsTracked` |
| `VerdictsRestOnEvidence` | `QueueLedgerProofs` | `Spec => []VerdictsHaveEvidence` |
| `StatusFileKeepsLedger` | `QueueLedgerProofs` | `Spec => StatusFileIsLedger`, assuming `SlowIsAlone`: a submission in two writes meets no CLI that reads past the snapshot |
| `HealthyNeverGivenUp` | `QueueCapacityProofs` | `Spec => HealthyAttemptKept`, assuming no failing `describe` and `probe` |
| `ReconcileAlwaysSpares` | `QueueCapacityProofs` | `Spec => ReconcileSparesJobs` |
| `OneQrAlways` | `QueueCapacityProofs` | `Spec => []OneQrPerAttempt`, assuming no failing `reap` |
| `LimitsAlways` | `QueueLimitProofs` | `Spec => []LimitsRespected`, assuming finitely many jobs, no lost `save` and no `abort` |
| `OrderAlwaysKept` | `QueueLimitProofs` | `Spec => NoPriorityInversion`, assuming finitely many jobs, no failing `create` and no focus |
| `VerdictsBesideAdmin`, `LedgerBesideAdmin`, `HealthBesideAdmin`, `OneQrBesideAdmin`, `LimitsBesideAdmin`, `OrderBesideAdmin` | `QueueCompositionProofs` | the same of `CleanupSpec`, with an admin's cleanup beside the scheduler, under the same assumptions |
| `RecordsFitForBoth` | `QueueCompositionProofs` | `SplitSpec => [](CurrentQrFitsAttempt /\ HeldIsTracked)`, and the same of the second scheduler once it runs, whenever it was started and whatever fails |
| `FocusAlwaysKept` | `QueueCompositionProofs` | `SplitSpec => FocusKeepsToItsUser` |
| `CleanupSparesTheLiving` | `QueueCompositionProofs` | `SplitSpec => IdleCleanupSparesTheLiving`, of QRs that are alone with their attempt |
| `ScriptsRun`, `OnlyScriptsRun` | `QueueCompositionProofs` | a step of `StartupScript` for QRs of one attempt that are up is a step of the scheduler's environment, and conversely |
| `WorkersActAsOne` | `SetupBarrierProofs` | `Spec => BarrierIsStartupScript` |
| `TypeCorrect` | `SetupBarrierProofs` | `Spec => []TypeOK` for the barrier |
| `NumbersReady` | `SetupBarrierProofs` | `Spec => []EveryNumberReady` |
| `BarrierSafe` | `SetupBarrierProofs` | `Spec => []NobodyEarly` |
| `OneWorkerZero` | `SetupBarrierProofs` | `Spec => []OneOfEachNumber` |
| `KeyTypesCorrect` | `SshKeyProofs` | `Spec => []TypeOK` for the keys |
| `KeysKept` | `SshKeyProofs` | `Spec => KeysOnlyAppended`, assuming `~Overlap` |
| `DeletedMeansServed` | `SshKeyProofs` | `Spec => ServedMeansEverywhere`, assuming `~Overlap` and `~Reupload` |
| `ZeroIsSpread` | `SshKeyProofs` | `Spec => ZeroMeansSpread`, assuming `~Overlap` |

*Assumptions.* The queue's are in `QueueState`: `SpecAssumption` (what a `JobSpec`
says; jobs are ordered by distinct ranks), `AttemptAssumption` (`max_attempts` is at
least 1), `LimitAssumption`, `FaultAssumption` and `FocusAssumption` (the kinds of
values); the theorems hold for every focus, also one that changes at a restart.
`PartnerAssumption` has the second scheduler focused on a user. The
barrier's are that the workers are a finite set of numbers with a worker 0 (of the
slices nothing is assumed), and that no report is not a report; the keys', that known keys are keys. TLC evaluates these in the runs of the modules that state them.

*What single theorems assume besides*, and why they must:

* no failing `describe` or `probe` (`HealthyNeverGivenUp`): the code takes either
  failure for an answer (`claim_probe`);
* no failing `reap` (`OneQrAlways`): a directory that loses its `status.json` and
  keeps its `spec.json` is a new job, whose first attempt is that of the QR still
  tracked when Google Cloud has refused its deletion twice;
* no lost `save`, no `abort` (`LimitsAlways`): a job that memory has given up and
  `status.json` still has RUNNING comes back at a restart, when its room may have been
  given to another;
* no failing `create`, no focus (`OrderAlwaysKept`): a job whose backoff ends after it
  was passed over waits for the next iteration, and a focused process lets all other
  users' jobs wait;
* `~Overlap` (keys): `key_race`; `~Reupload` (`DeletedMeansServed`): the disagreement
  noted above, `scheduler.py:630`;
* `SlowIsAlone` (`StatusFileKeepsLedger`, `LedgerBesideAdmin`): see *Late submission*;
* the same holds for their namesakes `...BesideAdmin`.

TLC finds a counterexample to `OneQrPerAttempt` with three such faults, and to
`LimitsRespected` with one lost write or one abort and a restart.

*Types.* `TypeOK` of the queue is inductive: beside the shape of the variables it says
that every QR a record, a tracked set or a pending task names has been requested.
The proof has a lemma per action.

*Records, QRs and books.* Neither `CurrentQrFitsAttempt` nor `HeldIsTracked` is
inductive: an action that finishes what an earlier one decided (`AdoptQr`,
`HandlePreemption`, `CleanupFinished`) finds in `due` what to do, and a state in
which `due` asks to adopt another job's QR satisfies both and does not preserve
them. The inductive invariant is `Consistent`:

* `TypeOK`, `CurrentQrFitsAttempt`, `HeldIsTracked`;
* `OneHandler`: at most one task is pending, none between iterations;
* `DueFits`: a pending task fits the record it was decided on; a QR to be adopted
  was requested for this job's next attempt, a job whose QR is to be cleaned up has
  ended;
* `OrphansFit`: what is left to reconcile is not in `queued_resources`, so that
  reconciliation takes no job's capacity.

Two facts carry the steps. A QR's job and attempt never change once it was requested
(`SameAttempts`), so that a record that fits keeps fitting (`FitKept`). And two jobs
never hold one QR (`OwnQr`, because a QR knows its job), so that forgetting one job's
QR leaves the others' tracked (`HeldKept`). A restart loads records of `status.json`,
which is why `CurrentQrFitsAttempt` speaks of the file as well as of memory. Each
action has a lemma `...Keeps`, which shows the three conjuncts from these.

*Verdicts.* A task of the loop is chosen on a record and done later, with other actors
in between. `Orderly` adds to `Consistent` that neither goes stale: a job still to be
visited has the status its stage is about (`VisitsFit`), and a pending task fits the
record the job has now (`TasksFit`). An entry of OK or APP is then added only while the
marker of that attempt is there, and only reaping takes a marker back, whole or
half-way, which leaves the directory "reaped" or "torn".

*Ledger.* `Lawful` says what any step may do to the records of one job: leave them,
move an open job along (`Goes`), end an attempt (`Ends`), load, forget or submit, and
write what memory holds. Each action has a lemma `...Lawful`; the refinement then
argues about these six moves and not about the actions. Its invariant is `BooksFit`:
the record in memory and the one in `status.json` are each honest (as many entries as
attempts, numbered from 1, at most `max_attempts`, a status that the log justifies), and memory is
never behind: its log extends the file's, and a file that says SUCCEEDED or CANCELED
has the last word. So a lost write makes a later one report several entries at once,
and a crash brings back an older honest record, but neither takes an entry out of
`status.json`.

*Late submission.* A submitter writes `spec.json`, then `status.json`, and does not look
at what the scheduler has made of the job in between (`cli.py:271`). Only time keeps
the second write from replacing a record that has progressed: it is over when the
iteration that first found the job is (`TimeUp`). `Timely` says that this is enough. The
argument is one about the order of the stages (`FreshFits`, for a job whose second write
may still come). Polling comes before scheduling, so that a QR requested in this iteration
is not polled in it (`PollsFirst`), and no attempt is closed: the record that the late write
replaces has no entry. The snapshot is published last (`PublishesLast`), so that a
cancellation, which takes a job that the snapshot shows, comes after the stage that looks
for cancellations: the record is not CANCELED either. Then the next scan, or the death of
the process, finds the time up (`EndsInTime`). Beside a cleanup, the same is said of the
jobs it has on its lists (`CancelsTheShown`). TLC finds a counterexample as soon as what
`SlowIsAlone` excludes is allowed: a CLI that reads the directories cancels a job no
snapshot shows, and the late write undoes the CANCELED record.

*Capacity.* A QR that `status.json` names may be forgotten by memory (after a lost
write, a restart, an iteration that broke off), so the books of memory do not say
whether reconciliation may have it. `Covered` does: a QR named in `status.json` is
tracked or already being deleted, unless the process has not yet loaded the job; then
it is between iterations, because a scan that leaves out a job ends the iteration, and
only reaping loses sight of one. What reaping has left of a directory without its
`spec.json` names nothing (`NamesQr`), as no scan will find it. The stages in which a QR may be
dropped without deletion, because its job is not loaded, come before (`Early`). For
`HealthyAttemptKept` no further invariant is needed: the pending task's QR is the
record's (`Decided`), so that the markers read are those of the QR's attempt.

*Attempts.* `Newest`: a tracked QR is its job's own, or of an attempt that has been
counted, or its job is canceled or its directory is gone. A job is given a QR only for
the attempt after those counted, when it has none. `Supersedes` lists how a record may
change without bringing a spent QR back.

*Limits.* The limits concern what memory counts, but a restart replaces memory by what
is on file. `Modest` therefore states them for `Claiming`, the jobs that memory or
`status.json` has holding capacity (`WithinLimits`), and says when the two agree
(`Settled`: a job claims more than memory knows only while its `save` is pending, or
before it is loaded). What a half-way deletion leaves claims nothing
(`NothingLeft`). Every step but an adoption adds no claim (`Steady`), an adoption
finds the room that was checked when its QR was requested (`RoomKept`), and at that
moment memory counts all claims, since no `save` was pending. `PassedOver`, for the
order: within the stage usage only grows, so who did not fit when visited does not fit
when a later job does. Chips are added up by the library's theorems on cardinality.

*Beside an admin.* The cleanup cancels and deletes QRs, and touches nothing else of the
scheduler's world (`CleanupTouches`). So it keeps what the scheduler's own invariants
speak of, except that it may turn up at any moment: each invariant above is stated so
that a cancellation or a deletion from outside does no harm, and `Sound` (`Consistent`,
`Orderly`, `VerdictsHaveEvidence`, and that the admin's lists name what exists) is
inductive for `CleanupSpec`. The theorems about the scheduler alone then carry over, each
with its own invariant. `ReconcileSparesJobs` is not among them: it speaks of any deletion
while the scheduler reconciles, and an admin may make one then.

*Beside a second scheduler.* The second scheduler is an instance of the first's module,
so every lemma holds of it, with its variables. `BothSound` says that the books of each
are `Consistent`. After a step of its own, each is by `NextKeeps`. After a step of the
other, `OthersKeep` needs only that QRs keep their jobs, and that what the other wrote to
`status.json` is a record that fits. So nothing has to be at rest when the second one
starts: calls fail, an admin cleans up and the first goes on beside it. Two instances of one module are two sets of definitions
to the proof system, so one part of the module shows, definition by definition, that a step
of `There` is a step of `Theirs`, the instance the lemmas are about (`StepIsTheirs`). Verdicts
and ledger are not claimed with two schedulers: both write the `status.json` of
a canceled job, the second from an older record.

*Focus.* `KeepsFocus`: in a focused process everything a stage has still to visit, and
any pending task, belongs to the user or to a canceled job (`FocusAlwaysKept` needs this
because a task is chosen at one step and done at another, and the filter is applied at the
first). A process focused on another user comes into being only by a restart, with nothing
pending. Steps of the second scheduler, the admin and the workers are not the process's.

*Cleanup.* `IdleCleanupSparesTheLiving` speaks of the moment of deletion, the sentence rests
on reads made long before. The argument is that nothing comes back to life: a worker only
goes on (`Onward`, for every step of every party), and a `claimed` marker proves that some
worker of the attempt has left its boot. So a sentence for idleness names a QR of an
attempt one of whose workers has ended, or runs and a call has failed (`Silenced`), and that
stays so (the excuses are collected in `Excused`: a call has failed, or the admin is
impatient). It stays so when a second scheduler moves, requests and deletes
(`TheyGoOnward`), at any time. `Informed` adds that the entries an admin reads, be they from the snapshot, pair
each QR with the attempt whose markers are looked at (`EntryFits`), which is where the
books of both schedulers are needed, as both publish: the invariant is `Judicious`,
which is `BothSound` and `Informed`.

*Barrier.* Markers are counted by the number a worker believes to have, and shared by
the slices of the attempt, so the count alone does not say who is ready. `IInv` says whose
markers there are: every ready marker is the number of a worker, of some slice, that is
past its setup (`SignedMarkers`). As many such numbers as there are workers are the numbers
of all of them (`CountIsConclusive`, by the library's theorems on subsets of a finite set),
so that from the moment a worker 0 has counted enough there is a worker set up for every
number (`OpenOnlyWhenReady`). If no other slice has got through a setup, all these workers
are the slice's own (`FirstHasThemAll`): a host goes by its own number or by 0, so the host
for each number but 0 is the one of that number, and 0 is left to host 0. `NobodyEarly`
and `OneOfEachNumber` follow, and without that condition `shared_barrier` refutes the
first. That the workers act as one (`WorkersActAsOne`) does not depend on it: only those who
take themselves for worker 0 come near the claim, and one of them that runs the command has
claimed (`LeadersClaim`).

*Keys.* `ReadIsCurrent`: what a program has read of a node and has not yet written
back is what the node holds. Steps of the other program would break it; `~Overlap`
excludes them. A write then adds to what is there, and only lines that parse. So a node
that has been served, or spread to, stays so: `Serving` and `Spreading` say that every
node the program is done with has the key, or the pass will not delete the request, or
the exit code is 1.

*Only model-checked.* The liveness properties (`CancelHonoured`, `RobbedJobsGoOn`,
`ForsakenCapacityReturns`, `DeadAttemptsEnd`, `BarrierEnds`, `RequestsServed`): the proof
system does not reason about fairness and `ENABLED`. Every other property that a run
finds to hold is a theorem as well, under the assumptions above.

## 5. Plan

Done: the loop with its environment, for everybody and focused on a user; two
schedulers side by side; the admin cleanup; the ledger; the barrier with its worker
numbers; the SSH keys; the theorems of section 4. Next, in this order:

1. Proofs: the limits with two schedulers, which hold for each scheduler's own count
   only; an abstract specification of the key metadata, implemented by the sync pass and
   the command.
2. `AttemptTimeouts`: the clocks of one attempt (boot, 1800 s barrier, 1800 s
   no-claim, heartbeat) as bounded counters, for the disagreement noted above.
3. Requests: liveness of a retry that is asked once and meets no crash.
4. Pure parts: `resource_for_request` and the limits of `config.py` as operators
   checked against a reference; the partial failures of the storage audit.
