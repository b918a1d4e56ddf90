# A formal model of BigCherry's expert placement, admission and job control

BigCherry is a workbench for running large language models on a few consumer
GPUs: build and patch tooling for two inference engines, a remote-MoE extension
that keeps a mixture-of-experts model's experts in helper processes, a job
control plane that runs measurements under Slurm or locally, and a large archive
of experiments. Most of the repository is data, experiments, text patches and
kernel arithmetic. Two parts carry concurrent, failure-prone control logic of
their own, and they are what this project models:

* **moe-remote** (`engines/radiance/components/moe-remote`, C++/HIP, with the
  scheduler patch `engines/radiance/patches/rad0002_moe_remote_handoff`): the
  engine, its GPU streams, a placement thread and the helpers agree, over a ledger
  and shared memory, on which placement of experts every engine step runs with;
* **jobs** (`tools/bigcherry/jobs`, Python): a durable queue in the filesystem,
  driven by short-lived command-line processes any of which may die between two
  writes.

All paths below are relative to the repository root unless they end in `.tla`.

## 1. Inventory

### 1.1 moe-remote

| Component | State | Operations | Interacts with | What is hard |
|---|---|---|---|---|
| Admission ledger `admission_ledger.h` | fixed ring of entries, count, last id, active epoch and slot, closed / interrupted / fault | `configure`, `initialize`, `admit`, `try_admit`, `bind`, `cancel`, `host_complete`, `poll`, `close_admission`, `wait_drained`, `reopen_admission`, `interrupt`, `fault` | called by the engine thread and the placement thread under one mutex | ring aliasing, ids given back by a cancel, a gate closing beside an admission, out-of-order completion |
| Engine bridge: `BcMoeRemoteAdmission` in `rad0002`, `r3_moe_*` in `moe_remote_hook.cpp` | current and ahead parent, the issued ticket | admit, bind or cancel, `before_pass`, `rank_done`, `host_done`, `poll_tickets`, close, drain, reopen | ledger, streams, completion | run-ahead, partial launch over ranks, first-cause fault reporting |
| Completion: `admission_completion.h`, `consumption_ring.h`, `step_ticket_kernel.h` | per rank: armed, recorded, terminal event, device stamp, host-mapped seal | arm, record, seal, prove | GPU stream order, ledger `poll` | a host-mapped answer seen before the event, slot reuse |
| Mailbox kernels `moe_mailbox_ops.hip`, `moe_mailbox_plugin.cpp` | request counters, owner generation banks | publish, wait/add, finish, seal | helpers through shared memory | traps in place of errors |
| Rank coordinator `engine_rank_coordinator.h`, `engine_admission_gate.h` | phase of the transaction, the closure's snapshot, votes | RESERVING, COPYING, QUIESCING, COMMIT, RETIRING, reopen, abort | placement control block, ledger | staleness between phases, fatal stop |
| Placement controller and participants `worker_epoch.h`, `owner_generation.h`, `worker_generation_tables.h`, `worker_owners.h` | `PlacementControl`, generation headers, acknowledgement cells, deadlines | propose, run a phase, commit, retire, abort; participant `tick` | helper 0, peers, engine rank | two-phase commit over seqlocks; a peer's snapshot checked against live headers |
| Residency `worker_residency.h`, `worker_slot_pool.h`, `worker_move_slots.h`, `worker_forced_move.h` | slots, charges, headroom, gained and lost experts | bootstrap, reserve, copy, commit, release, abort | placement phases | pools at their limit, giving back on abort |
| Lanes and bursts `worker_lanes.h`, `moe_remote_shm.h`, `worker_queue_warm.h` | burst word, drain request and acknowledgement, lane states | wait, park, drain, stop and join | futexes shared between processes | lost wake-ups |
| Helper process `r3_moe_worker.cpp`, `worker_bootstrap.h`, `worker_segment.h`, `worker_combine.h`, `moe_helper_watch.h` | helper fault word, sealed segment, pidfds | bootstrap, seal, watch, stop | all of the above | death at any point |
| Policy and heat `worker_heat*.h`, `worker_policy_*.h`, `worker_share.h` | counters and scores | observe, score, propose | controller | floating point only |
| Numeric kernels `moe_lane_*.h`, `moe_fp8_ref.h`, `combine_f16.h`, `route_compact.h` | none | GEMM, quantise, reduce | lanes | arithmetic only |

What makes it correct: no two outstanding steps share a ring slot; no step spans
two placements; a generation is overwritten only when nobody can read it; a step
is retired only when the GPU is done with it on every rank; a drained engine is
idle; a stop is final; a drain ends and a waiting engine is woken. All processes commit to
the same placement or none does; an expert the engine may route to is resident with its
owner; a move gives back the slot it borrowed; every transaction, closure and cleanup ends. A
lane never sleeps through a request, a drain or a stop, and no wait it releases passes for a
result.

### 1.2 jobs

| Component | State | Operations | Interacts with | What is hard |
|---|---|---|---|---|
| Service `service.py` over store `store.py` | batches, runs, inbox directories pending / processing / accepted / rejected, attempts, `control.json`, `service-control.json` | `submit_batch`, `ingest_once`, `retry`, `control_run`, pause and resume | executors, workspace manager | a crash between any two writes, overlapping commands |
| Executors `slurm.py`, `local.py` | Slurm queue; process and metadata file | `submit`, `correlate`, `cancel` | service, runner | a lost answer, a job found again after a crash |
| Workspaces `workspace.py` | one detached worktree per attempt number | `create` | service, git | a worktree left by an attempt that did not happen |
| Runner `runner.py` | start and finish sentinels, device locks | `run_attempt` | executor, service (sentinel) | start racing recovery |
| Event log in `store.py` | `events.jsonl` | `append_event` | readers | torn last line |
| Window, harvest, monitor, remote, worker and the pure projections (`status.py`, `report.py`, `graph.py`, ...) | their own records | | | see section 7 |

What makes it correct: an execution id has at most one live job; recovery finds
the job a dead ingester queued; duplicated submits start one attempt; an attempt
runs the commit it records; an accepted receipt has a handle; every receipt is
filed in the end.

### 1.3 The rest

Host locks and the tuning journal (`tools/bigcherry/core`, `tuning`), campaigns,
patches, releases and builds, the command line, analysis and profiling, laboratory
scripts, the kernel libraries beside moe-remote, the llama.cpp overlay, and the
documents, data and records. `PROJECT.json` lists each with the reason it is not
modelled; most are sequential programs over files and external tools.

## 2. Modules

    AdmissionLedger          what the ledger promises any client
      |-- AdmissionLedgerProofs    its theorems
      |-- Admission                the ledger with its real clients
            |-- AdmissionProofs          the composition uses the ledger only as promised
                  |-- AdmissionEngineProofs    its streams, drains and faults
    Residency                slots, uploads and pointer tables of the helpers' pools
      |-- ResidencyProofs          what each call keeps of one pool
      |-- Placement                the placement protocol over them, engine included
            |-- MCPlacement              its instances
            |-- PlacementProofs          its theorems, over those of the pools
                  |-- PlacementRefinement      it implements OwnerSwitch
    OwnerSwitch              what the engine is promised; Placement implements it
    LaneBurst                lanes, bursts, parks, drains and stops over futex words
      |-- LaneBurstProofs          its theorems
      |-- MCLaneBurst              its instance
    JobService               submit, ingest, control, executors, runner, crashes
      |-- JobServiceProofs         its theorems

`Admission`, `Placement` and `LaneBurst` look at one engine from three sides. `Admission` has
the ledger and the streams in detail and the placement protocol as external; `Placement` has
the protocol in detail and of the ledger the gate, its epoch and slot, and "drained" as one
step; `LaneBurst` has the helper's half of the drain that `Placement` calls `LanesDrain` and
`Admission` calls `HelpersQuiesce`, and of the engine one outstanding parent.

Definitions named as a *mutant* in their comment, or whose name varies that of the
definition after them (`ParkUnchecked`, `HoldIfRunning`), model a plausible mistake in it; no
specification uses them.

### 2.1 `AdmissionLedger.tla`

Every method of `Ledger` holds its mutex for its whole body, so a method is one
atomic action with the same name. The two waits on the condition variable (in
`admit` and `wait_drained`) change nothing until they end, so they appear as the
enabling conditions of what ends them. `Spec` lets *any* client call *any* method at
any time, and lets the completion query answer anything: what is proved of it
does not depend on the engine behaving. `Live` is the interval
`(lastId - count, lastId]` that `get()` tests; `Poll` is the scan of `poll()`
(oldest parent first, ranks in order, a pending rank not asked again for a younger
parent, a fault ending the scan while keeping what was proved before it);
`Retire` is the loop of `retire_locked()`. Ids are 64 bits in the code; `MaxTicket`
stands for the last one, where `allocate()` answers with a fault.

### 2.2 `Admission.tla`

Extends the ledger with three actors that interleave freely:

* the **bridge** (`pc`, `current`, `ahead`, `issued`, `passes`): one action per call
  of the patched step loop. A step admits, binds or cancels, runs passes on each rank,
  seals, perhaps admits one parent ahead and issues it, finishes host work, polls. Every
  poll is a ledger call of its own, as in the hook;
* one **stream** per rank (`gpu`): a sequence of queued kernels executed in order. The
  ticket setter with its publish, the finish, the seal and the terminal event each check
  what the kernels check, and trap where they trap. `Prove` is
  `RankCompletion::prove`: the event first, then the host-mapped stamp;
* the **placement thread** (`binding`, `copying`, `phase`, `snap`): uploads the other
  owner generation rank by rank while the engine serves, closes the gate, waits for the
  drain, and reopens with the committed placement. What the other participants do in
  between (helpers' acknowledgement, the commit) is external and can always happen or
  never happen.

`Failures` selects what an instance may suffer: a helper dying, a shutdown from another
thread, the drain deadline. `cause` records the first reason of a stop, which the code
logs; it lets a property separate faults from outside and faults the protocol would
make itself.

Abstracted: rows, quantisation, layers and request payloads (a pass publishes some number
of requests up to `MaxRequests`), the number of layers of a pass, log texts, and times
(a deadline may pass whenever the code tests it).

### 2.3 `Residency.tla`

One helper's pool: `slot` is the residency ledger, `weights` what a slot is known to hold,
`phys` and `bank` the slot and pointer tables of both generations, `part` the transaction the
migration participant is in, `copy` the event of its upload. The actions are the calls of
`worker_move_slots.h` (`reserve`, `copy` in its four outcomes, `commit`, `reclaim`, `abort`)
and the copy stream. All slots have one stride, so bytes are slots: a pool has `Budget[h]` of
them and one for staging. `reserve` checks the budget with the departures subtracted and takes
physical slots with nothing subtracted, as the code does, so a swap of two experts through one
staging slot fails and must be aborted.

### 2.4 `Placement.tla`

Helper zero's `Controller` with its phases (`ControllerStep`), the epoch driver `tick` of every
helper (`Tick`), the engine's rank coordinator and the placement loop around it
(`EngineStep`), deaths, the watch. The processes share `ctl`, `journal`, `gen` and `ack`. The
one access pattern that matters is kept: helper zero is the only writer of the control, and
everybody else copies it under the seqlock (`Snapshot`, `EngineLooks`) and acts on the copy
later, reading headers, journal and acknowledgements as they are by then. A digest is the map
itself; a deadline may pass whenever the code looks at the clock.

Abstracted: identifiers and checksums of the segment, layers (one map), experts the engine
itself owns, the byte layout of records, and the reason codes of a fault. `EngineCopying` lets
ranks upload their bitmaps in any order, where the code goes through them in order; that only
adds behaviours.

### 2.5 `OwnerSwitch.tla`

What all of this is for, from the engine's side, in four actions: one owner map is in force,
every expert is held by its owner under that map, and the map changes only while an admission
that was closed and drained reopens. `Placement!Routing` maps it: the epoch and slot of the
admission ledger, the bitmap of rank zero in that slot, the gate, and the experts whose weights
are in some slot. `RefinesOwnerSwitch` is that specification as a property of `placement`.

### 2.6 `LaneBurst.tla`

The small and the large lane loop (`run_small`, `run_large`), `wait_burst`, `park_lane`,
`acknowledge_drain`, `stop_and_join`, and the engine's counterparts (`burst_transition`,
`apply_burst`, `wait_parks_until`, `request_helper_drain`, `helper_drained`, reopen). Here the
order of single loads and stores is the subject, so an action makes at most one access to a
word another thread writes. The futex words only count up: `watch[t]` is the word thread `t`
read before it decided to sleep, cleared as soon as that word moves, so a futex wait is the
condition `watch[t] = "none"`. `stream[l]` is the queue of a small lane's pre-queued waits:
kernels run when their request sequence is reached, and publish up to the publish limit. Data is
a sequence number; `computed` remembers which of them were computed from a request that had
been sent.

### 2.7 `JobService.tla`

One batch with `NRuns` planned sessions, submitted by processes that use the same
idempotency key. Each durable write is one action, and `Crash` may end any process
between two of them: its local state is gone and the files remain. The store takes no lock
against a second ingester, so each of an ingester's reads is an action too: the two listings of
the attempts (`StartOrRecover`, `NumberAttempt`), the control record, the commit, the worktree,
the recorded submission, the start sentinel, the queue, and every test for a file before the
rename that writes it (`TestAttempt` and `RecordAttempt`, `TestSubmission`, `CheckSubmission` and
`RecordSubmission`). `ing[i].at` is the
position of an `ingest --once` process in `ingest_once` / `_start_or_recover` /
`_submit_attempt`; `client[c].at` and `operator.at` likewise. `attempts[r]` is the
sequence of attempt directories with the records in them (`attempt.json`, the submission
intent, `submission.json`, the executor's metadata, `executor-start.json`), `worktree[r]`
the commit each attempt's worktree stands at, `natives` the Slurm jobs or local processes
ever started. A commit is a number, and `head` the one the jobs' code reference resolves
to; commits in `Drifted` have another scientific identity than the series. Attempts remember the receipt
they were made for (`by`), so that properties can relate the two; no action reads it.

`atomic_write` and `HostFileLock`-guarded updates are atomic steps. So are `claimable`, a listing
of two directories; `git worktree add`, which another ingester finds done or not begun; the test
and the write of the intent, which all its writers write alike; reads in a row of the same file
(the receipt's, a record's existence and its contents); and what the operator's retry and
cancel read before they write. Left out: the event log's
contents, the series record, hold and release, executor resource arguments, and
calls that raise before writing anything.

## 3. Runs

Sizes are distinct states. `CHECK_DEADLOCK FALSE` is set in the runs of `Admission` and
`JobService` because their workload is bounded (ticket ids, commands, submits) and a
stopped engine really stops; the other runs check deadlock, `Placement` and `LaneBurst` with
one explicit end (`Ended`): every process stopped.

| Run | Instance | Properties | Shows |
|---|---|---|---|
| `ledger` (5.8 k) | ring of 2, 2 ranks, 4 ids, 3 epochs | `TypeOK`, `RingOwned`, `EpochPure`, `StopIsFinal`, `ClosedOnlyDrains` | under any order of calls the ring never aliases, never mixes epochs, and stops and closures hold |
| `admission` (0.9 M) | 2 ranks, ring of 2, 3 ids, 1 move, 1 pass of up to 1 request, no failures | `AdmissionTypeOK`, `KernelsNeverTrap`, `StreamsHoldOnlyLiveParents`, `DrainedIsIdle` | two ranks out of step with each other, run-ahead and a move in between |
| `admission_faults` (0.4 M) | 1 rank, 2 moves, 1 pass, every failure, fairness | `KernelsNeverTrap`, `FaultsAreExternal`, `LedgerSteps`, `DrainCompletes`, `AdmissionResumes` | a failure at any point; both generation slots are overwritten once each; nobody waits for ever |
| `placement` (0.9 M) | 2 helpers, 1 rank, 2 experts with budgets 1 and 2, 2 transactions, every failure | `PlacementTypeOK`, `StagingIsReturned`, `RoutedExpertsResident`, `ProposalsFindAllIdle`, `CommitIsUnanimous`, `RefinesOwnerSwitch` | a move happens entirely or not at all, and the engine never routes to weights that are not there |
| `placement_live` (62 k) | 2 helpers, 1 rank, 4 experts, one swap that fits and one that does not, failing uploads and cleanup deadlines, fairness | `SlotsAreExclusive`, `TransactionEnds`, `GateReopens`, `CleanupEnds` | transactions, closures and cleanups end |
| `lanes` (0.24 M) | a helper serving 1 lane: small with power save through 2 closures, the same with a signal around 1 closure, small without power save and large with a device error around 1 closure; 1 request, queue depth 2, fairness | `LaneTypeOK`, `MergedWasComputed`, `NothingSentIntoAPark`, `VerifiedLanesAreIdle`, `RequestsAreAnswered`, `DrainsEnd`, `BurstsOpen`, `LanesJoin` | no lost wake-up, no phantom result, an idle helper after a verified drain, a join that ends unless a publish takes back a release |
| `jobs_slurm` (1.0 M) | Slurm, 1 run, 2 clients submitting at once, 1 ingester, 1 command of any kind, 2 commits of which one drifted, failing squeue, refused and lost sbatch, 1 crash | `JobTypeOK`, `OneLiveExecution`, `SubmitReceiptsStartOneAttempt`, `PinnedCode`, `AcceptedIsSubmitted`, `CancelledIsNotRelaunched` | recovery after a crash, receipts duplicated by two clients, retries under a moving branch |
| `jobs_local` (0.75 M) | the local executor, 2 overlapping ingesters, pause, 1 crash, fairness | `AcceptedHasHandle`, `ReceiptsSettle` | ingesters that take each other's receipts and race for a number, a worktree and the records; no receipt is forgotten |

**Why the bounds are enough.** The ring holds two parents because the interesting
conflicts need one parent in flight and one ahead; three or four ids make the ring wrap, so
a slot is reused by a parent of another epoch; three epochs overwrite each generation slot,
once for the first time and once over an older placement. Two ranks are the least that can
disagree; with failures one rank suffices because a failure is global. Two placement
transactions are the least in which the second meets what the first left behind (journal
records, acknowledgements, generation headers, tables and slots, all of which alternate with
period two), and the budgets of one and two make a swap, a move that fits and one that does
not. Two helpers and one rank, or one helper and two ranks, are the supported topologies;
`placement_stale` uses the second. Two closures let a lane meet an acknowledgement of an
earlier one, and two queued waits let a request release the first and not the second. Lanes of one helper share only the stop word and the two futex words, whose
every movement wakes everybody, so the runs serve one lane at a time; a
failure ends everything, so one closure is enough beside it. A helper with two lanes was explored
for safety by hand to eight million states without a violation and is too large for a run. In
the job runs one process may die at any step and its successor recovers what it left; two clients
both miss `batch.json` and duplicate the receipt. With two crashes as well, so that a recovery may
die too, `jobs_slurm` has 11.5 million states: it was explored once by hand, without a violation,
and the theorems have no bound on crashes; two commits let the branch move between a crash and its recovery. Two runs of a
batch are needed only where a batch may be incomplete (`jobs_batch_lost`): runs share no
record but the batch.

### Fairness

`LiveAdmissionSpec`: weak fairness of the step loop once it has begun a step (it is a
thread that only sleeps in the modelled waits), of the promotion of a parent issued ahead,
of each rank's first pass and of each GPU stream (streams make progress unless a kernel
trapped), of the drain wait, which polls every 2 ms, and of the placement thread's later
phases. Nothing is assumed of faults, deadlines, new work or new placements. That a stop or a dead
helper is noticed by the drain wait is assumed, since the wait tests for them; that a deadline
passes is not, so `DrainCompletes` does not lean on it.

`LivePlacementSpec`: every helper's loop and the engine's placement loop keep running, copy
streams and lanes make progress (the lanes' part is what `lanes` checks), the watcher sees a
death. `CleanupExpires` has strong fairness: the controller reads the clock at every tick of an
unfinished cleanup, and time passes, though between two readings it may be elsewhere in
its tick. No failure has fairness.

`LaneSpec`: weak fairness of each lane thread, each stream, the engine's two threads inside
their waits and the helper's main thread, which finds a raised fault at its next tick. Nothing
obliges the scheduler to have work, a placement to begin, a signal to come or a deadline to
pass.

`LiveJobSpec`: weak fairness of each ingester. `tools/admin` installs it as a oneshot unit
with a path watch and a 30 s timer, so it is started again after any end or death. That
the commands it calls (git, sbatch, squeue) return is an assumption: they are run without a
timeout.

### Runs that show a disagreement

Each states what a document, comment or test of the repository says; the run finds a
behaviour of the code that does otherwise. `PROJECT.json` quotes the lines.

| Run | Claim | What happens |
|---|---|---|
| `jobs_batch_lost` | replaying a submit returns an equivalent batch | a client that dies after `batch.json` leaves a batch without receipts, and the replay returns it |
| `jobs_twice` | a request is submitted once after a proven zero match | a job that starts and ends between the read of the sentinel and the query of the queue is in neither, and is submitted again |
| `lanes_stop_blocked` | no thread stays blocked in a stop | a request published over a stopping lane's release leaves its last drain, and the join, waiting |
| `placement_stale` | a cycle in which nothing fails reports no fault | a participant that copied the control in RETIRING and looks at the headers after helper zero has retired the old one takes the finished move for a corrupt one, and stops for good |

These are runs of the unchanged model in instances where the disagreement can happen. The
passing runs check properties that do not depend on it: `OneLiveExecution` is claimed for
the Slurm executor only and for jobs that are alive together, `LanesJoin` excepts the state that
`lanes_stop_blocked` reaches, and those of `Placement` hold although a process may stop this way.

More limits of the code show in the models and are not claimed by any property:

* `ingest_once` takes no lock and treats every file in `processing` as left by a crash. The
  installed unit starts one ingester at a time; a manual `jobs ingest --once` beside it is not
  prevented, and then four properties fail. `OneLiveExecution`: both ingesters find no job and
  queue one. `SubmitReceiptsStartOneAttempt`: the attempts are listed at `service.py:292` and
  again at `service.py:304`, so a submit receipt that saw none may take number 2.
  `AcceptedIsSubmitted`: the test of `store.py:28` and the rename of `store.py:33` are two steps,
  so two retries may both record the attempt they share. `CancelledIsNotRelaunched`: an ingester
  that read no submission queues the job again after another recorded it and the run was
  cancelled. The runs and theorems of these four have one ingester at a time. `AcceptedHasHandle` and `ReceiptsSettle`
  are checked, and `AcceptedHasHandle` and `PinnedCode` proved, with ingesters that overlap.
* a retry receipt found in `processing` after a crash forces another attempt (`service.py:268`)
  beside the one already made for it, and the local executor starts a second process after a crash
  between `Popen` (`local.py:81`) and the write of the metadata `correlate` reads (`local.py:94`).
  Both break `StartedIsNotResubmitted` as well, in the instance of `jobs_twice` with a retry and
  with the local executor.
* the commit of a same-commit retry is kept in the run's `control.json` and not in its
  receipt: of two such retries pending together, the second finds it cleared and takes the
  branch head.
* the worktree of an attempt that drift blocked stays (`workspace.py:47`), and since no
  attempt was recorded the next retry has the same number: once the branch has moved, `create`
  refuses it, this time and every later time, although
  `docs/reference/jobs/JOBS_CONTROL_PLANE.md:74` says a retry makes a new attempt.
* a small lane that stops releases its queued waits without a publish limit
  (`worker_lanes.h:299`), before `stop_and_join` raises the fault. An engine that publishes a
  request in between may be answered by a wait that was released, not computed; hence
  `MergedWasComputed` says nothing of a helper that is stopping. The engine's wait
  (`moe_mailbox_ops.hip:384`) counts on the done word reaching the request's sequence only by
  that request, and on the fault to end it otherwise.
* the same window can hang the stop. The release (`worker_lanes.h:299`, and the one in
  `park_lane`) stores the sequence of the last queued wait; an engine that publishes a request
  before `raise_fault` (`worker_lanes.h:87`) stores a smaller one over it. With two or more waits
  queued those behind the request then wait for ever, `sync_lane` in `finish` with them, and the
  join does not end, although `worker_lanes.h:10` says that `stop_and_join` publishes the stop
  before joining, "so no thread can stay blocked on a futex or a drain". `Overwritten` is that
  state; `lanes_stop_blocked` reaches it, and `LanesJoin` names it as its only exception: in every
  other case the join ends.

## 4. Proofs

The theorems hold for every value of the constants under the named assumptions of the modules:
`LedgerAssumption` (positive capacity, ranks and epochs), `AdmissionAssumption` (at least one
pass, known failures), `ExpertsAreIndices`, `BudgetAssumption` and `OwnersAssumption` (finitely
many experts, each with an owner, and a budget per helper), `BootstrapFits` (no helper starts
with more experts than its budget: `Pool::bootstrap`, `worker_slot_pool.h:106`, never gives away
the staging slot), `ActorsAssumption`, `CandidatesAssumption` and `BoundAssumption` (a first helper
and a first rank, candidates that are owner maps, any number of transactions), and those of
`LaneBurst` and `JobService` on theirs. "Any" below is any value these allow; the bounds of the
runs play no part.

| Theorem | Statement |
|---|---|
| `LedgerTypeCorrect` | `Spec => []TypeOK` |
| `LedgerRingOwned` | `Spec => []RingOwned` |
| `LedgerEpochPure` | `Spec => []EpochPure` |
| `ReplaceGateExact` | on a running ledger the generation gate opens exactly for the inactive slot and never over a referenced one |
| `LedgerStopIsFinal` | `Spec => StopIsFinal` |
| `LedgerClosedOnlyDrains` | `Spec => ClosedOnlyDrains` |
| `AdmissionLedgerSteps` | `AdmissionSpec => LedgerSteps`: every step of the composition is a ledger call or leaves the ledger alone |
| `AdmissionEpochPure` | `AdmissionSpec => [](RingOwned /\ EpochPure)` |
| `EngineInvariant` | `AdmissionSpec => []EngineInv` |
| `AdmissionTypesHold` | `AdmissionSpec => []AdmissionTypeOK` |
| `KernelsTrapOnlyOverHelpers` | `AdmissionSpec => []KernelsNeverTrap` |
| `QueuedParentsAreOutstanding` | `AdmissionSpec => []StreamsHoldOnlyLiveParents` |
| `DrainedEngineIsIdle` | `AdmissionSpec => []DrainedIsIdle` |
| `LedgerFaultsAreExternal` | `AdmissionSpec => []FaultsAreExternal` |
| `PlacementSafe` | `PlacementSpec => []PlacementInv` |
| `PlacementTyped` | `PlacementSpec => []PlacementTypeOK` |
| `StagingSlotReturned` | `PlacementSpec => []StagingIsReturned` |
| `PoolSlotsExclusive` | `PlacementSpec => []SlotsAreExclusive` |
| `RoutedWeightsResident` | `PlacementSpec => []RoutedExpertsResident` |
| `ProposalsIdle` | `PlacementSpec => []ProposalsFindAllIdle` |
| `CommitUnanimous` | `PlacementSpec => []CommitIsUnanimous` |
| `PlacementImplementsSwitch` | `PlacementSpec => RefinesOwnerSwitch` |
| `LaneInvariant` | `LaneSpec => []IInv` |
| `LaneTypesHold` | `LaneSpec => []LaneTypeOK` |
| `MergedResultsAreComputed` | `LaneSpec => []MergedWasComputed` |
| `ParksAndPublishesNeverMeet` | `LaneSpec => []NothingSentIntoAPark` |
| `VerifiedDrainsAreIdle` | `LaneSpec => []VerifiedLanesAreIdle` |
| `JobInvariant` | `JobSpec => []JobInv` |
| `JobTypesHold` | `JobSpec => []JobTypeOK` |
| `AttemptsRunTheirCommit` | `JobSpec => []PinnedCode` |
| `AcceptedReceiptsHaveHandles` | `JobSpec => []AcceptedHasHandle` |
| `SerialInvariant` | with `OneIngester`, `JobSpec => []SerialInv` |
| `SubmitsStartOneAttempt` | with `OneIngester`, `JobSpec => []SubmitReceiptsStartOneAttempt` |
| `AcceptedReceiptsAreSubmitted` | with `OneIngester`, `JobSpec => []AcceptedIsSubmitted` |
| `ExecutionsAreNotDoubled` | with `OneIngester` and the Slurm executor, `JobSpec => []OneLiveExecution` |
| `CancelledRunsStayStopped` | with `OneIngester`, `JobSpec => CancelledIsNotRelaunched` |

**The ledger.** No single property is inductive. `LedgerInv` joins `TypeOK`, `RingOwned`,
`EpochPure` and "nothing is outstanding before `initialize`". `RingOwned` needs
`count <= Capacity` from `TypeOK`: live ids are then fewer than `Capacity` apart, so their
remainders differ (`IndexInjective`), and `Allocate` writes to a slot no live id uses.
`EpochPure` needs `RingOwned`, since only then is `At(id)` the entry that was written when
`id` was admitted; it needs the last conjunct because `Initialize` sets the epoch without
looking at the ring. The proof has one lemma per action; `Bind`, `HostComplete`, `Poll`
and `Retire` share lemmas saying that a step that changes only marks, or removes a prefix
of the live ids, preserves the invariant. The two action properties follow from the
invariant and from lemmas saying which actions a stopped or closed ledger refuses.

**The composition.** `LedgerSteps` is a refinement by inclusion of variables: the
composition's step restricted to the ledger's variables is a step of `Next` or a stutter.
Most actions call the ledger syntactically; the ones that need an argument are the reopen,
whose epoch and slot must be legal values, and `PollTickets`, whose answers must be a
function from live parents and ranks to proofs. `AdmissionInv` is `LedgerInv` with
`PlaceInv` (types of the placement state, an epoch left for the candidate, and: while the
gate is held no copy is in flight and the snapshot is of the active epoch). Ledger
invariants then carry over.

**The engine and its streams.** `EngineInv` adds to `AdmissionInv` where the bridge is and
which tickets it holds there (`BridgeInv`), what the phase of the placement thread says of the
gate (`GateInv`), that ranks are asked about host-complete parents only (`ParentInv`), and
`RankInv(r)` for each stream. The heart of `RankInv` ties a stream to the ledger: everything queued is for a
bound, live parent (`StreamOK`); a publish has its finish right behind it (`PairOK`);
whatever is queued for a recorded parent is queued before its event (`EventOK`); and a parent that was proven on a rank has nothing left in that rank's stream
(`ProvenOK`). `Prove` looks at the event, which has executed only after everything before
it, so a proof keeps `ProvenOK`; retirement asks for a proof of every rank, so a retired
parent has nothing queued anywhere, and a drained ledger means empty streams. That kernels do
not trap needs more: when a seal runs, a pass of its parent has armed the counting slot or is
queued before it (`SealOK`, `PassOK`), stamps and marks name no cancelled id (`MarkOK`), a
recorded parent's seal is queued or has matched (`SealedOK`), and between two passes published
equals consumed (`BalanceOK`). `CountOK` bounds the requests a parent published by its
passes: some numbering of the queued publishes by pass exists, and so the sum needs no
induction over the stream. The proof splits a step into what it does to the ledger
(`LedgerMoves`, `UnfinishedKept`), to the bridge and to one rank's stream (a head popped, or two
operations appended), and each part has one lemma.

**The pools.** `PoolInv(h)` in `ResidencyProofs` is about one helper's pool and has one lemma per
call of the participant. That no slot is shared or lost is two implications: a slot that either
generation's table names is charged to the expert it is named for (`NamesCharged`), and a slot
in use is named (`ChargesNamed`); with `OnePlace`, an expert both generations own is in one slot,
this is `SlotsAreExclusive`. They are inductive only together with what a transaction says of the tables
and the slots: the candidate's table names what is kept and what is gained (`Tables`), a
gained expert's slot is RESERVED, COPYING or READY until the commit, and a lost one's ACTIVE before it
and RETIRING after it (`States`). `Loaded` and `BanksMatch` are why a slot in use holds its weights and
why the pointer table is right. `Ledger::insert` gives the i-th expert of a reservation the i-th
free slot; that it never gives one twice is a counting argument on ranks in finite sets of
numbers. Budgets enter once: a reservation that is not refused leaves a map
that fits (`Fits`), so an idle pool, which holds one generation only, has its staging slot.

**The placement protocol.** `PlacementInv` joins the control and its journal (`CtlInv`, `LeaderPc`),
for each helper `PoolInv(h)` and `HelperInv(h)`, and `EngineInv`. The difficulty is that
everybody but helper zero acts on an old copy of the control. `Seen` says what such a copy may be: for the
transaction in hand it names what the journal recorded, on the old side before the commit
and on the new side after it (`Matches`), and the control has gone on from its state; a copy from before
the transaction is an ACTIVE one, and its holder has no part in it (`SnapPhase`). Acknowledgements are the
controller's only knowledge. `AckPhase` and `RankAck` say what each one proves: RESERVED
that the participant holds its slots, READY that its tables are built or the rank's
bitmap is up, QUIESCED that the gate is closed for this transaction, COMMITTED and
RETIRED that the participant switched, CLEANED and REOPENED that nothing is left to do. These facts are
stable, so the collection of a phase earns the next state for every copy taken of it
(`Earned` in the proof), and `EnterKeeps` is one lemma for all those transitions. `PoolLink` ties a pool to the
maps of control and journal; `EngineLed` ties the ledger to the generation in force or, behind a closed gate,
to the one before it, which no helper reclaims until the engine has reopened. `EngineDone` is why a
proposal overwrites nothing: the closing acknowledgement of any rank proves it for the engine. The five
safety properties then follow from the invariant in a state, without further induction.

**The refinement.** In every state of `PlacementInv` the bitmap of the first rank is the map of the
ledger's generation and each of its experts is in a slot of its owner (`RouteCovered`), so the
covering condition of `OwnerSwitch` holds before and after every step. What is left is the shape
of the step: helpers and the controller leave gate and ledger alone, and the engine closes the gate, faults it, or
reopens a closed one on the next epoch (`Routes`); these are `OwnerSwitch`'s four actions.

**The lanes.** `IInv` in `LaneBurstProofs` says of every lane, at every position of its thread,
which of its words can have been written by the other side: `Gate` (burst word, gate, what the
engine's two threads have announced), `Asks` and `Drains` (drain request and acknowledgement),
`Bounds`, `Points` and the conjuncts on requests, completions and queued waits. The two hard
properties are a store on each side before a load of the other's word: a lane raises its park
flag and then rereads the burst word, the engine opens the burst and then reads the park flags.
The invariant records (`Met`) that a lane which releases its waits while the burst word is odd
is one that a thread of the engine still waits for, one that took a drain, or one a fault cuts
off. Everything after a stop is exempt, as
section 3 explains.

**The job service.** `JobInv` states what each position of a process implies about files:
an ingester at `launch` has an attempt with an intent, hence a commit and a worktree at that
commit, one at `finish` has a submission recorded, and so on (`IngesterInv`), and what files imply
about each other (`RunInv`, `JobsInv`, `Accepted`). With overlapping ingesters such facts must survive the
others' steps. They do because of one guarantee that every step gives (`Kept`): receipts,
attempts, worktrees and jobs are only added, and a recorded commit, intent or submission stays. What
an ingester knows of files is stable under `Kept`, so each action is proved against its own
ingester only. It does not say which receipt an attempt belongs to,
since the rename of an overlapping ingester may take the attempt over.
`OneLiveExecution`, `CancelledIsNotRelaunched`, `SubmitReceiptsStartOneAttempt` and
`AcceptedIsSubmitted` need more than overlapping ingesters give (section 3), and their theorems
assume `OneIngester`: at most one process ingests at a time, as
with the installed oneshot unit; after a crash the next one may start at any point.
`SerialInv` then says that what the ingester has read still holds: from the listing on, its
attempt is the latest of its run or the number it took is free, a retry's attempt is its own
(`AloneInv`), and under Slurm one about to queue a job has found none alive for it (`NoneLive`).
It adds what follows for the files: only the first attempt of a run was made for a submit receipt
(`OriginInv`), an accepted retry has an attempt of its own with a handle (`OwnAccepted`), and the
latest attempt of a cancelled run is submitted already or a retry's (`StoppedInv`).

The inductive invariants were model-checked before they were proved: `EngineInv` on one rank
with two passes and all failures (0.7 M states), `PlacementInv`, `PoolInv` in it, on the instances of
`placement` (0.9 M), `placement_live` and `placement_stale`, `IInv` on the instance of `lanes`, `JobInv` with
two ingesters and both executors, `SerialInv` with one ingester and two clients (11.5 M).

## 5. What is only model-checked

Every invariant, every action property and the refinement that the passing runs check is stated
by a theorem. Only liveness is left to TLC (`DrainCompletes`, `AdmissionResumes`, `ReceiptsSettle`,
`TransactionEnds`, `GateReopens`, `CleanupEnds`, `RequestsAreAnswered`, `DrainsEnd`, `BurstsOpen`,
`LanesJoin`): temporal reasoning with fairness is outside what the provers do. The runs that show a
disagreement are counterexamples and have no theorem.

## 6. Reading the correspondence

`PROJECT.json` maps every definition that models code to the lines it stands for. Where a
TLA+ action covers several lines of unmodelled detail (formatting, logging, payload
handling), the lines are included and the detail is abstracted as described in section 2.

## 7. Not modelled, and the plan

Still to do: `EventLog` (torn tail, repair under the lock), the device locks of local runners,
the measurement window and the harvest transaction.

Not modelled in the components above, and why:

* start-up: rank registration, layer maps, sealing of the bootstrap generation, creation of
  the controller. One process after another fills in a segment before anybody serves; the
  models start from the sealed state;
* `propose_rollback` and experts owned by the engine: proposals of the same protocol with
  other candidates, which `Candidates` leaves open;
* the CPU combine of the large lane, done identities, queue warming, traces, timing samples,
  shadow reports: data and measurement that no guard of the modelled control reads;
* the event log, hold and release, artifacts, logs, status and review of jobs: appended or
  read, never tested by the queue.

Steps of the code that a definition takes together or leaves to a neighbouring failure, none of
which a checked property can tell apart:

* `Placement`: a failing poll of the commit leaves the new header as it was, where the code has
  marked it ACTIVE before it stops (`worker_epoch.h:1277-1282`); the gate is faulted by the
  stopping placement loop itself, where on a helper's fault the code releases waiters through
  the external fault that `admit` observes (`moe_remote_hook.cpp:824`, `admission_ledger.h:89`);
  the opening of the gate and its acknowledgement are one step;
* `Residency`: a bank that cannot be built (`worker_move_slots.h:183-184`) and staging refused for
  its source or checksum (`worker_move_slots.h:135-145`) take the abort path of a failed upload
  and of a refused reservation, and have no branch of their own;
* `Admission`: the terminal seals of a parent are queued for all ranks in one step, and kernels do
  not fail to launch;
* `LaneBurst`: the checks that a done identity matches its epoch and slot
  (`moe_remote_shm.h:898-899`) and the combine check of a drain; a device or futex error inside
  an acknowledgement or the last drain of a lane, which ends in the same `request_stop` as
  `LaneFails`; the park flags, which a stop clears lane by lane and the model at once, before
  the fault is raised.

Out of scope: GPU arithmetic and data layouts, floating-point policy scoring, code text
patches for engines outside the repository, reports, parsers, installers and experiments. They
are nearly all of the repository's 170,000 lines: experiment contracts, campaign producers,
patch rebasing, pin bumps, catalogues and the command line are sequential programs that
transform files and call external tools once, with no state two actors share and no
intermediate state that another step of the program relies on. The modelled parts are
therefore a small share of the lines and most of the concurrent control.
