----------------------------- MODULE JobService -----------------------------
(***************************************************************************)
(* The durable job control plane of tools/bigcherry/jobs: submit_batch,    *)
(* ingest_once and the operator commands of JobService (service.py) over   *)
(* the filesystem RunStore (store.py), with the Slurm and local executors  *)
(* (slurm.py, local.py), the detached worktrees (workspace.py) and the     *)
(* attempt runner (runner.py).                                             *)
(*                                                                         *)
(* Every durable write is a step of its own, because every process may die *)
(* between two of them: what a crashed process knew is gone, what it wrote *)
(* stays.  An ingester's reads are steps too, and so are the test for a    *)
(* file and the rename that writes it, because the store takes no lock     *)
(* against a second ingester.                                              *)
(*                                                                         *)
(* Processes are CLI invocations: clients run submit, one operator runs    *)
(* the control commands, ingesters run `ingest --once` (a systemd oneshot  *)
(* unit started by a path watch and a 30 s timer).  The unit never runs    *)
(* beside itself; an `ingest --once` typed by hand may run beside it.      *)
(*                                                                         *)
(* Left out: the event log's contents (nothing in the service reads it),   *)
(* the immutable series record, hold/release (passed to the executor), and *)
(* calls that raise before they write anything, which change no state.     *)
(***************************************************************************)
EXTENDS Naturals, Sequences, FiniteSets

CONSTANTS
    NRuns,          \* planned sessions of the one batch submitted
    Clients,        \* processes that run `jobs submit` with the same key
    Ingesters,      \* processes that run `jobs ingest --once`
    Executor,       \* "slurm" or "local": the batch's target executor
    Commands,       \* what the operator does: "disable", "pause", "retry", "cancel"
    ExecutorFaults, \* how the executor's commands may fail: "query", "refused", "lost"
    Drifted,        \* commits whose scientific identity is not the series'
    MaxSubmits,     \* bound: invocations of submit
    MaxCommands,    \* bound: operator commands
    MaxCommits,     \* bound: commits of the branch the jobs' code_ref names
    MaxCrashes      \* bound: process deaths

ASSUME JobAssumption ==
    /\ NRuns \in Nat \ {0} /\ MaxCommits \in Nat \ {0}
    /\ MaxSubmits \in Nat /\ MaxCommands \in Nat /\ MaxCrashes \in Nat
    /\ Executor \in {"slurm", "local"}
    /\ Commands \subseteq {"disable", "pause", "retry", "cancel"}
    /\ ExecutorFaults \subseteq {"query", "refused", "lost"}
    /\ Drifted \subseteq 1..MaxCommits

VARIABLES
    client,     \* submit_batch's position in each client
    submits,    \* submit invocations so far
    returned,   \* some submit_batch has returned the batch to its caller
    batchRec,   \* batches/<id>/batch.json exists
    intents,    \* runs with runs/<id>/intent.json
    receipts,   \* the inbox: every receipt ever enqueued and its directory
    ing,        \* ingest_once's position and locals in each ingester
    attempts,   \* per run, the attempt directories and the records in them
    worktree,   \* per run, the commit each attempt's worktree is checked out at
    head,       \* the commit the jobs' code_ref resolves to
    natives,    \* the executor's jobs or processes, in submission order
    control,    \* per run, control.json
    paused,     \* service-control.json
    operator,   \* a control command's position
    commands,   \* commands so far
    crashes     \* deaths so far

storeVars == <<batchRec, intents, control, paused>>
workVars  == <<receipts, attempts, worktree, natives>>
boundVars == <<submits, commands, crashes, head>>
vars == <<client, returned, ing, operator, storeVars, workVars, boundVars>>

Runs    == 1..NRuns
Commits == 1..MaxCommits

\* A run's receipt, in the inbox directory it lies in; error is the reason it was rejected.
Receipt(r, reason) == [run |-> r, reason |-> reason, place |-> "pending", error |-> "none"]

\* attempts/NNN just made: no attempt.json, intent, submission or sentinels.
\* by is the receipt it was made for (history: no action reads it).
EmptyAttempt(k) ==
    [commit |-> 0, intent |-> FALSE, meta |-> 0, start |-> 0, sub |-> 0, by |-> k]

\* A process that is not running keeps no state.
IdleIngester ==
    [at |-> "idle", todo |-> {}, rec |-> 0, no |-> 0, ref |-> 0, commit |-> 0, native |-> 0,
     error |-> "none"]
IdleClient   == [at |-> "idle", run |-> 0]
IdleOperator == [at |-> "idle", run |-> 0]

JobInit ==
    /\ client = [c \in Clients |-> IdleClient]
    /\ submits = 0
    /\ returned = FALSE
    /\ batchRec = FALSE
    /\ intents = {}
    /\ receipts = <<>>
    /\ ing = [i \in Ingesters |-> IdleIngester]
    /\ attempts = [r \in Runs |-> <<>>]
    /\ worktree = [r \in Runs |-> <<>>]
    /\ head = 1
    /\ natives = <<>>
    /\ control = [r \in Runs |-> [disabled |-> FALSE, cancelled |-> FALSE, ref |-> 0]]
    /\ paused = FALSE
    /\ operator = IdleOperator
    /\ commands = 0
    /\ crashes = 0

-----------------------------------------------------------------------------
(***************************************************************************)
(* submit_batch                                                            *)
(***************************************************************************)

\* The key is accepted and, when batch.json is already there, it is returned.
SubmitBatch(c) ==
    /\ client[c].at = "idle"
    /\ submits < MaxSubmits
    /\ submits' = submits + 1
    /\ returned' = (returned \/ batchRec)
    /\ client' = [client EXCEPT ![c].at = IF batchRec THEN "idle" ELSE "batch"]
    /\ UNCHANGED <<ing, operator, storeVars, workVars, commands, crashes, head>>

CreateBatch(c) ==
    /\ client[c].at = "batch"
    /\ batchRec' = TRUE
    /\ client' = [client EXCEPT ![c] = [at |-> "run", run |-> 1]]
    /\ UNCHANGED <<returned, ing, operator, intents, control, paused, workVars, boundVars>>

CreateRun(c) ==
    /\ client[c].at = "run"
    /\ intents' = intents \union {client[c].run}
    /\ client' = [client EXCEPT ![c].at = "enqueue"]
    /\ UNCHANGED <<returned, ing, operator, batchRec, control, paused, workVars, boundVars>>

\* enqueue always writes a new receipt; after the last run the batch is returned.
Enqueue(c) ==
    /\ client[c].at = "enqueue"
    /\ receipts' = Append(receipts, Receipt(client[c].run, "submit"))
    /\ LET last == client[c].run = NRuns IN
       /\ client' = [client EXCEPT ![c] =
                       IF last THEN IdleClient ELSE [at |-> "run", run |-> @.run + 1]]
       /\ returned' = (returned \/ last)
    /\ UNCHANGED <<ing, operator, storeVars, attempts, worktree, natives, boundVars>>

-----------------------------------------------------------------------------
(***************************************************************************)
(* ingest_once                                                             *)
(***************************************************************************)

Goto(i, at)   == ing' = [ing EXCEPT ![i].at = at]
Fail(i, why)  == ing' = [ing EXCEPT ![i].at = "fail", ![i].error = why]
Abort(i)      == ing' = [ing EXCEPT ![i] = IdleIngester]
NextReceipt(i) == ing' = [ing EXCEPT ![i] = [IdleIngester EXCEPT !.at = "scan", !.todo = ing[i].todo]]

RunOf(i)     == receipts[ing[i].rec].run
AttemptOf(i) == attempts[RunOf(i)][ing[i].no]
SetAttempt(i, a) ==
    attempts' = [attempts EXCEPT ![RunOf(i)] = [@ EXCEPT ![ing[i].no] = a]]

\* Mutant: a restarted ingester looks at new work only.
ClaimablePendingOnly ==
    {[id |-> k, listed |-> "pending"] : k \in {k \in DOMAIN receipts : receipts[k].place = "pending"}}

\* claimable(): the processing directory, then the pending one, listed once.
Claimable ==
    {[id |-> k, listed |-> receipts[k].place] :
        k \in {k \in DOMAIN receipts : receipts[k].place \in {"processing", "pending"}}}

\* Processing receipts come first; file names sort a run's retries before its submits.
Before(e, f) ==
    \/ e.listed = "processing" /\ f.listed = "pending"
    \/ /\ e.listed = f.listed
       /\ receipts[e.id].run = receipts[f.id].run
       /\ receipts[e.id].reason = "retry" /\ receipts[f.id].reason = "submit"

IngestStart(i) ==
    /\ ing[i].at = "idle"
    /\ ~paused
    /\ Claimable # {}
    /\ ing' = [ing EXCEPT ![i].at = "scan", ![i].todo = Claimable]
    /\ UNCHANGED <<client, returned, operator, storeVars, workVars, boundVars>>

\* claim_pending; a file another ingester moved since the listing aborts the command.
Claim(i) ==
    /\ ing[i].at = "scan"
    /\ \E e \in ing[i].todo :
         /\ \A f \in ing[i].todo : ~Before(f, e)
         /\ IF receipts[e.id].place = e.listed
            THEN /\ receipts' = [receipts EXCEPT ![e.id].place = "processing"]
                 /\ ing' = [ing EXCEPT ![i].at = "claimed", ![i].rec = e.id,
                                       ![i].todo = @ \ {e}]
            ELSE Abort(i) /\ UNCHANGED receipts
    /\ UNCHANGED <<client, returned, operator, storeVars, attempts, worktree, natives, boundVars>>

\* Another ingester filed the claimed receipt before this one has read it.
ReceiptGone(i) ==
    /\ ing[i].at = "claimed"
    /\ receipts[ing[i].rec].place # "processing"
    /\ Abort(i)
    /\ UNCHANGED <<client, returned, operator, storeVars, workVars, boundVars>>

\* A disabled run's receipt goes back to pending.
Requeue(i) ==
    /\ ing[i].at = "claimed"
    /\ control[RunOf(i)].disabled
    /\ IF receipts[ing[i].rec].place = "processing"
       THEN receipts' = [receipts EXCEPT ![ing[i].rec].place = "pending"] /\ NextReceipt(i)
       ELSE Abort(i) /\ UNCHANGED receipts
    /\ UNCHANGED <<client, returned, operator, storeVars, attempts, worktree, natives, boundVars>>

\* Mutant: every receipt forces a new attempt.
StartsNewAlways(r, reason) == TRUE

\* A run with no attempt needs its first one, and a retry asks for a new one.
StartsNew(r, reason) == attempts[r] = <<>> \/ reason = "retry"

\* _start_or_recover lists the attempts: it goes on with the latest one or makes another.
StartOrRecover(i) ==
    /\ ing[i].at = "claimed"
    /\ ~control[RunOf(i)].disabled
    /\ ing' = IF StartsNew(RunOf(i), receipts[ing[i].rec].reason)
              THEN [ing EXCEPT ![i].at = "number"]
              ELSE [ing EXCEPT ![i].at = "latest", ![i].no = Len(attempts[RunOf(i)])]
    /\ UNCHANGED <<client, returned, operator, storeVars, workVars, boundVars>>

\* Mutant: a recorded submission is not looked for before submitting again.
ReadSubmissionForgets(i) ==
    /\ ing[i].at = "latest"
    /\ Goto(i, "submit")
    /\ UNCHANGED <<client, returned, operator, storeVars, workVars, boundVars>>

\* The latest attempt's submission.json, when it is there, is the answer.
ReadSubmission(i) ==
    /\ ing[i].at = "latest"
    /\ Goto(i, IF AttemptOf(i).sub # 0 THEN "finish" ELSE "submit")
    /\ UNCHANGED <<client, returned, operator, storeVars, workVars, boundVars>>

\* next_attempt lists the attempts again.
NumberAttempt(i) ==
    /\ ing[i].at = "number"
    /\ ing' = [ing EXCEPT ![i].at = "control", ![i].no = Len(attempts[RunOf(i)]) + 1]
    /\ UNCHANGED <<client, returned, operator, storeVars, workVars, boundVars>>

ReadRetryRef(i) ==
    /\ ing[i].at = "control"
    /\ ing' = [ing EXCEPT ![i].at = "resolve", ![i].ref = control[RunOf(i)].ref]
    /\ UNCHANGED <<client, returned, operator, storeVars, workVars, boundVars>>

\* git rev-parse of the code reference, the run's own unless a retry set one.
ResolveCommit(i) ==
    /\ ing[i].at = "resolve"
    /\ ing' = [ing EXCEPT ![i].at = "worktree",
                          ![i].commit = IF ing[i].ref # 0 THEN ing[i].ref ELSE head]
    /\ UNCHANGED <<client, returned, operator, storeVars, workVars, boundVars>>

\* Mutant: drift is not looked at.
AfterPinAny(commit) == "mkdir"

\* After the worktree is pinned the identity is resolved from it: drift blocks the attempt.
AfterPin(commit) == IF commit \in Drifted THEN "fail" ELSE "mkdir"
PinError(commit) == IF commit \in Drifted THEN "drift" ELSE "none"
Pinned(i) ==
    ing' = [ing EXCEPT ![i].at = AfterPin(ing[i].commit), ![i].error = PinError(ing[i].commit)]

\* A retry's code reference is taken back once the worktree exists.
CheckedOut(i) == IF ing[i].ref # 0 THEN Goto(i, "clear") ELSE Pinned(i)

\* GitWorkspaceManager.create accepts an existing worktree only at the commit asked for.
WorktreeAccepts(r, no, commit) == worktree[r][no] = commit

FindWorktree(i) ==
    /\ ing[i].at = "worktree"
    /\ LET there == ing[i].no <= Len(worktree[RunOf(i)])
           fits  == there /\ WorktreeAccepts(RunOf(i), ing[i].no, ing[i].commit)
       IN  \/ ~there /\ Goto(i, "add")
           \/ fits /\ CheckedOut(i)
           \/ there /\ ~fits /\ Fail(i, "worktree")
    /\ UNCHANGED <<client, returned, operator, storeVars, workVars, boundVars>>

\* git worktree add refuses a directory another ingester has made meanwhile.
AddWorktree(i) ==
    /\ ing[i].at = "add"
    /\ IF ing[i].no > Len(worktree[RunOf(i)])
       THEN /\ worktree' = [worktree EXCEPT ![RunOf(i)] = Append(@, ing[i].commit)]
            /\ CheckedOut(i)
       ELSE Fail(i, "worktree") /\ UNCHANGED worktree
    /\ UNCHANGED <<client, returned, operator, storeVars, receipts, attempts, natives, boundVars>>

\* set_control(retry_code_ref=None), once the worktree exists.
ClearRetryRef(i) ==
    /\ ing[i].at = "clear"
    /\ control' = [control EXCEPT ![RunOf(i)].ref = 0]
    /\ Pinned(i)
    /\ UNCHANGED <<client, returned, operator, batchRec, intents, paused, workVars, boundVars>>

\* create_attempt: the directory first, then attempt.json by atomic rename.
MakeAttemptDir(i) ==
    /\ ing[i].at = "mkdir"
    /\ attempts' = IF ing[i].no > Len(attempts[RunOf(i)])
                   THEN [attempts EXCEPT ![RunOf(i)] = Append(@, EmptyAttempt(ing[i].rec))]
                   ELSE attempts
    /\ Goto(i, "record")
    /\ UNCHANGED <<client, returned, operator, storeVars, receipts, worktree, natives, boundVars>>

\* attempt.json is immutable and carries a timestamp: a second writer that sees it raises.
TestAttempt(i) ==
    /\ ing[i].at = "record"
    /\ IF AttemptOf(i).commit = 0 THEN Goto(i, "write") ELSE Fail(i, "conflict")
    /\ UNCHANGED <<client, returned, operator, storeVars, workVars, boundVars>>

\* The rename replaces whatever another ingester has written since the test.
RecordAttempt(i) ==
    /\ ing[i].at = "write"
    /\ SetAttempt(i, [AttemptOf(i) EXCEPT !.commit = ing[i].commit, !.by = ing[i].rec])
    /\ Goto(i, "submit")
    /\ UNCHANGED <<client, returned, operator, storeVars, receipts, worktree, natives, boundVars>>

\* Mutant: the executor is called with no durable intent.
WriteIntentSkipped(i) ==
    /\ ing[i].at = "submit"
    /\ IF AttemptOf(i).commit = 0 THEN Fail(i, "unreadable") ELSE Goto(i, "sentinel")
    /\ UNCHANGED <<client, returned, operator, storeVars, workVars, boundVars>>

\* _submit_attempt reads attempt.json and makes the submission intent durable.  Intents
\* carry no timestamp: two ingesters that both find none write the same one.
WriteIntent(i) ==
    /\ ing[i].at = "submit"
    /\ IF AttemptOf(i).commit = 0
       THEN Fail(i, "unreadable") /\ UNCHANGED attempts
       ELSE SetAttempt(i, [AttemptOf(i) EXCEPT !.intent = TRUE]) /\ Goto(i, "sentinel")
    /\ UNCHANGED <<client, returned, operator, storeVars, receipts, worktree, natives, boundVars>>

\* executor-start.json names a Slurm job when the runner ran under Slurm.
ReadStart(i) ==
    /\ ing[i].at = "sentinel"
    /\ IF Executor = "slurm" /\ AttemptOf(i).start # 0
       THEN ing' = [ing EXCEPT ![i].at = "handle", ![i].native = AttemptOf(i).start]
       ELSE Goto(i, "correlate")
    /\ UNCHANGED <<client, returned, operator, storeVars, workVars, boundVars>>

Live(n) == natives[n].st \in {"queued", "running", "started"}

\* Mutant: only running jobs are listed, not the ones still pending in the queue.
CorrelatesRunning(r, no) ==
    {n \in DOMAIN natives : natives[n].run = r /\ natives[n].no = no
                              /\ natives[n].st \in {"running", "started"}}

\* executor.correlate: the active Slurm queue by comment, or the local metadata file.
Correlates(r, no) ==
    IF Executor = "slurm"
    THEN {n \in DOMAIN natives : natives[n].run = r /\ natives[n].no = no /\ Live(n)}
    ELSE {attempts[r][no].meta} \ {0}

\* Mutant: a job found again is returned without recording its handle.
CorrelateUnrecorded(i) ==
    /\ ing[i].at = "correlate"
    /\ Goto(i, IF Correlates(RunOf(i), ing[i].no) # {} THEN "finish"
               ELSE IF Executor = "local" THEN "again" ELSE "launch")
    /\ UNCHANGED <<client, returned, operator, storeVars, workVars, boundVars>>

Correlate(i) ==
    /\ ing[i].at = "correlate"
    /\ LET matches == Correlates(RunOf(i), ing[i].no) IN
       CASE Cardinality(matches) > 1 -> Fail(i, "ambiguous")
         [] matches = {}             -> Goto(i, IF Executor = "local" THEN "again" ELSE "launch")
         [] OTHER -> ing' = [ing EXCEPT ![i].at = "handle",
                                        ![i].native = CHOOSE n \in matches : TRUE]
    /\ UNCHANGED <<client, returned, operator, storeVars, workVars, boundVars>>

NewNative(i) ==
    [run |-> RunOf(i), no |-> ing[i].no, st |-> IF Executor = "slurm" THEN "queued" ELSE "running"]

\* LocalExecutor.submit looks at its metadata file once more.
CorrelateAgain(i) ==
    /\ ing[i].at = "again"
    /\ ing' = IF AttemptOf(i).meta # 0
              THEN [ing EXCEPT ![i].at = "handle", ![i].native = AttemptOf(i).meta]
              ELSE [ing EXCEPT ![i].at = "launch"]
    /\ UNCHANGED <<client, returned, operator, storeVars, workVars, boundVars>>

\* executor.submit takes effect: sbatch queues a job, Popen starts a process.
Launch(i) ==
    /\ ing[i].at = "launch"
    /\ natives' = Append(natives, NewNative(i))
    /\ ing' = [ing EXCEPT ![i].native = Len(natives) + 1,
                          ![i].at = IF Executor = "local" THEN "meta" ELSE "handle"]
    /\ UNCHANGED <<client, returned, operator, storeVars, receipts, attempts, worktree, boundVars>>

\* A command of the executor fails and the call raises: squeue, before anything is
\* submitted, or sbatch, which refuses the job or queues it without a usable answer.
ExecutorFails(i, how) ==
    /\ how \in ExecutorFaults
    /\ ing[i].at = IF how = "query" THEN "correlate" ELSE "launch"
    /\ natives' = IF how = "lost" THEN Append(natives, NewNative(i)) ELSE natives
    /\ Fail(i, "executor")
    /\ UNCHANGED <<client, returned, operator, storeVars, receipts, attempts, worktree, boundVars>>

\* LocalExecutor writes its metadata only after the process exists.
RecordLocal(i) ==
    /\ ing[i].at = "meta"
    /\ SetAttempt(i, [AttemptOf(i) EXCEPT !.meta = ing[i].native])
    /\ Goto(i, "handle")
    /\ UNCHANGED <<client, returned, operator, storeVars, receipts, worktree, natives, boundVars>>

\* A submission.json that is already there is left alone.
TestSubmission(i) ==
    /\ ing[i].at = "handle"
    /\ Goto(i, IF AttemptOf(i).sub # 0 THEN "finish" ELSE "check")
    /\ UNCHANGED <<client, returned, operator, storeVars, workVars, boundVars>>

\* write_submission tests for the file twice: the first test lets an equal record pass, the
\* second compares its timestamp too and raises.
CheckSubmission(i) ==
    /\ ing[i].at = "check"
    /\ \/ AttemptOf(i).sub = 0 /\ Goto(i, "store")
       \/ AttemptOf(i).sub = ing[i].native /\ Goto(i, "finish")
       \/ AttemptOf(i).sub # 0 /\ Fail(i, "conflict")
    /\ UNCHANGED <<client, returned, operator, storeVars, workVars, boundVars>>

RecordSubmission(i) ==
    /\ ing[i].at = "store"
    /\ SetAttempt(i, [AttemptOf(i) EXCEPT !.sub = ing[i].native])
    /\ Goto(i, "finish")
    /\ UNCHANGED <<client, returned, operator, storeVars, receipts, worktree, natives, boundVars>>

\* finish_receipt: accepted, or rejected with the error in the event log.
Finish(i) ==
    /\ ing[i].at \in {"finish", "fail"}
    /\ IF receipts[ing[i].rec].place = "processing"
       THEN /\ receipts' = [receipts EXCEPT
                 ![ing[i].rec] = [@ EXCEPT !.place = IF ing[i].at = "finish" THEN "accepted" ELSE "rejected",
                                           !.error = ing[i].error]]
            /\ NextReceipt(i)
       ELSE Abort(i) /\ UNCHANGED receipts
    /\ UNCHANGED <<client, returned, operator, storeVars, attempts, worktree, natives, boundVars>>

IngestEnd(i) ==
    /\ ing[i].at = "scan" /\ ing[i].todo = {}
    /\ Abort(i)
    /\ UNCHANGED <<client, returned, operator, storeVars, workVars, boundVars>>

-----------------------------------------------------------------------------
(***************************************************************************)
(* The operator's commands, the executor's jobs, the branch, and crashes   *)
(***************************************************************************)

Command(kind) ==
    /\ operator.at = "idle" /\ kind \in Commands
    /\ commands < MaxCommands
    /\ commands' = commands + 1

\* control_run disable / enable.
SetDisabled(r) ==
    /\ Command("disable") /\ r \in intents
    /\ control' = [control EXCEPT ![r].disabled = ~@]
    /\ UNCHANGED <<client, returned, ing, operator, batchRec, intents, paused, workVars, submits, crashes, head>>

Pause ==
    /\ Command("pause")
    /\ paused' = ~paused
    /\ UNCHANGED <<client, returned, ing, operator, batchRec, intents, control, workVars, submits, crashes, head>>

\* retry writes the commit policy into control.json, then enqueues its receipt.
Retry(r, latest) ==
    /\ Command("retry") /\ r \in intents
    /\ LET n == Len(attempts[r]) IN
       /\ latest \/ (n > 0 /\ attempts[r][n].commit # 0)
       /\ control' = [control EXCEPT ![r].ref = IF latest THEN 0 ELSE attempts[r][n].commit,
                                     ![r].cancelled = FALSE]
    /\ operator' = [at |-> "retry", run |-> r]
    /\ UNCHANGED <<client, returned, ing, batchRec, intents, paused, workVars, submits, crashes, head>>

EnqueueRetry ==
    /\ operator.at = "retry"
    /\ receipts' = Append(receipts, Receipt(operator.run, "retry"))
    /\ operator' = IdleOperator
    /\ UNCHANGED <<client, returned, ing, storeVars, attempts, worktree, natives, boundVars>>

\* cancel stops the latest attempt's recorded handle, then marks the run.
Cancel(r) ==
    /\ Command("cancel") /\ r \in intents
    /\ attempts[r] # <<>>
    /\ LET n == attempts[r][Len(attempts[r])].sub IN
       /\ n # 0
       /\ natives' = [natives EXCEPT ![n].st = "ended"]
    /\ operator' = [at |-> "cancel", run |-> r]
    /\ UNCHANGED <<client, returned, ing, storeVars, receipts, attempts, worktree, submits, crashes, head>>

MarkCancelled ==
    /\ operator.at = "cancel"
    /\ control' = [control EXCEPT ![operator.run].cancelled = TRUE]
    /\ operator' = IdleOperator
    /\ UNCHANGED <<client, returned, ing, batchRec, intents, paused, workVars, boundVars>>

\* Slurm starts a queued job's launch script.
NativeStart(n) ==
    /\ natives[n].st = "queued"
    /\ natives' = [natives EXCEPT ![n].st = "running"]
    /\ UNCHANGED <<client, returned, ing, operator, storeVars, receipts, attempts, worktree, boundVars>>

\* run_attempt writes executor-start.json before it does anything else.
RunnerStart(n) ==
    /\ natives[n].st = "running"
    /\ natives' = [natives EXCEPT ![n].st = "started"]
    /\ attempts' = [attempts EXCEPT ![natives[n].run] = [@ EXCEPT ![natives[n].no].start = n]]
    /\ UNCHANGED <<client, returned, ing, operator, storeVars, receipts, worktree, boundVars>>

\* The job leaves the queue: the runner returned, or the job was killed.
NativeEnd(n) ==
    /\ Live(n)
    /\ natives' = [natives EXCEPT ![n].st = "ended"]
    /\ UNCHANGED <<client, returned, ing, operator, storeVars, receipts, attempts, worktree, boundVars>>

\* The branch moves on.
Push ==
    /\ head < MaxCommits
    /\ head' = head + 1
    /\ UNCHANGED <<client, returned, ing, operator, storeVars, workVars, submits, commands, crashes>>

Crash ==
    /\ crashes < MaxCrashes
    /\ crashes' = crashes + 1
    /\ \/ \E i \in Ingesters : ing[i].at # "idle" /\ Abort(i) /\ UNCHANGED <<client, operator>>
       \/ \E c \in Clients : /\ client[c].at # "idle"
                             /\ client' = [client EXCEPT ![c] = IdleClient]
                             /\ UNCHANGED <<ing, operator>>
       \/ /\ operator.at # "idle"
          /\ operator' = IdleOperator
          /\ UNCHANGED <<client, ing>>
    /\ UNCHANGED <<returned, storeVars, workVars, submits, commands, head>>

-----------------------------------------------------------------------------
SubmitStep(c) == SubmitBatch(c) \/ CreateBatch(c) \/ CreateRun(c) \/ Enqueue(c)

IngestStep(i) ==
    \/ IngestStart(i) \/ Claim(i) \/ ReceiptGone(i) \/ Requeue(i)
    \/ StartOrRecover(i) \/ ReadSubmission(i) \/ NumberAttempt(i)
    \/ ReadRetryRef(i) \/ ResolveCommit(i) \/ FindWorktree(i) \/ AddWorktree(i)
    \/ ClearRetryRef(i) \/ MakeAttemptDir(i) \/ TestAttempt(i) \/ RecordAttempt(i)
    \/ WriteIntent(i) \/ ReadStart(i) \/ Correlate(i) \/ CorrelateAgain(i) \/ Launch(i)
    \/ RecordLocal(i) \/ TestSubmission(i) \/ CheckSubmission(i) \/ RecordSubmission(i)
    \/ Finish(i) \/ IngestEnd(i)

OperatorStep ==
    \/ \E r \in Runs : SetDisabled(r) \/ Cancel(r) \/ \E latest \in BOOLEAN : Retry(r, latest)
    \/ Pause \/ EnqueueRetry \/ MarkCancelled

NativeStep == \E n \in DOMAIN natives : NativeStart(n) \/ RunnerStart(n) \/ NativeEnd(n)

JobNext ==
    \/ \E c \in Clients : SubmitStep(c)
    \/ \E i \in Ingesters : IngestStep(i) \/ \E how \in ExecutorFaults : ExecutorFails(i, how)
    \/ OperatorStep \/ NativeStep \/ Push \/ Crash

JobSpec == JobInit /\ [][JobNext]_vars

\* The timer restarts ingest_once for ever and every call it makes returns.
LiveJobSpec == JobSpec /\ \A i \in Ingesters : WF_vars(IngestStep(i))

-----------------------------------------------------------------------------
(***************************************************************************)
(* Properties                                                              *)
(***************************************************************************)

Places == {"pending", "processing", "accepted", "rejected"}

\* Every record holds what its writer puts there, and handles name existing jobs.
JobTypeOK ==
    /\ intents \subseteq Runs /\ head \in Commits
    /\ \A k \in DOMAIN receipts : receipts[k].run \in Runs /\ receipts[k].place \in Places
    /\ \A r \in Runs : Len(attempts[r]) <= Len(worktree[r]) /\ Len(worktree[r]) <= Len(attempts[r]) + 1
    /\ \A r \in Runs : \A a \in DOMAIN attempts[r] :
         LET att == attempts[r][a] IN
         /\ att.commit \in 0..MaxCommits /\ att.by \in DOMAIN receipts
         /\ {att.sub, att.meta, att.start} \subseteq 0..Len(natives)
         /\ att.sub # 0 => att.intent /\ att.commit # 0
    /\ \A n \in DOMAIN natives : natives[n].no \in DOMAIN attempts[natives[n].run]

\* One execution id has at most one job that is queued or running: an ingester that died
\* between sbatch and submission.json is followed by one that finds the job again, in the
\* start sentinel or in the queue, and never queues a second one beside it.
OneLiveExecution ==
    \A n, m \in DOMAIN natives :
        (natives[n].run = natives[m].run /\ natives[n].no = natives[m].no /\ Live(n) /\ Live(m))
            => n = m

\* The commit in attempt.json is the commit checked out in the attempt's worktree and its
\* scientific identity is the series', whatever the branch did between the crash of the
\* ingester that made the worktree and the ingester that writes the record.
PinnedCode ==
    \A r \in Runs : \A a \in DOMAIN attempts[r] :
        attempts[r][a].commit # 0 =>
            attempts[r][a].commit = worktree[r][a] /\ attempts[r][a].commit \notin Drifted

\* Submit receipts, duplicated by concurrent clients or replayed after a crash, start a
\* run's first attempt and never another one, while ingesters run one at a time.
SubmitReceiptsStartOneAttempt ==
    \A r \in Runs : \A a, b \in DOMAIN attempts[r] :
        (receipts[attempts[r][a].by].reason = "submit" /\ receipts[attempts[r][b].by].reason = "submit")
            => a = b

\* While ingesters run one at a time, a receipt filed as accepted has a durable handle: its
\* retry's own attempt, or the run's latest attempt at the time, records the job that was
\* submitted or found for it.
AcceptedIsSubmitted ==
    \A k \in DOMAIN receipts : receipts[k].place = "accepted" =>
        \E a \in DOMAIN attempts[receipts[k].run] :
            /\ attempts[receipts[k].run][a].sub # 0
            /\ receipts[k].reason = "retry" => attempts[receipts[k].run][a].by = k

\* However ingesters overlap, a run with an accepted receipt has an attempt whose handle is
\* durable: no ingester reports a job that another one launched, or that it found in the
\* queue, before some submission.json names it.
AcceptedHasHandle ==
    \A k \in DOMAIN receipts : receipts[k].place = "accepted" =>
        \E a \in DOMAIN attempts[receipts[k].run] : attempts[receipts[k].run][a].sub # 0

\* Recovery never restarts a run that was cancelled: a job is launched for a run marked
\* cancelled only on an attempt a retry asked for.
CancelledIsNotRelaunched ==
    [][\A n \in DOMAIN natives' \ DOMAIN natives :
          LET job == natives'[n] IN
          control[job.run].cancelled =>
              receipts[attempts[job.run][job.no].by].reason = "retry"]_vars

Settled(k) == k \in DOMAIN receipts /\ receipts[k].place \in {"accepted", "rejected"}
Open(k)    == ~paused /\ k \in DOMAIN receipts /\ ~control[receipts[k].run].disabled

\* How many receipts submits and retries can enqueue.
MaxReceipts == NRuns * MaxSubmits + (IF "retry" \in Commands THEN MaxCommands ELSE 0)

\* Every receipt is eventually filed as accepted or rejected, through any crash of an
\* ingester, unless the service stays paused or its run stays disabled.
ReceiptsSettle ==
    \A k \in 1..MaxReceipts : <>[]Open(k) => <>Settled(k)

(***************************************************************************)
(* What the documentation says and the code does not                       *)
(***************************************************************************)

\* A batch submit_batch has returned has a receipt for each of its planned runs.
ReturnedBatchIsComplete ==
    returned => \A r \in Runs : \E k \in DOMAIN receipts : receipts[k].run = r

\* No blind duplicate submission: a job is submitted for a receipt only while no runner has
\* started for it, on this attempt or on another one made for the same receipt.
StartedIsNotResubmitted ==
    [][\A n \in DOMAIN natives' \ DOMAIN natives :
          LET job == natives'[n] IN
          \A a \in DOMAIN attempts[job.run] :
              attempts[job.run][a].by = attempts[job.run][job.no].by => attempts[job.run][a].start = 0]_vars
=============================================================================
