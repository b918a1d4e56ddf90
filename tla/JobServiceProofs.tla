-------------------------- MODULE JobServiceProofs --------------------------
(***************************************************************************)
(* Proofs about JobService.                                                *)
(*                                                                         *)
(* JobInv holds for any number of clients, ingesters and runs and for both *)
(* executors.  It relates what an ingester remembers to what is on disk:   *)
(* from the checkout on its worktree is at the commit it carries, from the *)
(* intent on its attempt has one, at the end it has a handle.  What is on  *)
(* disk only grows (Kept), so no other process can undo such a relation.   *)
(*                                                                         *)
(* SerialInv needs the ingesters to run one at a time, as the systemd unit *)
(* runs them: then an ingester is alone with the latest attempt of its run *)
(* from the time it has listed the attempts, so the number it takes is     *)
(* free, the attempt it makes is its own and the queue it has looked at    *)
(* gets no job but its own.                                                *)
(***************************************************************************)
EXTENDS JobService, TLAPS

-----------------------------------------------------------------------------
(* The inductive invariant.                                                *)

\* Where an ingester is, by what it has reached.
Fresh      == {"control", "resolve", "worktree", "add", "clear", "mkdir", "record", "write"}
InWorktree == {"clear", "mkdir", "record", "write"}
Verified   == {"mkdir", "record", "write"}
Handling   == {"meta", "handle", "check", "store"}
Submitting == {"sentinel", "correlate", "again", "launch"} \union Handling
Recorded   == {"latest", "submit", "finish"} \union Submitting
Existing   == {"record", "write"} \union Recorded
Holding    == {"claimed", "number", "fail"} \union Fresh \union Recorded
Points     == {"idle", "scan"} \union Holding
Reasons    == {"submit", "retry"}
Errors     == {"none", "worktree", "drift", "conflict", "unreadable", "ambiguous", "executor"}

Receipts == [run : Runs, reason : Reasons, place : Places, error : Errors]
Entries  == [id : Nat, listed : {"pending", "processing"}]
Attempts == [commit : 0..MaxCommits, intent : BOOLEAN, meta : Nat, start : Nat, sub : Nat, by : Nat]
Locals   == [at : Points, todo : SUBSET Entries, rec : Nat, no : Nat, ref : 0..MaxCommits,
             commit : 0..MaxCommits, native : Nat, error : Errors]
Jobs     == [run : Runs, no : Nat, st : {"queued", "running", "started", "ended"}]

Controls == [disabled : BOOLEAN, cancelled : BOOLEAN, ref : 0..MaxCommits]

Types ==
    /\ client \in [Clients -> [at : {"idle", "batch", "run", "enqueue"}, run : 0..NRuns]]
    /\ intents \subseteq Runs
    /\ receipts \in Seq(Receipts)
    /\ ing \in [Ingesters -> Locals]
    /\ attempts \in [Runs -> Seq(Attempts)]
    /\ worktree \in [Runs -> Seq(Commits)]
    /\ head \in Commits
    /\ natives \in Seq(Jobs)
    /\ control \in [Runs -> Controls]
    /\ operator \in [at : {"idle", "retry", "cancel"}, run : 0..NRuns]

\* A process that is about to write about a run has one.
HasRun ==
    /\ \A c \in Clients : client[c].at \in {"run", "enqueue"} => client[c].run \in Runs
    /\ operator.at # "idle" => operator.run \in Runs

\* Attempt a of run r, as the files of its directory tell it.
AttemptInv(r, a) ==
    LET att == attempts[r][a] IN
    /\ att.by \in 1..Len(receipts)
    /\ att.sub <= Len(natives) /\ att.meta <= Len(natives) /\ att.start <= Len(natives)
    /\ att.sub # 0 => att.intent
    /\ att.intent => att.commit # 0
    /\ att.commit # 0 => att.commit = worktree[r][a] /\ att.commit \notin Drifted

RunInv(r) ==
    /\ Len(attempts[r]) <= Len(worktree[r]) /\ Len(worktree[r]) <= Len(attempts[r]) + 1
    /\ \A a \in 1..Len(attempts[r]) : AttemptInv(r, a)

JobsInv == \A n \in 1..Len(natives) : natives[n].no \in 1..Len(attempts[natives[n].run])

\* Receipt k, once it is accepted, has an attempt with a handle.
Accepted(k) ==
    receipts[k].place = "accepted" =>
        \E a \in 1..Len(attempts[receipts[k].run]) : attempts[receipts[k].run][a].sub # 0

\* What ingester i knows of the store.
IngesterInv(i) ==
    LET at == ing[i].at
        no == ing[i].no
        r == RunOf(i)
    IN
    /\ \A e \in ing[i].todo : e.id \in 1..Len(receipts)
    /\ at \in Holding => ing[i].rec \in 1..Len(receipts)
    /\ at \in Fresh => no \in 1..(Len(attempts[r]) + 1)
    /\ at \in {"worktree", "add"} => ing[i].commit # 0
    /\ at \in InWorktree => no <= Len(worktree[r]) /\ worktree[r][no] = ing[i].commit
    /\ at \in Verified => ing[i].commit \notin Drifted
    /\ at \in Existing => no \in 1..Len(attempts[r])
    /\ at \in Submitting => AttemptOf(i).intent
    /\ at \in Handling => ing[i].native \in 1..Len(natives)
    /\ at = "finish" => AttemptOf(i).sub # 0

JobInv ==
    /\ Types
    /\ HasRun
    /\ \A r \in Runs : RunInv(r)
    /\ JobsInv
    /\ \A k \in 1..Len(receipts) : Accepted(k)
    /\ \A i \in Ingesters : IngesterInv(i)

-----------------------------------------------------------------------------
(* The invariant of one ingester at a time.                                *)

IsRetry(r, a) == receipts[attempts[r][a].by].reason = "retry"

\* Run r is cancelled, or is being cancelled.
Stopping(r) == control[r].cancelled \/ (operator.at = "cancel" /\ operator.run = r)

\* A cancelled run's latest attempt is submitted or is what a retry asked for.
StoppedInv(r) ==
    Stopping(r) =>
        LET n == Len(attempts[r]) IN n > 0 /\ (attempts[r][n].sub # 0 \/ IsRetry(r, n))

\* Ingester i is alone with the latest attempt of its run.
AloneInv(i) ==
    LET at == ing[i].at
        last == Len(attempts[RunOf(i)])
        retry == receipts[ing[i].rec].reason = "retry"
    IN
    /\ at = "number" /\ ~retry => last = 0
    /\ at \in Fresh /\ ~retry => ing[i].no = 1
    /\ at \in Fresh \ Existing => ing[i].no = last + 1
    /\ at \in Existing \ {"finish"} => ing[i].no = last
    /\ at \in Existing \ {"latest", "finish"} => AttemptOf(i).sub = 0
    /\ at \in Fresh \intersect Existing => AttemptOf(i).by = ing[i].rec
    /\ at \in Recorded /\ retry => AttemptOf(i).by = ing[i].rec

\* Under Slurm an ingester about to queue a job has just seen that there is none.
NoneLive(i) ==
    Executor = "slurm" /\ ing[i].at \in {"again", "launch"} =>
        \A n \in 1..Len(natives) : natives[n].run = RunOf(i) /\ natives[n].no = ing[i].no => ~Live(n)

\* Only the first attempt of run r was made for a submit receipt.
OriginInv(r) == \A a \in 1..Len(attempts[r]) : IsRetry(r, a) \/ a = 1

\* Retry k, once it is accepted, has an attempt of its own with a handle.
OwnAccepted(k) ==
    receipts[k].place = "accepted" /\ receipts[k].reason = "retry" =>
        \E a \in 1..Len(attempts[receipts[k].run]) :
            attempts[receipts[k].run][a].sub # 0 /\ attempts[receipts[k].run][a].by = k

SerialInv ==
    /\ \A r \in Runs : StoppedInv(r) /\ OriginInv(r)
    /\ \A k \in 1..Len(receipts) : OwnAccepted(k)
    /\ \A i \in Ingesters : AloneInv(i) /\ NoneLive(i)
    /\ Executor = "slurm" => OneLiveExecution

-----------------------------------------------------------------------------
\* The files one by one.
LEMMA Elements ==
  ASSUME Types
  PROVE  /\ Len(receipts) \in Nat /\ DOMAIN receipts = 1..Len(receipts)
         /\ \A k \in 1..Len(receipts) : receipts[k] \in Receipts
         /\ \A r \in Runs : /\ attempts[r] \in Seq(Attempts) /\ Len(attempts[r]) \in Nat
                            /\ DOMAIN attempts[r] = 1..Len(attempts[r])
                            /\ worktree[r] \in Seq(Commits) /\ Len(worktree[r]) \in Nat
                            /\ \A a \in 1..Len(attempts[r]) : attempts[r][a] \in Attempts
                            /\ \A a \in 1..Len(worktree[r]) : worktree[r][a] \in Commits
         /\ Len(natives) \in Nat /\ DOMAIN natives = 1..Len(natives)
         /\ \A n \in 1..Len(natives) : natives[n] \in Jobs
BY DEF Types

(* What each step of an ingester does, field by field.                     *)

\* Ingester i has moved to point at with these locals; the others are as they were.
IngIs(i, at, rec, no, commit, native) ==
    /\ ing' \in [Ingesters -> Locals]
    /\ ing'[i].at = at /\ ing'[i].rec = rec /\ ing'[i].no = no
    /\ ing'[i].commit = commit /\ ing'[i].native = native
    /\ ing'[i].todo \subseteq ing[i].todo
    /\ \A j \in Ingesters \ {i} : ing'[j] = ing[j]

\* Ingester i has moved to point at and remembers what it did.
Goes(i, at) == IngIs(i, at, ing[i].rec, ing[i].no, ing[i].commit, ing[i].native)

\* Ingester i has let its receipt go.
Drops(i) == \E at \in {"idle", "scan"} : IngIs(i, at, 0, 0, 0, 0)

\* A jump keeps the locals.
LEMMA GotoGoes ==
  ASSUME Types, NEW i \in Ingesters, NEW at \in Points, Goto(i, at)
  PROVE  Goes(i, at)
BY DEF Types, Goto, Goes, IngIs, Locals

\* A failure keeps the locals too, and goes to the rejection of the receipt.
LEMMA FailGoes ==
  ASSUME Types, NEW i \in Ingesters, NEW why \in Errors, Fail(i, why)
  PROVE  Goes(i, "fail")
BY DEF Types, Fail, Goes, IngIs, Locals, Points, Holding

\* An ingester that is not running keeps no locals.
LEMMA IdleLocals ==
  /\ IdleIngester \in Locals /\ IdleIngester.at = "idle" /\ IdleIngester.todo = {}
  /\ IdleIngester.rec = 0 /\ IdleIngester.no = 0
  /\ IdleIngester.commit = 0 /\ IdleIngester.native = 0
BY JobAssumption DEF IdleIngester, Locals, Points, Errors

\* An ingester that aborts or crashes forgets everything.
LEMMA AbortDrops ==
  ASSUME Types, NEW i \in Ingesters, Abort(i)
  PROVE  Drops(i)
<1>1. IngIs(i, "idle", 0, 0, 0, 0)
  BY IdleLocals DEF Types, Abort, IngIs
<1> QED BY <1>1 DEF Drops

\* An ingester that goes on to its next receipt keeps only the listing.
LEMMA NextDrops ==
  ASSUME Types, NEW i \in Ingesters, NextReceipt(i)
  PROVE  Drops(i)
<1> DEFINE w == [IdleIngester EXCEPT !.at = "scan", !.todo = ing[i].todo]
<1>1. ing' = [ing EXCEPT ![i] = w]
  BY DEF NextReceipt
<1>2. /\ w \in Locals /\ w.at = "scan" /\ w.todo = ing[i].todo
      /\ w.rec = 0 /\ w.no = 0 /\ w.commit = 0 /\ w.native = 0
  BY IdleLocals DEF Types, Locals, Points
<1> HIDE DEF w
<1>3. IngIs(i, "scan", 0, 0, 0, 0)
  BY <1>1, <1>2 DEF Types, IngIs
<1> QED BY <1>3 DEF Drops

-----------------------------------------------------------------------------
(* What is on disk only grows.                                             *)

\* No receipt is taken back or changes its meaning.
ReceiptsKept ==
    /\ Len(receipts) <= Len(receipts')
    /\ \A k \in 1..Len(receipts) :
         receipts'[k].run = receipts[k].run /\ receipts'[k].reason = receipts[k].reason

\* No receipt is filed as accepted in this step.
NoneAccepted ==
    \A k \in 1..Len(receipts') :
        receipts'[k].place = "accepted" => k <= Len(receipts) /\ receipts[k].place = "accepted"

\* Attempt a of run r keeps the records it has.
AttemptKept(r, a) ==
    LET old == attempts[r][a]
        new == attempts'[r][a]
    IN
    /\ old.commit # 0 => new.commit = old.commit
    /\ old.intent => new.intent
    /\ old.sub # 0 => new.sub # 0

AttemptsKept ==
    \A r \in Runs :
        /\ Len(attempts[r]) <= Len(attempts'[r])
        /\ \A a \in 1..Len(attempts[r]) : AttemptKept(r, a)

WorktreesKept ==
    \A r \in Runs :
        /\ Len(worktree[r]) <= Len(worktree'[r])
        /\ \A a \in 1..Len(worktree[r]) : worktree'[r][a] = worktree[r][a]

\* A job keeps its execution id, and one that has ended is not revived.
NativesKept ==
    /\ Len(natives) <= Len(natives')
    /\ \A n \in 1..Len(natives) :
         /\ natives'[n].run = natives[n].run /\ natives'[n].no = natives[n].no
         /\ Live(n)' => Live(n)

Kept == ReceiptsKept /\ AttemptsKept /\ WorktreesKept /\ NativesKept

\* A step that writes no file keeps them all.
LEMMA UnchangedKept ==
  ASSUME Types
  PROVE  /\ UNCHANGED receipts => ReceiptsKept /\ NoneAccepted
         /\ UNCHANGED attempts => AttemptsKept
         /\ UNCHANGED worktree => WorktreesKept
         /\ UNCHANGED natives => NativesKept
<1>1. ASSUME UNCHANGED receipts PROVE ReceiptsKept /\ NoneAccepted
  BY <1>1 DEF Types, ReceiptsKept, NoneAccepted
<1>2. ASSUME UNCHANGED attempts PROVE AttemptsKept
  BY <1>2 DEF Types, AttemptsKept, AttemptKept
<1>3. ASSUME UNCHANGED worktree PROVE WorktreesKept
  BY <1>3 DEF Types, WorktreesKept
<1>4. ASSUME UNCHANGED natives PROVE NativesKept
  BY <1>4 DEF Types, NativesKept, Live
<1> QED BY <1>1, <1>2, <1>3, <1>4

\* What ingester i knows stays true while others write.
LEMMA KnowledgeIsStable ==
  ASSUME Types, Types', Kept, NEW i \in Ingesters, ing'[i] = ing[i], IngesterInv(i),
         \A r \in Runs : RunInv(r)
  PROVE  IngesterInv(i)'
<1> USE DEF Fresh, InWorktree, Verified, Handling, Submitting, Recorded, Existing, Holding
<1>1. CASE ing[i].at \notin Holding
  BY <1>1 DEF Types, Kept, ReceiptsKept, IngesterInv, Locals, Entries
<1>2. CASE ing[i].at \in Holding
  <2>1. /\ ing[i].rec \in 1..Len(receipts) /\ RunOf(i) \in Runs
        /\ RunOf(i)' = RunOf(i) /\ (ing[i].rec \in 1..Len(receipts))'
        /\ receipts'[ing[i].rec].reason = receipts[ing[i].rec].reason
    <3>1. ing[i].rec \in 1..Len(receipts) BY <1>2 DEF IngesterInv
    <3>2. receipts[ing[i].rec] \in Receipts BY <3>1 DEF Types
    <3>3. /\ Len(receipts) \in Nat /\ Len(receipts') \in Nat /\ Len(receipts) <= Len(receipts')
          /\ receipts'[ing[i].rec].run = receipts[ing[i].rec].run
          /\ receipts'[ing[i].rec].reason = receipts[ing[i].rec].reason
      BY <3>1 DEF Types, Kept, ReceiptsKept
    <3>4. RunOf(i) \in Runs /\ RunOf(i)' = RunOf(i)
      BY <3>2, <3>3 DEF RunOf, Receipts
    <3> QED BY <3>1, <3>3, <3>4
  <2>2. \A e \in ing'[i].todo : e.id \in 1..Len(receipts')
    BY DEF Types, Kept, ReceiptsKept, IngesterInv, Locals, Entries
  <2>3. /\ Len(attempts[RunOf(i)]) \in Nat /\ Len(attempts'[RunOf(i)]) \in Nat
        /\ Len(attempts[RunOf(i)]) <= Len(attempts'[RunOf(i)])
        /\ Len(worktree[RunOf(i)]) \in Nat /\ Len(worktree'[RunOf(i)]) \in Nat
        /\ Len(worktree[RunOf(i)]) <= Len(worktree'[RunOf(i)])
        /\ Len(natives) <= Len(natives') /\ Len(natives) \in Nat /\ Len(natives') \in Nat
        /\ ing[i].no \in Nat
    <3>1. ing[i] \in Locals
      BY DEF Types
    <3>2. /\ Len(attempts[RunOf(i)]) \in Nat /\ Len(attempts'[RunOf(i)]) \in Nat
          /\ Len(worktree[RunOf(i)]) \in Nat /\ Len(worktree'[RunOf(i)]) \in Nat
          /\ Len(natives) \in Nat /\ Len(natives') \in Nat
      BY <2>1 DEF Types
    <3>3. /\ Len(attempts[RunOf(i)]) <= Len(attempts'[RunOf(i)])
          /\ Len(worktree[RunOf(i)]) <= Len(worktree'[RunOf(i)])
          /\ Len(natives) <= Len(natives')
      BY <2>1 DEF Kept, AttemptsKept, WorktreesKept, NativesKept
    <3> QED BY <3>1, <3>2, <3>3 DEF Locals
  <2>4. ing[i].no \in 1..Len(attempts[RunOf(i)]) => AttemptKept(RunOf(i), ing[i].no)
    BY <2>1 DEF Kept, AttemptsKept
  <2>5. ing[i].no \in 1..Len(worktree[RunOf(i)]) =>
            worktree'[RunOf(i)][ing[i].no] = worktree[RunOf(i)][ing[i].no]
    BY <2>1 DEF Kept, WorktreesKept
  <2>6. ing[i].at \in Existing => ing[i].no \in 1..Len(attempts[RunOf(i)])
    BY DEF IngesterInv
  <2>7. AttemptOf(i) = attempts[RunOf(i)][ing[i].no]
        /\ AttemptOf(i)' = attempts'[RunOf(i)][ing[i].no]
    BY <2>1 DEF AttemptOf
  <2>8. ing[i].at \in Fresh => ing[i].no \in 1..(Len(attempts'[RunOf(i)]) + 1)
    <3>1. ing[i].at \in Fresh => ing[i].no \in 1..(Len(attempts[RunOf(i)]) + 1)
      BY DEF IngesterInv
    <3> QED BY <2>3, <3>1
  <2>9. ing[i].at \in InWorktree =>
           ing[i].no <= Len(worktree'[RunOf(i)]) /\ worktree'[RunOf(i)][ing[i].no] = ing[i].commit
    BY <2>3, <2>5, <2>8 DEF IngesterInv
  <2>10. ing[i].at \in Existing => ing[i].no \in 1..Len(attempts'[RunOf(i)])
    BY <2>3, <2>6
  <2>11. /\ ing[i].at \in Submitting => AttemptOf(i)'.intent
         /\ ing[i].at = "finish" => AttemptOf(i)'.sub # 0
    BY <2>1, <2>4, <2>6, <2>7 DEF IngesterInv, AttemptKept
  <2>12. ing[i].at \in Handling => ing[i].native \in 1..Len(natives')
    BY <2>3 DEF IngesterInv
  <2>13. /\ ing[i].at \in Verified => ing[i].commit \notin Drifted
         /\ ing[i].at \in {"worktree", "add"} => ing[i].commit # 0
    BY DEF IngesterInv
  <2> QED
    BY <2>1, <2>2, <2>8, <2>9, <2>10, <2>11, <2>12, <2>13 DEF IngesterInv
<1> QED BY <1>1, <1>2

\* An accepted receipt's attempt keeps its handle.
LEMMA AcceptedIsStable ==
  ASSUME JobInv, Types', Kept, NoneAccepted
  PROVE  \A k \in 1..Len(receipts') : Accepted(k)'
<1> SUFFICES ASSUME NEW k \in 1..Len(receipts'), receipts'[k].place = "accepted"
             PROVE  \E a \in 1..Len(attempts'[receipts'[k].run]) :
                      attempts'[receipts'[k].run][a].sub # 0
  BY DEF Accepted
<1>1. /\ k \in 1..Len(receipts) /\ receipts[k].place = "accepted"
      /\ receipts'[k].run = receipts[k].run
  <2>1. k \in Nat /\ Len(receipts) \in Nat
    BY Elements DEF JobInv
  <2>2. k \in 1..Len(receipts) /\ receipts[k].place = "accepted"
    BY <2>1 DEF NoneAccepted
  <2> QED BY <2>2 DEF Kept, ReceiptsKept
<1>2. receipts[k].run \in Runs
  BY <1>1, Elements DEF JobInv, Receipts
<1> DEFINE r == receipts[k].run
<1>3. PICK a \in 1..Len(attempts[r]) : attempts[r][a].sub # 0
  BY <1>1 DEF JobInv, Accepted
<1>4. AttemptKept(r, a) /\ a \in 1..Len(attempts'[r])
  <2>1. attempts'[r] \in Seq(Attempts) /\ attempts[r] \in Seq(Attempts)
    BY <1>2 DEF JobInv, Types
  <2>2. AttemptKept(r, a) /\ Len(attempts[r]) <= Len(attempts'[r])
    BY <1>2 DEF Kept, AttemptsKept
  <2> QED BY <2>1, <2>2
<1> QED BY <1>1, <1>3, <1>4 DEF AttemptKept

\* An attempt nobody writes to stays as its invariant says.
LEMMA AttemptIsStable ==
  ASSUME JobInv, Types', Kept, NEW r \in Runs, NEW a \in 1..Len(attempts[r]),
         attempts'[r][a] = attempts[r][a]
  PROVE  AttemptInv(r, a)'
<1>1. AttemptInv(r, a)
  BY DEF JobInv, RunInv
<1>2. attempts[r][a].by \in 1..Len(receipts)
  BY <1>1 DEF AttemptInv
<1>3. attempts[r][a].by \in 1..Len(receipts')
  <2>1. Len(receipts) <= Len(receipts') /\ Len(receipts') \in Nat /\ Len(receipts) \in Nat
    BY Elements DEF JobInv, Types, Kept, ReceiptsKept
  <2> QED BY <1>2, <2>1
<1>4. attempts[r][a] \in Attempts
  BY Elements DEF JobInv
<1>5. /\ attempts[r][a].sub <= Len(natives') /\ attempts[r][a].meta <= Len(natives')
      /\ attempts[r][a].start <= Len(natives')
  <2>1. Len(natives) <= Len(natives') /\ Len(natives') \in Nat /\ Len(natives) \in Nat
    BY Elements DEF JobInv, Types, Kept, NativesKept
  <2> QED BY <1>1, <1>4, <2>1 DEF AttemptInv, Attempts
<1>6. worktree'[r][a] = worktree[r][a]
  <2>1. a \in 1..Len(worktree[r])
    BY DEF JobInv, Types, RunInv
  <2> QED BY <2>1 DEF Kept, WorktreesKept
<1> QED BY <1>1, <1>3, <1>5, <1>6 DEF AttemptInv

\* The store's invariant while no attempt is written to: jobs may be added for attempts that exist.
LEMMA StoreIsStable ==
  ASSUME JobInv, Types', Kept, UNCHANGED <<attempts, worktree>>,
         \A n \in 1..Len(natives') :
           n \in 1..Len(natives) \/ natives'[n].no \in 1..Len(attempts[natives'[n].run])
  PROVE  (\A r \in Runs : RunInv(r)') /\ JobsInv'
<1>1. ASSUME NEW r \in Runs PROVE RunInv(r)'
  BY AttemptIsStable DEF JobInv, RunInv
<1>2. JobsInv'
  <2> SUFFICES ASSUME NEW n \in 1..Len(natives')
               PROVE  natives'[n].no \in 1..Len(attempts[natives'[n].run])
    BY DEF JobsInv
  <2>1. CASE n \in 1..Len(natives)
    BY <2>1 DEF JobInv, JobsInv, Kept, NativesKept
  <2> QED BY <2>1
<1> QED BY <1>1, <1>2

\* A step of ingester i, from its parts.
LEMMA IngesterStep ==
  ASSUME JobInv, NEW i \in Ingesters, Types', Kept, UNCHANGED <<client, operator>>,
         \A r \in Runs : RunInv(r)', JobsInv', \A k \in 1..Len(receipts') : Accepted(k)',
         IngesterInv(i)', \A j \in Ingesters \ {i} : ing'[j] = ing[j]
  PROVE  JobInv'
<1>1. HasRun' BY DEF JobInv, HasRun
<1>2. ASSUME NEW j \in Ingesters PROVE IngesterInv(j)'
  BY KnowledgeIsStable DEF JobInv
<1> QED BY <1>1, <1>2 DEF JobInv

\* A step of ingester i that writes nothing.
LEMMA ReadStep ==
  ASSUME JobInv, NEW i \in Ingesters, ing' \in [Ingesters -> Locals],
         UNCHANGED <<client, operator, storeVars, workVars, head>>,
         IngesterInv(i)', \A j \in Ingesters \ {i} : ing'[j] = ing[j]
  PROVE  JobInv'
<1>1. Types'
  BY DEF JobInv, Types, storeVars, workVars
<1>2. Kept /\ NoneAccepted
  BY UnchangedKept DEF JobInv, workVars, Kept
<1>3. (\A r \in Runs : RunInv(r)') /\ JobsInv'
  BY <1>1, <1>2, StoreIsStable DEF workVars
<1>4. \A k \in 1..Len(receipts') : Accepted(k)'
  BY <1>1, <1>2, AcceptedIsStable
<1> QED BY <1>1, <1>2, <1>3, <1>4, IngesterStep

-----------------------------------------------------------------------------
(* The steps of an ingester that write nothing.                            *)

\* ingest_once lists the inbox.
LEMMA IngestStartInv ==
  ASSUME JobInv, NEW i \in Ingesters, IngestStart(i)
  PROVE  JobInv'
<1>1. Claimable \in SUBSET Entries /\ \A e \in Claimable : e.id \in 1..Len(receipts)
  BY DEF JobInv, Types, Claimable, Entries, Receipts
<1>2. /\ ing' \in [Ingesters -> Locals] /\ ing'[i].at = "scan" /\ ing'[i].todo = Claimable
      /\ \A j \in Ingesters \ {i} : ing'[j] = ing[j]
  <2> DEFINE w == [ing[i] EXCEPT !.at = "scan", !.todo = Claimable]
  <2>1. ing' = [ing EXCEPT ![i] = w]
    BY DEF IngestStart, JobInv, Types
  <2>2. w \in Locals /\ w.at = "scan" /\ w.todo = Claimable
    BY <1>1 DEF JobInv, Types, Locals, Points
  <2> HIDE DEF w
  <2> QED BY <2>1, <2>2 DEF JobInv, Types
<1>3. IngesterInv(i)'
  BY <1>1, <1>2 DEF IngesterInv, IngestStart, workVars, Fresh, InWorktree, Verified, Handling,
       Submitting, Recorded, Existing, Holding
<1> QED BY <1>2, <1>3, ReadStep DEF IngestStart, boundVars

\* An ingester without a receipt knows nothing that could be wrong.
LEMMA DropsInv ==
  ASSUME JobInv, NEW i \in Ingesters, Drops(i), ReceiptsKept, Types'
  PROVE  /\ IngesterInv(i)' /\ ing' \in [Ingesters -> Locals]
         /\ \A j \in Ingesters \ {i} : ing'[j] = ing[j]
<1>1. PICK at \in {"idle", "scan"} : IngIs(i, at, 0, 0, 0, 0)
  BY DEF Drops
<1>2. \A e \in ing'[i].todo : e.id \in 1..Len(receipts')
  BY <1>1 DEF IngIs, JobInv, IngesterInv, ReceiptsKept, Types
<1>3. ing'[i].at \notin Holding
  BY <1>1 DEF IngIs, Holding, Fresh, Recorded, Submitting, Handling
<1> QED BY <1>1, <1>2, <1>3 DEF IngIs, IngesterInv, Holding, Fresh, InWorktree, Verified, Existing,
          Recorded, Submitting, Handling

\* The run of the receipt in hand, and the attempt.
LEMMA InHand ==
  ASSUME JobInv, NEW i \in Ingesters, ing[i].at \in Holding
  PROVE  /\ ing[i].rec \in 1..Len(receipts) /\ receipts[ing[i].rec] \in Receipts
         /\ RunOf(i) \in Runs /\ attempts[RunOf(i)] \in Seq(Attempts)
         /\ Len(attempts[RunOf(i)]) \in Nat
         /\ ing[i].no \in 1..Len(attempts[RunOf(i)]) => AttemptOf(i) \in Attempts
<1>1. ing[i].rec \in 1..Len(receipts)
  BY DEF JobInv, IngesterInv
<1>2. receipts[ing[i].rec] \in Receipts
  BY <1>1 DEF JobInv, Types
<1>3. RunOf(i) \in Runs
  BY <1>2 DEF RunOf, Receipts
<1>4. attempts[RunOf(i)] \in Seq(Attempts)
  BY <1>3 DEF JobInv, Types
<1> QED BY <1>1, <1>2, <1>3, <1>4 DEF AttemptOf

\* A receipt in hand stays in hand while files are added.
LEMMA StillInHand ==
  ASSUME JobInv, NEW i \in Ingesters, ing[i].at \in Holding, Types', ReceiptsKept,
         ing'[i].rec = ing[i].rec, ing'[i].todo \subseteq ing[i].todo
  PROVE  /\ ing'[i].rec \in 1..Len(receipts') /\ RunOf(i)' = RunOf(i)
         /\ receipts'[ing[i].rec].reason = receipts[ing[i].rec].reason
         /\ \A e \in ing'[i].todo : e.id \in 1..Len(receipts')
<1>1. Len(receipts) <= Len(receipts') /\ Len(receipts') \in Nat /\ Len(receipts) \in Nat
  BY Elements DEF JobInv, Types, ReceiptsKept
<1>2. ing[i].rec \in 1..Len(receipts) /\ \A e \in ing[i].todo : e.id \in 1..Len(receipts)
  BY DEF JobInv, IngesterInv
<1>3. receipts'[ing[i].rec].run = receipts[ing[i].rec].run
      /\ receipts'[ing[i].rec].reason = receipts[ing[i].rec].reason
  BY <1>2 DEF ReceiptsKept
<1> QED BY <1>1, <1>2, <1>3 DEF RunOf

\* An ingester that fails still holds its receipt.
LEMMA FailsInv ==
  ASSUME JobInv, NEW i \in Ingesters, ing[i].at \in Holding, Types', ReceiptsKept, Goes(i, "fail")
  PROVE  IngesterInv(i)'
<1>1. /\ ing'[i].at = "fail" /\ ing'[i].rec = ing[i].rec /\ ing'[i].todo \subseteq ing[i].todo
  BY DEF Goes, IngIs
<1> QED BY <1>1, StillInHand DEF IngesterInv, Fresh, InWorktree, Verified, Handling, Submitting,
          Recorded, Existing

\* An ingester that goes on submitting still has the attempt it recorded.
LEMMA SubmittingInv ==
  ASSUME JobInv, NEW i \in Ingesters, ing[i].at \in Submitting, Types', Kept,
         NEW at \in Submitting, NEW native,
         IngIs(i, at, ing[i].rec, ing[i].no, ing[i].commit, native),
         at \in Handling => native \in 1..Len(natives')
  PROVE  IngesterInv(i)'
<1>1. /\ ing'[i].at = at /\ ing'[i].rec = ing[i].rec /\ ing'[i].no = ing[i].no
      /\ ing'[i].native = native /\ ing'[i].todo \subseteq ing[i].todo
  BY DEF IngIs
<1>2. ing[i].at \in Holding /\ ing[i].at \in Existing
  BY DEF Holding, Recorded, Existing
<1>3. /\ ing'[i].rec \in 1..Len(receipts') /\ RunOf(i)' = RunOf(i)
      /\ \A e \in ing'[i].todo : e.id \in 1..Len(receipts')
  BY <1>1, <1>2, StillInHand DEF Kept
<1>4. RunOf(i) \in Runs /\ IngesterInv(i)
  BY <1>2, InHand DEF JobInv
<1>5. ing[i].no \in 1..Len(attempts[RunOf(i)]) /\ AttemptOf(i).intent
  BY <1>2, <1>4 DEF IngesterInv
<1>6. /\ Len(attempts[RunOf(i)]) <= Len(attempts'[RunOf(i)]) /\ Len(attempts[RunOf(i)]) \in Nat
      /\ Len(attempts'[RunOf(i)]) \in Nat
      /\ AttemptKept(RunOf(i), ing[i].no)
  BY <1>4, <1>5, Elements DEF JobInv, Types, Kept, AttemptsKept
<1>7. AttemptOf(i)' = attempts'[RunOf(i)][ing[i].no]
  BY <1>1, <1>3 DEF AttemptOf
<1>8. AttemptOf(i)'.intent /\ ing[i].no \in 1..Len(attempts'[RunOf(i)])
  BY <1>3, <1>5, <1>6, <1>7 DEF AttemptOf, AttemptKept
<1>9. /\ at \notin Fresh /\ at \notin InWorktree /\ at \notin Verified /\ at # "finish"
      /\ at \notin {"worktree", "add"}
  BY DEF Fresh, InWorktree, Verified, Handling, Submitting
<1> QED BY <1>1, <1>3, <1>8, <1>9 DEF IngesterInv

\* A handle is taken up.
LEMMA TakesHandle ==
  ASSUME Types, NEW i \in Ingesters, NEW at \in Points, NEW n \in Nat,
         ing' = [ing EXCEPT ![i].at = at, ![i].native = n]
  PROVE  IngIs(i, at, ing[i].rec, ing[i].no, ing[i].commit, n)
<1> DEFINE w == [ing[i] EXCEPT !.at = at, !.native = n]
<1>1. ing' = [ing EXCEPT ![i] = w]
  BY DEF Types
<1>2. /\ w \in Locals /\ w.at = at /\ w.no = ing[i].no /\ w.rec = ing[i].rec
      /\ w.commit = ing[i].commit /\ w.native = n /\ w.todo = ing[i].todo
  BY DEF Types, Locals
<1>3. ing \in [Ingesters -> Locals]
  BY DEF Types
<1> HIDE DEF w
<1>4. ing'[i] = w /\ ing' \in [Ingesters -> Locals] /\ \A j \in Ingesters \ {i} : ing'[j] = ing[j]
  BY ONLY <1>1, <1>2, <1>3, i \in Ingesters
<1> QED BY ONLY <1>2, <1>4 DEF IngIs

\* A step that submits on without writing, or gives the submission up.
LEMMA SubmitsOn ==
  ASSUME JobInv, NEW i \in Ingesters, ing[i].at \in Submitting,
         UNCHANGED <<client, operator, storeVars, workVars, head>>,
         \/ Goes(i, "fail")
         \/ \E at \in Submitting, n \in Nat :
              /\ IngIs(i, at, ing[i].rec, ing[i].no, ing[i].commit, n)
              /\ at \in Handling => n \in 1..Len(natives)
  PROVE  JobInv'
<1>1. ing' \in [Ingesters -> Locals] /\ \A j \in Ingesters \ {i} : ing'[j] = ing[j]
  BY DEF Goes, IngIs
<1>2. Types' /\ Kept
  BY <1>1, UnchangedKept DEF JobInv, Types, storeVars, workVars, Kept
<1>3. IngesterInv(i)'
  <2>1. CASE Goes(i, "fail")
    BY <2>1, <1>2, FailsInv DEF Kept, Holding, Recorded
  <2>2. ASSUME NEW at \in Submitting, NEW n \in Nat,
               IngIs(i, at, ing[i].rec, ing[i].no, ing[i].commit, n),
               at \in Handling => n \in 1..Len(natives)
        PROVE  IngesterInv(i)'
    <3>1. at \in Handling => n \in 1..Len(natives')
      BY <2>2 DEF workVars
    <3> QED BY <1>2, <2>2, <3>1, SubmittingInv
  <2> QED BY <2>1, <2>2
<1> QED BY <1>1, <1>3, ReadStep

\* The attempt of a submitting ingester.
LEMMA OwnAttempt ==
  ASSUME JobInv, NEW i \in Ingesters, ing[i].at \in Existing
  PROVE  /\ RunOf(i) \in Runs /\ ing[i].no \in 1..Len(attempts[RunOf(i)])
         /\ AttemptOf(i) = attempts[RunOf(i)][ing[i].no]
         /\ AttemptOf(i) \in Attempts /\ AttemptInv(RunOf(i), ing[i].no)
         /\ AttemptOf(i).start \in 0..Len(natives) /\ AttemptOf(i).meta \in 0..Len(natives)
<1>1. ing[i].at \in Holding
  BY DEF Holding, Fresh, Existing
<1>2. ing[i].no \in 1..Len(attempts[RunOf(i)])
  BY DEF JobInv, IngesterInv
<1>3. AttemptInv(RunOf(i), ing[i].no)
  BY <1>1, <1>2, InHand DEF JobInv, RunInv
<1>4. AttemptOf(i) = attempts[RunOf(i)][ing[i].no] /\ AttemptOf(i) \in Attempts
  BY <1>1, <1>2, InHand DEF AttemptOf
<1>5. AttemptOf(i).start \in Nat /\ AttemptOf(i).meta \in Nat
  BY <1>4 DEF Attempts
<1>6. AttemptOf(i).start <= Len(natives) /\ AttemptOf(i).meta <= Len(natives)
  BY <1>3, <1>4 DEF AttemptInv
<1>7. Len(natives) \in Nat
  BY Elements DEF JobInv
<1> QED BY <1>1, <1>2, <1>3, <1>4, <1>5, <1>6, <1>7, InHand

\* The start sentinel is read.
LEMMA ReadStartInv ==
  ASSUME JobInv, NEW i \in Ingesters, ReadStart(i)
  PROVE  JobInv'
<1> USE DEF Submitting, Handling
<1>1. ing[i].at \in Submitting
  BY DEF ReadStart
<1>2. CASE Goto(i, "correlate")
  <2>1. Goes(i, "correlate")
    BY <1>2, GotoGoes DEF JobInv, Points, Holding, Recorded
  <2>2. ing[i].native \in Nat
    BY DEF JobInv, Types, Locals
  <2> QED BY <1>1, <2>1, <2>2, SubmitsOn DEF Goes, ReadStart, boundVars
<1>3. CASE AttemptOf(i).start # 0
           /\ ing' = [ing EXCEPT ![i].at = "handle", ![i].native = AttemptOf(i).start]
  <2>1. AttemptOf(i).start \in 1..Len(natives) /\ AttemptOf(i).start \in Nat
    BY <1>1, <1>3, OwnAttempt, Elements DEF JobInv, Recorded, Existing
  <2>2. IngIs(i, "handle", ing[i].rec, ing[i].no, ing[i].commit, AttemptOf(i).start)
    BY <1>3, <2>1, TakesHandle DEF JobInv, Points, Holding, Recorded
  <2> QED BY <1>1, <2>1, <2>2, SubmitsOn DEF ReadStart, boundVars
<1> QED BY <1>2, <1>3 DEF ReadStart

\* The executor is asked for the attempt's job.
LEMMA CorrelateInv ==
  ASSUME JobInv, NEW i \in Ingesters, Correlate(i)
  PROVE  JobInv'
<1> USE DEF Submitting, Handling
<1> DEFINE matches == Correlates(RunOf(i), ing[i].no)
<1>1. ing[i].at \in Submitting
  BY DEF Correlate
<1>2. CASE Fail(i, "ambiguous")
  <2>1. Goes(i, "fail")
    BY <1>2, FailGoes DEF JobInv, Errors
  <2> QED BY <1>1, <2>1, SubmitsOn DEF Correlate, boundVars
<1>3. ASSUME NEW at \in {"again", "launch"}, Goto(i, at) PROVE JobInv'
  <2>1. Goes(i, at)
    BY <1>3, GotoGoes DEF JobInv, Points, Holding, Recorded
  <2>2. ing[i].native \in Nat
    BY DEF JobInv, Types, Locals
  <2> QED BY <1>1, <2>1, <2>2, SubmitsOn DEF Goes, Correlate, boundVars
<1>4. CASE matches # {} /\ ing' = [ing EXCEPT ![i].at = "handle", ![i].native = CHOOSE n \in matches : TRUE]
  <2> DEFINE n == CHOOSE n \in matches : TRUE
  <2>1. n \in matches
    BY <1>4
  <2>2. n \in 1..Len(natives) /\ n \in Nat
    <3>1. CASE Executor = "slurm"
      BY <2>1, <3>1, Elements DEF JobInv, Correlates
    <3>2. CASE Executor # "slurm"
      BY <1>1, <2>1, <3>2, OwnAttempt, Elements DEF JobInv, Correlates, Recorded, Existing
    <3> QED BY <3>1, <3>2
  <2> HIDE DEF n
  <2>3. IngIs(i, "handle", ing[i].rec, ing[i].no, ing[i].commit, n)
    BY <1>4, <2>2, TakesHandle DEF JobInv, Points, Holding, Recorded, n
  <2> QED BY <1>1, <2>2, <2>3, SubmitsOn DEF Correlate, boundVars
<1> QED BY <1>2, <1>3, <1>4 DEF Correlate

\* An ingester's next state, as a whole.
LEMMA Moves ==
  ASSUME Types, NEW i \in Ingesters, NEW w \in Locals, ing' = [ing EXCEPT ![i] = w],
         w.todo = ing[i].todo
  PROVE  IngIs(i, w.at, w.rec, w.no, w.commit, w.native)
<1>1. ing \in [Ingesters -> Locals] BY DEF Types
<1>2. ing'[i] = w /\ ing' \in [Ingesters -> Locals] /\ \A j \in Ingesters \ {i} : ing'[j] = ing[j]
  BY <1>1
<1> QED BY <1>2 DEF IngIs

\* What an ingester that has run r in hand knows of the store at a point.
Knows(r, at, no, commit, native) ==
    /\ at \in Fresh => no \in 1..(Len(attempts[r]) + 1)
    /\ at \in {"worktree", "add"} => commit # 0
    /\ at \in InWorktree => no <= Len(worktree[r]) /\ worktree[r][no] = commit
    /\ at \in Verified => commit \notin Drifted
    /\ at \in Existing => no \in 1..Len(attempts[r])
    /\ at \in Submitting => attempts[r][no].intent
    /\ at \in Handling => native \in 1..Len(natives)
    /\ at = "finish" => attempts[r][no].sub # 0

\* It is what the invariant says.
LEMMA KnowsInv ==
  ASSUME JobInv, NEW i \in Ingesters, ing[i].at \in Holding
  PROVE  Knows(RunOf(i), ing[i].at, ing[i].no, ing[i].commit, ing[i].native)
<1>1. IngesterInv(i) BY DEF JobInv
<1> QED BY <1>1 DEF IngesterInv, Knows, AttemptOf

\* A step that writes nothing, to a point whose knowledge it has gained or keeps.
LEMMA ReadsTo ==
  ASSUME JobInv, NEW i \in Ingesters, ing[i].at \in Holding,
         UNCHANGED <<client, operator, storeVars, workVars, head>>,
         NEW at, NEW no, NEW commit, NEW native, IngIs(i, at, ing[i].rec, no, commit, native),
         Knows(RunOf(i), at, no, commit, native)
  PROVE  JobInv'
<1>1. /\ ing'[i].at = at /\ ing'[i].rec = ing[i].rec /\ ing'[i].no = no
      /\ ing'[i].commit = commit /\ ing'[i].native = native /\ ing'[i].todo \subseteq ing[i].todo
      /\ ing' \in [Ingesters -> Locals] /\ \A j \in Ingesters \ {i} : ing'[j] = ing[j]
  BY DEF IngIs
<1>2. /\ receipts' = receipts /\ attempts' = attempts /\ worktree' = worktree /\ natives' = natives
  BY DEF workVars
<1>3. RunOf(i)' = RunOf(i) /\ AttemptOf(i)' = attempts[RunOf(i)][no]
  BY <1>1, <1>2 DEF RunOf, AttemptOf
<1>4. /\ \A e \in ing'[i].todo : e.id \in 1..Len(receipts')
      /\ ing'[i].rec \in 1..Len(receipts')
  BY <1>1, <1>2 DEF JobInv, IngesterInv
<1>5. IngesterInv(i)'
  BY <1>1, <1>2, <1>3, <1>4 DEF IngesterInv, Knows
<1> QED BY <1>1, <1>5, ReadStep

\* The attempts are listed, and listed again, and the retry's commit and the reference are read.
LEMMA StartInv ==
  ASSUME JobInv, NEW i \in Ingesters,
         StartOrRecover(i) \/ NumberAttempt(i) \/ ReadRetryRef(i) \/ ResolveCommit(i)
  PROVE  JobInv'
<1> USE DEF Fresh, InWorktree, Verified, Existing, Recorded, Submitting, Handling, Holding
<1>0. /\ ing[i].at \in Holding /\ UNCHANGED <<client, operator, storeVars, workVars, head>>
      /\ Types /\ ing[i] \in Locals
  BY DEF JobInv, Types, StartOrRecover, NumberAttempt, ReadRetryRef, ResolveCommit, boundVars
<1>1. RunOf(i) \in Runs /\ Len(attempts[RunOf(i)]) \in Nat /\ attempts[RunOf(i)] \in Seq(Attempts)
  BY <1>0, InHand
<1>2. ASSUME NEW w \in Locals, ing' = [ing EXCEPT ![i] = w], w.todo = ing[i].todo, w.rec = ing[i].rec,
             Knows(RunOf(i), w.at, w.no, w.commit, w.native)
      PROVE  JobInv'
  <2>1. IngIs(i, w.at, ing[i].rec, w.no, w.commit, w.native)
    BY <1>0, <1>2, Moves
  <2> QED BY <1>0, <1>2, <2>1, ReadsTo
<1>3. CASE StartOrRecover(i)
  <2>1. CASE ing' = [ing EXCEPT ![i].at = "number"]
    <3> DEFINE w == [ing[i] EXCEPT !.at = "number"]
    <3>1. w \in Locals /\ w.at = "number" /\ w.todo = ing[i].todo /\ w.rec = ing[i].rec
      BY <1>0 DEF Locals, Points
    <3>2. ing' = [ing EXCEPT ![i] = w] BY <2>1
    <3> HIDE DEF w
    <3> QED BY <1>2, <3>1, <3>2 DEF Knows
  <2>2. CASE /\ attempts[RunOf(i)] # <<>>
             /\ ing' = [ing EXCEPT ![i].at = "latest", ![i].no = Len(attempts[RunOf(i)])]
    <3> DEFINE w == [ing[i] EXCEPT !.at = "latest", !.no = Len(attempts[RunOf(i)])]
    <3>1. /\ w \in Locals /\ w.at = "latest" /\ w.todo = ing[i].todo /\ w.rec = ing[i].rec
          /\ w.no = Len(attempts[RunOf(i)])
      BY <1>0, <1>1 DEF Locals, Points
    <3>2. ing' = [ing EXCEPT ![i] = w] BY <2>2, <1>0 DEF Types
    <3>3. Len(attempts[RunOf(i)]) \in 1..Len(attempts[RunOf(i)]) BY <1>1, <2>2
    <3> HIDE DEF w
    <3> QED BY <1>2, <3>1, <3>2, <3>3 DEF Knows
  <2> QED BY <1>3, <2>1, <2>2 DEF StartOrRecover, StartsNew
<1>4. CASE NumberAttempt(i)
  <2> DEFINE no == Len(attempts[RunOf(i)]) + 1
             w == [ing[i] EXCEPT !.at = "control", !.no = no]
  <2>1. no \in Nat /\ no \in 1..(Len(attempts[RunOf(i)]) + 1) BY <1>1
  <2>2. ing' = [ing EXCEPT ![i] = w] BY <1>0, <1>4 DEF NumberAttempt, Types
  <2> HIDE DEF no
  <2>3. /\ w \in Locals /\ w.at = "control" /\ w.todo = ing[i].todo /\ w.rec = ing[i].rec
        /\ w.no = no
    BY <1>0, <2>1 DEF Locals, Points
  <2> HIDE DEF w
  <2> QED BY <1>2, <2>1, <2>2, <2>3 DEF Knows
<1>5. Knows(RunOf(i), ing[i].at, ing[i].no, ing[i].commit, ing[i].native)
  BY <1>0, KnowsInv
<1>6. CASE ReadRetryRef(i)
  <2> DEFINE ref == control[RunOf(i)].ref
             w == [ing[i] EXCEPT !.at = "resolve", !.ref = ref]
  <2>1. ref \in 0..MaxCommits BY <1>0, <1>1 DEF Types, Controls
  <2>2. ing' = [ing EXCEPT ![i] = w] BY <1>0, <1>6 DEF ReadRetryRef, Types
  <2> HIDE DEF ref
  <2>3. /\ w \in Locals /\ w.at = "resolve" /\ w.todo = ing[i].todo /\ w.rec = ing[i].rec
        /\ w.no = ing[i].no
    BY <1>0, <2>1 DEF Locals, Points
  <2>4. ing[i].at = "control" BY <1>6 DEF ReadRetryRef
  <2> HIDE DEF w
  <2> QED BY <1>2, <1>5, <2>2, <2>3, <2>4 DEF Knows
<1>7. CASE ResolveCommit(i)
  <2> DEFINE commit == IF ing[i].ref # 0 THEN ing[i].ref ELSE head
             w == [ing[i] EXCEPT !.at = "worktree", !.commit = commit]
  <2>1. commit \in 0..MaxCommits /\ commit # 0
    BY <1>0, JobAssumption DEF Types, Locals, Commits
  <2>2. ing' = [ing EXCEPT ![i] = w] BY <1>0, <1>7 DEF ResolveCommit, Types
  <2> HIDE DEF commit
  <2>3. /\ w \in Locals /\ w.at = "worktree" /\ w.todo = ing[i].todo /\ w.rec = ing[i].rec
        /\ w.no = ing[i].no /\ w.commit = commit
    BY <1>0, <2>1 DEF Locals, Points
  <2>4. ing[i].at = "resolve" BY <1>7 DEF ResolveCommit
  <2> HIDE DEF w
  <2> QED BY <1>2, <1>5, <2>1, <2>2, <2>3, <2>4 DEF Knows
<1> QED BY <1>3, <1>4, <1>6, <1>7

\* A file of the attempt is looked at: the ingester goes on to a point it has the knowledge for.
LEMMA LookInv ==
  ASSUME JobInv, NEW i \in Ingesters,
         ReadSubmission(i) \/ TestAttempt(i) \/ TestSubmission(i) \/ CheckSubmission(i)
  PROVE  JobInv'
<1> USE DEF Fresh, InWorktree, Verified, Existing, Recorded, Submitting, Handling, Holding
<1>0. /\ ing[i].at \in Holding /\ UNCHANGED <<client, operator, storeVars, workVars, head>> /\ Types
  BY DEF JobInv, ReadSubmission, TestAttempt, TestSubmission, CheckSubmission, boundVars
<1>1. Knows(RunOf(i), ing[i].at, ing[i].no, ing[i].commit, ing[i].native)
  BY <1>0, KnowsInv
<1>2. ASSUME NEW at \in Points, Goto(i, at), Knows(RunOf(i), at, ing[i].no, ing[i].commit, ing[i].native)
      PROVE  JobInv'
  <2>1. IngIs(i, at, ing[i].rec, ing[i].no, ing[i].commit, ing[i].native)
    BY <1>0, <1>2, GotoGoes DEF Goes
  <2> QED BY <1>0, <1>2, <2>1, ReadsTo
<1>3. CASE Fail(i, "conflict")
  <2>1. IngIs(i, "fail", ing[i].rec, ing[i].no, ing[i].commit, ing[i].native)
    BY <1>0, <1>3, FailGoes DEF Goes, Errors
  <2>2. Knows(RunOf(i), "fail", ing[i].no, ing[i].commit, ing[i].native) BY DEF Knows
  <2> QED BY <1>0, <2>1, <2>2, ReadsTo
<1>4. CASE ReadSubmission(i)
  <2>1. ing[i].at = "latest" /\ ing[i].no \in 1..Len(attempts[RunOf(i)])
    BY <1>1, <1>4 DEF ReadSubmission, Knows
  <2>2. CASE AttemptOf(i).sub # 0 /\ Goto(i, "finish")
    BY <1>2, <2>1, <2>2 DEF Knows, AttemptOf, Points
  <2>3. CASE Goto(i, "submit")
    BY <1>2, <2>1, <2>3 DEF Knows, Points
  <2> QED BY <1>4, <2>2, <2>3 DEF ReadSubmission
<1>5. CASE TestAttempt(i)
  <2>1. CASE Goto(i, "write")
    BY <1>1, <1>2, <1>5, <2>1 DEF TestAttempt, Knows, Points
  <2> QED BY <1>3, <1>5, <2>1 DEF TestAttempt
<1>6. CASE TestSubmission(i)
  <2>1. CASE AttemptOf(i).sub # 0 /\ Goto(i, "finish")
    BY <1>1, <1>2, <1>6, <2>1 DEF TestSubmission, Knows, AttemptOf, Points
  <2>2. CASE Goto(i, "check")
    BY <1>1, <1>2, <1>6, <2>2 DEF TestSubmission, Knows, Points
  <2> QED BY <1>6, <2>1, <2>2 DEF TestSubmission
<1>7. CASE CheckSubmission(i)
  <2>0. ing[i].native # 0
    BY <1>1, <1>7 DEF CheckSubmission, Knows
  <2>1. CASE AttemptOf(i).sub = ing[i].native /\ Goto(i, "finish")
    BY <1>1, <1>2, <1>7, <2>0, <2>1 DEF CheckSubmission, Knows, AttemptOf, Points
  <2>2. CASE Goto(i, "store")
    BY <1>1, <1>2, <1>7, <2>2 DEF CheckSubmission, Knows, Points
  <2> QED BY <1>3, <1>7, <2>1, <2>2 DEF CheckSubmission
<1> QED BY <1>4, <1>5, <1>6, <1>7

\* The local executor looks at its metadata again.
LEMMA CorrelateAgainInv ==
  ASSUME JobInv, NEW i \in Ingesters, CorrelateAgain(i)
  PROVE  JobInv'
<1> USE DEF Submitting, Handling
<1>1. ing[i].at \in Submitting
  BY DEF CorrelateAgain
<1>2. CASE ing' = [ing EXCEPT ![i].at = "launch"]
  <2>1. Goes(i, "launch")
    BY <1>2, GotoGoes DEF Goto, JobInv, Points, Holding, Recorded
  <2>2. ing[i].native \in Nat
    BY DEF JobInv, Types, Locals
  <2> QED BY <1>1, <2>1, <2>2, SubmitsOn DEF Goes, CorrelateAgain, boundVars
<1>3. CASE AttemptOf(i).meta # 0
           /\ ing' = [ing EXCEPT ![i].at = "handle", ![i].native = AttemptOf(i).meta]
  <2>1. AttemptOf(i).meta \in 1..Len(natives) /\ AttemptOf(i).meta \in Nat
    BY <1>1, <1>3, OwnAttempt, Elements DEF JobInv, Recorded, Existing
  <2>2. IngIs(i, "handle", ing[i].rec, ing[i].no, ing[i].commit, AttemptOf(i).meta)
    BY <1>3, <2>1, TakesHandle DEF JobInv, Points, Holding, Recorded
  <2> QED BY <1>1, <2>1, <2>2, SubmitsOn DEF CorrelateAgain, boundVars
<1> QED BY <1>2, <1>3 DEF CorrelateAgain

-----------------------------------------------------------------------------
(* The steps of an ingester that move a receipt.                           *)

\* A receipt's file is moved to another directory of the inbox.
LEMMA Refile ==
  ASSUME Types, NEW k \in 1..Len(receipts), NEW x \in Receipts,
         x.run = receipts[k].run, x.reason = receipts[k].reason,
         receipts' = [receipts EXCEPT ![k] = x]
  PROVE  /\ receipts' \in Seq(Receipts) /\ Len(receipts') = Len(receipts)
         /\ receipts'[k] = x /\ ReceiptsKept
         /\ \A m \in 1..Len(receipts) : m # k => receipts'[m] = receipts[m]
         /\ x.place # "accepted" => NoneAccepted
<1>1. receipts \in Seq(Receipts) /\ Len(receipts) \in Nat
  BY Elements DEF Types
<1>2. /\ receipts' \in Seq(Receipts) /\ Len(receipts') = Len(receipts)
      /\ receipts'[k] = x /\ \A m \in 1..Len(receipts) : m # k => receipts'[m] = receipts[m]
  BY <1>1
<1>3. ReceiptsKept
  BY <1>1, <1>2 DEF ReceiptsKept
<1>4. x.place # "accepted" => NoneAccepted
  BY <1>1, <1>2 DEF NoneAccepted
<1> QED BY <1>2, <1>3, <1>4

\* A step of ingester i that moves a receipt and does not accept it.
LEMMA MoveStep ==
  ASSUME JobInv, NEW i \in Ingesters, ing' \in [Ingesters -> Locals],
         UNCHANGED <<client, operator, storeVars, attempts, worktree, natives, head>>,
         receipts' \in Seq(Receipts), ReceiptsKept,
         \A k \in 1..Len(receipts') : Accepted(k)',
         IngesterInv(i)', \A j \in Ingesters \ {i} : ing'[j] = ing[j]
  PROVE  JobInv'
<1>1. Types'
  BY DEF JobInv, Types, storeVars
<1>2. Kept
  BY UnchangedKept DEF JobInv, Kept
<1>3. (\A r \in Runs : RunInv(r)') /\ JobsInv'
  BY <1>1, <1>2, StoreIsStable
<1> QED BY <1>1, <1>2, <1>3, IngesterStep

\* claim_pending, or another ingester was faster.
LEMMA ClaimInv ==
  ASSUME JobInv, NEW i \in Ingesters, Claim(i)
  PROVE  JobInv'
<1>1. PICK e \in ing[i].todo :
        \/ Abort(i) /\ UNCHANGED receipts
        \/ /\ receipts' = [receipts EXCEPT ![e.id].place = "processing"]
           /\ ing' = [ing EXCEPT ![i].at = "claimed", ![i].rec = e.id, ![i].todo = @ \ {e}]
  BY DEF Claim
<1>2. CASE Abort(i) /\ UNCHANGED receipts
  <2>1. Drops(i)
    BY <1>2, AbortDrops DEF JobInv
  <2>2. ing' \in [Ingesters -> Locals]
    BY <2>1 DEF Drops, IngIs
  <2>3. Types' /\ ReceiptsKept
    BY <1>2, <2>2, UnchangedKept DEF JobInv, Types, Claim, storeVars, boundVars
  <2>4. IngesterInv(i)' /\ \A j \in Ingesters \ {i} : ing'[j] = ing[j]
    BY <2>1, <2>3, DropsInv
  <2> QED BY <1>2, <2>2, <2>4, ReadStep DEF Claim, storeVars, workVars, boundVars
<1>3. CASE /\ receipts' = [receipts EXCEPT ![e.id].place = "processing"]
           /\ ing' = [ing EXCEPT ![i].at = "claimed", ![i].rec = e.id, ![i].todo = @ \ {e}]
  <2> DEFINE x == [receipts[e.id] EXCEPT !.place = "processing"]
             w == [ing[i] EXCEPT !.at = "claimed", !.rec = e.id, !.todo = @ \ {e}]
  <2>1. e.id \in 1..Len(receipts) /\ e.id \in Nat
    BY Elements DEF JobInv, IngesterInv
  <2>2. receipts[e.id] \in Receipts
    BY <2>1, Elements DEF JobInv
  <2>3. x \in Receipts /\ x.run = receipts[e.id].run /\ x.reason = receipts[e.id].reason
        /\ x.place = "processing"
    BY <2>2 DEF Receipts, Places
  <2>4. receipts' = [receipts EXCEPT ![e.id] = x]
    BY <1>3
  <2>5. ing' = [ing EXCEPT ![i] = w]
    BY <1>3 DEF JobInv, Types
  <2>6. w \in Locals /\ w.at = "claimed" /\ w.rec = e.id /\ w.todo \subseteq ing[i].todo
    BY <2>1 DEF JobInv, Types, Locals, Points, Holding
  <2> HIDE DEF x, w
  <2>7. receipts' \in Seq(Receipts) /\ ReceiptsKept /\ NoneAccepted /\ Len(receipts') = Len(receipts)
    BY <2>1, <2>3, <2>4, Refile DEF JobInv
  <2>8. /\ ing' \in [Ingesters -> Locals] /\ ing'[i].at = "claimed" /\ ing'[i].rec = e.id
        /\ ing'[i].todo \subseteq ing[i].todo
        /\ \A j \in Ingesters \ {i} : ing'[j] = ing[j]
    BY <2>5, <2>6 DEF JobInv, Types
  <2>9. Types' /\ Kept
    BY <2>7, <2>8, UnchangedKept DEF JobInv, Types, Kept, Claim, storeVars, boundVars
  <2>10. \A k \in 1..Len(receipts') : Accepted(k)'
    BY <2>7, <2>9, AcceptedIsStable
  <2>11. \A f \in ing'[i].todo : f.id \in 1..Len(receipts')
    BY <2>7, <2>8 DEF JobInv, IngesterInv
  <2>12. IngesterInv(i)'
    BY <2>1, <2>7, <2>8, <2>11 DEF IngesterInv, Fresh, InWorktree, Verified, Handling, Submitting,
         Existing, Recorded
  <2> QED BY <2>7, <2>8, <2>10, <2>12, MoveStep DEF Claim, boundVars
<1> QED BY <1>1, <1>2, <1>3

\* An ingester that files its receipt somewhere and drops it.
LEMMA FileStep ==
  ASSUME JobInv, NEW i \in Ingesters, Drops(i), ing[i].at \in Holding,
         UNCHANGED <<client, operator, storeVars, attempts, worktree, natives, head>>,
         NEW x \in Receipts, x.run = RunOf(i), x.reason = receipts[ing[i].rec].reason,
         receipts' = [receipts EXCEPT ![ing[i].rec] = x],
         x.place = "accepted" => ing[i].at = "finish"
  PROVE  JobInv'
<1> DEFINE k == ing[i].rec
<1>1. k \in 1..Len(receipts) /\ RunOf(i) \in Runs
  BY InHand
<1>2. /\ receipts' \in Seq(Receipts) /\ ReceiptsKept /\ Len(receipts') = Len(receipts)
      /\ receipts'[k] = x
      /\ \A m \in 1..Len(receipts) : m # k => receipts'[m] = receipts[m]
      /\ x.place # "accepted" => NoneAccepted
  BY <1>1, Refile DEF JobInv, RunOf
<1>3. ing' \in [Ingesters -> Locals]
  BY DEF Drops, IngIs
<1>4. Types' /\ Kept
  BY <1>2, <1>3, UnchangedKept DEF JobInv, Types, Kept, storeVars
<1>5. IngesterInv(i)' /\ \A j \in Ingesters \ {i} : ing'[j] = ing[j]
  BY <1>2, <1>4, DropsInv
<1>6. \A m \in 1..Len(receipts') : Accepted(m)'
  <2>1. CASE x.place # "accepted"
    BY <1>2, <1>4, <2>1, AcceptedIsStable
  <2>2. CASE x.place = "accepted"
    <3>1. /\ ing[i].no \in 1..Len(attempts[RunOf(i)])
          /\ attempts[RunOf(i)][ing[i].no].sub # 0
      BY <2>2 DEF JobInv, IngesterInv, AttemptOf, Existing, Recorded
    <3>2. receipts'[k].run = RunOf(i) /\ attempts' = attempts
      BY <1>2
    <3>3. ASSUME NEW m \in 1..Len(receipts') PROVE Accepted(m)'
      <4>1. CASE m = k
        <5>1. attempts'[receipts'[m].run] = attempts[RunOf(i)]
          BY <3>2, <4>1
        <5> QED BY <3>1, <3>2, <4>1, <5>1 DEF Accepted
      <4>2. CASE m # k
        <5>1. receipts'[m] = receipts[m] /\ m \in 1..Len(receipts)
          BY <1>2, <4>2
        <5>2. Accepted(m)
          BY <5>1 DEF JobInv
        <5> QED BY <3>2, <5>1, <5>2 DEF Accepted
      <4> QED BY <4>1, <4>2
    <3> QED BY <3>3
  <2> QED BY <2>1, <2>2
<1> QED BY <1>2, <1>3, <1>5, <1>6, MoveStep

\* An ingester that finds its receipt gone aborts.
LEMMA AbortStep ==
  ASSUME JobInv, NEW i \in Ingesters, Drops(i),
         UNCHANGED <<client, operator, storeVars, workVars, head>>
  PROVE  JobInv'
<1>1. ing' \in [Ingesters -> Locals]
  BY DEF Drops, IngIs
<1>2. Types' /\ ReceiptsKept
  BY <1>1, UnchangedKept DEF JobInv, Types, storeVars, workVars
<1>3. IngesterInv(i)' /\ \A j \in Ingesters \ {i} : ing'[j] = ing[j]
  BY <1>2, DropsInv
<1> QED BY <1>1, <1>3, ReadStep

\* Another ingester has filed the receipt.
LEMMA ReceiptGoneInv ==
  ASSUME JobInv, NEW i \in Ingesters, ReceiptGone(i)
  PROVE  JobInv'
BY AbortDrops, AbortStep DEF JobInv, ReceiptGone, boundVars

\* A disabled run's receipt goes back.
LEMMA RequeueInv ==
  ASSUME JobInv, NEW i \in Ingesters, Requeue(i)
  PROVE  JobInv'
<1>0. ing[i].at \in Holding
  BY DEF Requeue, Holding
<1>1. CASE receipts' = [receipts EXCEPT ![ing[i].rec].place = "pending"] /\ NextReceipt(i)
  <2> DEFINE x == [receipts[ing[i].rec] EXCEPT !.place = "pending"]
  <2>1. /\ x \in Receipts /\ x.run = RunOf(i) /\ x.reason = receipts[ing[i].rec].reason
        /\ x.place = "pending"
    BY <1>0, InHand DEF Receipts, Places, RunOf
  <2>2. receipts' = [receipts EXCEPT ![ing[i].rec] = x]
    BY <1>1
  <2> HIDE DEF x
  <2>3. Drops(i)
    BY <1>1, NextDrops DEF JobInv
  <2> QED BY <1>0, <2>1, <2>2, <2>3, FileStep DEF Requeue, boundVars
<1>2. CASE Abort(i) /\ UNCHANGED receipts
  BY <1>2, AbortDrops, AbortStep DEF JobInv, Requeue, workVars, boundVars
<1> QED BY <1>1, <1>2 DEF Requeue

\* finish_receipt: only an ingester that has the handle accepts.
LEMMA FinishInv ==
  ASSUME JobInv, NEW i \in Ingesters, Finish(i)
  PROVE  JobInv'
<1>0. ing[i].at \in Holding
  BY DEF Finish, Holding, Recorded
<1> DEFINE place == IF ing[i].at = "finish" THEN "accepted" ELSE "rejected"
           x == [receipts[ing[i].rec] EXCEPT !.place = place, !.error = ing[i].error]
<1>1. CASE receipts' = [receipts EXCEPT ![ing[i].rec] = x] /\ NextReceipt(i)
  <2>1. place \in Places /\ ing[i].error \in Errors
    BY DEF Places, JobInv, Types, Locals
  <2>2. place = "accepted" => ing[i].at = "finish"
    OBVIOUS
  <2> HIDE DEF place
  <2>3. /\ x \in Receipts /\ x.run = RunOf(i) /\ x.reason = receipts[ing[i].rec].reason
        /\ x.place = place
    BY <1>0, <2>1, InHand DEF Receipts, RunOf
  <2>4. receipts' = [receipts EXCEPT ![ing[i].rec] = x]
    BY <1>1
  <2> HIDE DEF x
  <2>5. Drops(i)
    BY <1>1, NextDrops DEF JobInv
  <2> QED BY <1>0, <2>2, <2>3, <2>4, <2>5, FileStep DEF Finish, boundVars
<1>2. CASE Abort(i) /\ UNCHANGED receipts
  BY <1>2, AbortDrops, AbortStep DEF JobInv, Finish, workVars, boundVars
<1> QED BY <1>1, <1>2 DEF Finish

\* The listing is exhausted.
LEMMA IngestEndInv ==
  ASSUME JobInv, NEW i \in Ingesters, IngestEnd(i)
  PROVE  JobInv'
BY AbortDrops, AbortStep DEF JobInv, IngestEnd, boundVars

-----------------------------------------------------------------------------
(* The steps of an ingester that write to an attempt.                      *)

\* Attempt no of run r is replaced by a.
Writes(r, no, a) == attempts' = [attempts EXCEPT ![r] = [@ EXCEPT ![no] = a]]

\* One attempt's directory changes.
LEMMA WriteAttempt ==
  ASSUME Types, NEW r \in Runs, NEW no \in 1..Len(attempts[r]), NEW a \in Attempts, Writes(r, no, a)
  PROVE  /\ attempts' \in [Runs -> Seq(Attempts)] /\ attempts'[r][no] = a
         /\ \A q \in Runs : Len(attempts'[q]) = Len(attempts[q])
         /\ \A q \in Runs : \A b \in 1..Len(attempts[q]) :
              q # r \/ b # no => attempts'[q][b] = attempts[q][b]
<1> DEFINE s == [attempts[r] EXCEPT ![no] = a]
<1>1. attempts \in [Runs -> Seq(Attempts)] /\ attempts[r] \in Seq(Attempts)
  BY DEF Types
<1>2. /\ s \in Seq(Attempts) /\ Len(s) = Len(attempts[r]) /\ s[no] = a
      /\ \A b \in 1..Len(attempts[r]) : b # no => s[b] = attempts[r][b]
  BY <1>1
<1>3. attempts' = [attempts EXCEPT ![r] = s]
  BY DEF Writes
<1> HIDE DEF s
<1>4. attempts'[r] = s /\ \A q \in Runs : q # r => attempts'[q] = attempts[q]
  BY ONLY <1>1, <1>3, r \in Runs
<1>5. attempts' \in [Runs -> Seq(Attempts)]
  BY ONLY <1>1, <1>2, <1>3, r \in Runs
<1> QED BY ONLY <1>2, <1>4, <1>5, r \in Runs

\* Record a keeps what attempt no of run r has on disk, and is consistent with the store.
Keeps(r, no, a) ==
    LET old == attempts[r][no] IN
    /\ a \in Attempts
    /\ a.by \in 1..Len(receipts)
    /\ a.sub <= Len(natives) /\ a.meta <= Len(natives) /\ a.start <= Len(natives)
    /\ a.sub # 0 => a.intent
    /\ a.intent => a.commit # 0
    /\ a.commit # 0 => a.commit = worktree[r][no] /\ a.commit \notin Drifted
    /\ old.commit # 0 => a.commit = old.commit
    /\ old.intent => a.intent
    /\ old.sub # 0 => a.sub # 0

\* The store's invariant when one attempt is written to and keeps its records.
LEMMA AttemptWritten ==
  ASSUME JobInv, NEW r \in Runs, NEW no \in 1..Len(attempts[r]), NEW a, Keeps(r, no, a),
         Writes(r, no, a),
         ing' \in [Ingesters -> Locals], natives' \in Seq(Jobs), NativesKept,
         Len(natives') = Len(natives),
         UNCHANGED <<client, operator, storeVars, receipts, worktree, head>>
  PROVE  /\ Types' /\ Kept /\ attempts'[r][no] = a
         /\ (\A q \in Runs : RunInv(q)') /\ JobsInv' /\ (\A k \in 1..Len(receipts') : Accepted(k)')
         /\ \A q \in Runs : Len(attempts'[q]) = Len(attempts[q])
<1>0. Types /\ a \in Attempts
  BY DEF JobInv, Keeps
<1>1. /\ attempts' \in [Runs -> Seq(Attempts)] /\ attempts'[r][no] = a
      /\ \A q \in Runs : Len(attempts'[q]) = Len(attempts[q])
      /\ \A q \in Runs : \A b \in 1..Len(attempts[q]) :
           q # r \/ b # no => attempts'[q][b] = attempts[q][b]
  BY <1>0, WriteAttempt
<1>2. Types'
  <2>1. /\ client' = client /\ operator' = operator /\ intents' = intents /\ control' = control
        /\ receipts' = receipts /\ worktree' = worktree /\ head' = head
    BY DEF storeVars
  <2> QED BY ONLY <1>1, <2>1, JobInv, ing' \in [Ingesters -> Locals], natives' \in Seq(Jobs)
          DEF JobInv, Types
<1>3. AttemptsKept
  <2>1. ASSUME NEW q \in Runs, NEW b \in 1..Len(attempts[q]) PROVE AttemptKept(q, b)
    <3>1. CASE q = r /\ b = no
      BY <1>1, <3>1 DEF AttemptKept, Keeps
    <3>2. CASE ~(q = r /\ b = no)
      <4>1. attempts'[q][b] = attempts[q][b]
        BY <1>1, <3>2
      <4> QED BY <4>1 DEF AttemptKept
    <3> QED BY <3>1, <3>2
  <2>2. \A q \in Runs : Len(attempts[q]) <= Len(attempts'[q])
    BY <1>1, Elements DEF JobInv
  <2> QED BY <2>1, <2>2 DEF AttemptsKept
<1>4. Kept /\ NoneAccepted
  BY <1>3, UnchangedKept DEF JobInv, Kept
<1>5. ASSUME NEW q \in Runs PROVE RunInv(q)'
  <2>1. ASSUME NEW b \in 1..Len(attempts[q]) PROVE AttemptInv(q, b)'
    <3>1. CASE q = r /\ b = no
      BY <1>1, <3>1 DEF AttemptInv, Keeps
    <3>2. CASE ~(q = r /\ b = no)
      <4>1. attempts'[q][b] = attempts[q][b]
        BY <1>1, <3>2
      <4> QED BY <1>2, <1>4, <4>1, AttemptIsStable
    <3> QED BY <3>1, <3>2
  <2>2. Len(attempts'[q]) = Len(attempts[q]) /\ worktree' = worktree /\ RunInv(q)
    BY <1>1 DEF JobInv
  <2> QED BY <2>1, <2>2 DEF RunInv
<1>6. JobsInv'
  <2> SUFFICES ASSUME NEW n \in 1..Len(natives')
               PROVE  natives'[n].no \in 1..Len(attempts'[natives'[n].run])
    BY DEF JobsInv
  <2>1. n \in 1..Len(natives) /\ natives[n] \in Jobs
    BY Elements DEF JobInv
  <2>2. natives'[n].run = natives[n].run /\ natives'[n].no = natives[n].no
    BY <2>1 DEF NativesKept
  <2>3. natives[n].run \in Runs /\ natives[n].no \in 1..Len(attempts[natives[n].run])
    BY <2>1 DEF JobInv, JobsInv, Jobs
  <2> QED BY <1>1, <2>2, <2>3
<1>7. \A k \in 1..Len(receipts') : Accepted(k)'
  BY <1>2, <1>4, AcceptedIsStable
<1> QED BY <1>1, <1>2, <1>4, <1>5, <1>6, <1>7

\* The receipt in hand and the attempt's own fields, for the steps that follow.
OwnInv(i) ==
    LET att == AttemptOf(i) IN
    /\ RunOf(i) \in Runs /\ ing[i].no \in 1..Len(attempts[RunOf(i)])
    /\ att = attempts[RunOf(i)][ing[i].no]
    /\ att \in Attempts /\ AttemptInv(RunOf(i), ing[i].no)

\* A write to the own attempt that leaves ingester i at point at.
LEMMA OwnWrite ==
  ASSUME JobInv, NEW i \in Ingesters, ing[i].at \in Existing,
         NEW a, Keeps(RunOf(i), ing[i].no, a), SetAttempt(i, a),
         NEW at \in Points, Goto(i, at),
         UNCHANGED <<client, operator, storeVars, receipts, worktree, natives, head>>
  PROVE  /\ Types' /\ Kept
         /\ (\A q \in Runs : RunInv(q)') /\ JobsInv' /\ (\A k \in 1..Len(receipts') : Accepted(k)')
         /\ \A j \in Ingesters \ {i} : ing'[j] = ing[j]
         /\ ing'[i].at = at /\ ing'[i].rec = ing[i].rec /\ ing'[i].no = ing[i].no
         /\ ing'[i].native = ing[i].native /\ ing'[i].rec \in 1..Len(receipts')
         /\ AttemptOf(i)' = a /\ RunOf(i)' = RunOf(i)
         /\ ing'[i].no \in 1..Len(attempts'[RunOf(i)])
         /\ \A e \in ing'[i].todo : e.id \in 1..Len(receipts')
<1>1. OwnInv(i) /\ ing[i].at \in Holding
  BY OwnAttempt DEF OwnInv, Holding, Fresh, Existing
<1>2. Writes(RunOf(i), ing[i].no, a)
  BY DEF SetAttempt, Writes
<1>3. Goes(i, at)
  BY GotoGoes DEF JobInv
<1>4. /\ ing' \in [Ingesters -> Locals] /\ \A j \in Ingesters \ {i} : ing'[j] = ing[j]
      /\ ing'[i].at = at /\ ing'[i].rec = ing[i].rec /\ ing'[i].no = ing[i].no
      /\ ing'[i].native = ing[i].native /\ ing'[i].todo \subseteq ing[i].todo
  BY <1>3 DEF Goes, IngIs
<1>5. NativesKept /\ natives' \in Seq(Jobs)
  BY UnchangedKept DEF JobInv, Types
<1>6. /\ Types' /\ Kept /\ attempts'[RunOf(i)][ing[i].no] = a
      /\ (\A q \in Runs : RunInv(q)') /\ JobsInv' /\ (\A k \in 1..Len(receipts') : Accepted(k)')
      /\ \A q \in Runs : Len(attempts'[q]) = Len(attempts[q])
  BY <1>1, <1>2, <1>4, <1>5, AttemptWritten DEF OwnInv
<1>7. /\ ing'[i].rec \in 1..Len(receipts') /\ RunOf(i)' = RunOf(i)
      /\ \A e \in ing'[i].todo : e.id \in 1..Len(receipts')
  BY <1>1, <1>4, <1>6, StillInHand DEF Kept
<1>8. AttemptOf(i)' = a
  BY <1>4, <1>6, <1>7 DEF AttemptOf
<1> QED BY <1>1, <1>4, <1>6, <1>7, <1>8 DEF OwnInv

\* A failure of ingester i that writes nothing.
LEMMA FailStep ==
  ASSUME JobInv, NEW i \in Ingesters, ing[i].at \in Holding, NEW why \in Errors, Fail(i, why),
         UNCHANGED <<client, operator, storeVars, workVars, head>>
  PROVE  JobInv'
<1>1. Goes(i, "fail")
  BY FailGoes DEF JobInv
<1>2. ing' \in [Ingesters -> Locals] /\ \A j \in Ingesters \ {i} : ing'[j] = ing[j]
  BY <1>1 DEF Goes, IngIs
<1>3. Types' /\ ReceiptsKept
  BY <1>2, UnchangedKept DEF JobInv, Types, storeVars, workVars
<1>4. IngesterInv(i)'
  BY <1>1, <1>3, FailsInv
<1> QED BY <1>2, <1>4, ReadStep

\* The submission intent.
LEMMA WriteIntentInv ==
  ASSUME JobInv, NEW i \in Ingesters, WriteIntent(i)
  PROVE  JobInv'
<1>0. ing[i].at \in Existing /\ ing[i].at \in Holding
  BY DEF WriteIntent, Existing, Recorded, Holding
<1>1. CASE Fail(i, "unreadable") /\ UNCHANGED attempts
  BY <1>0, <1>1, FailStep DEF WriteIntent, Errors, workVars, boundVars
<1>2. CASE /\ AttemptOf(i).commit # 0
           /\ SetAttempt(i, [AttemptOf(i) EXCEPT !.intent = TRUE]) /\ Goto(i, "sentinel")
  <2> DEFINE a == [AttemptOf(i) EXCEPT !.intent = TRUE]
  <2>1. OwnInv(i)
    BY <1>0, OwnAttempt DEF OwnInv
  <2>2. /\ a \in Attempts /\ a.commit = AttemptOf(i).commit /\ a.intent /\ a.by = AttemptOf(i).by
        /\ a.sub = AttemptOf(i).sub /\ a.meta = AttemptOf(i).meta /\ a.start = AttemptOf(i).start
    BY <2>1 DEF OwnInv, Attempts
  <2>3. SetAttempt(i, a)
    BY <1>2
  <2> HIDE DEF a
  <2>4. Keeps(RunOf(i), ing[i].no, a)
    BY <1>2, <2>1, <2>2 DEF OwnInv, AttemptInv, Keeps
  <2>5. "sentinel" \in Points
    BY DEF Points, Holding, Recorded, Submitting, Handling
  <2>6. /\ Types' /\ Kept
        /\ (\A q \in Runs : RunInv(q)') /\ JobsInv' /\ (\A k \in 1..Len(receipts') : Accepted(k)')
        /\ \A j \in Ingesters \ {i} : ing'[j] = ing[j]
        /\ ing'[i].at = "sentinel" /\ ing'[i].rec = ing[i].rec
        /\ ing'[i].rec \in 1..Len(receipts')
        /\ AttemptOf(i)' = a /\ RunOf(i)' = RunOf(i)
        /\ ing'[i].no \in 1..Len(attempts'[RunOf(i)])
        /\ \A e \in ing'[i].todo : e.id \in 1..Len(receipts')
    BY <1>0, <1>2, <2>3, <2>4, <2>5, OwnWrite DEF WriteIntent, boundVars
  <2>7. IngesterInv(i)'
    BY <2>2, <2>6 DEF IngesterInv, Fresh, InWorktree, Verified, Handling, Submitting,
         Existing, Recorded
  <2> QED BY <2>6, <2>7, IngesterStep DEF WriteIntent
<1> QED BY <1>1, <1>2 DEF WriteIntent

\* attempt.json: whoever wrote it before, it names the commit of the worktree.
LEMMA RecordAttemptInv ==
  ASSUME JobInv, NEW i \in Ingesters, RecordAttempt(i)
  PROVE  JobInv'
<1> DEFINE a == [AttemptOf(i) EXCEPT !.commit = ing[i].commit, !.by = ing[i].rec]
<1>0. ing[i].at = "write" /\ ing[i].at \in Existing
  BY DEF RecordAttempt, Existing
<1>1. OwnInv(i)
  BY <1>0, OwnAttempt DEF OwnInv
<1>2. /\ a \in Attempts /\ a.commit = ing[i].commit /\ a.intent = AttemptOf(i).intent
      /\ a.by = ing[i].rec
      /\ a.sub = AttemptOf(i).sub /\ a.meta = AttemptOf(i).meta /\ a.start = AttemptOf(i).start
  <2>1. ing[i].commit \in 0..MaxCommits /\ ing[i].rec \in Nat
    BY DEF JobInv, Types, Locals
  <2> QED BY <1>1, <2>1 DEF OwnInv, Attempts
<1>3. SetAttempt(i, a) /\ Goto(i, "submit")
  BY DEF RecordAttempt
<1> HIDE DEF a
<1>4. /\ ing[i].commit \in Commits /\ ing[i].commit # 0
      /\ worktree[RunOf(i)][ing[i].no] = ing[i].commit /\ ing[i].commit \notin Drifted
      /\ ing[i].rec \in 1..Len(receipts)
  <2>1. /\ worktree[RunOf(i)][ing[i].no] = ing[i].commit /\ ing[i].commit \notin Drifted
        /\ ing[i].rec \in 1..Len(receipts) /\ ing[i].no <= Len(worktree[RunOf(i)])
    BY <1>0 DEF JobInv, IngesterInv, InWorktree, Verified, Holding, Fresh
  <2>2. ing[i].no \in 1..Len(worktree[RunOf(i)])
    BY <1>1, <2>1, Elements DEF OwnInv, JobInv
  <2>3. worktree[RunOf(i)][ing[i].no] \in Commits
    BY <1>1, <2>2, Elements DEF OwnInv, JobInv
  <2> QED BY <2>1, <2>3 DEF Commits
<1>5. Keeps(RunOf(i), ing[i].no, a)
  BY <1>1, <1>2, <1>4 DEF OwnInv, AttemptInv, Keeps
<1>6. "submit" \in Points
  BY DEF Points, Holding, Recorded
<1>7. /\ Types' /\ Kept
      /\ (\A q \in Runs : RunInv(q)') /\ JobsInv' /\ (\A k \in 1..Len(receipts') : Accepted(k)')
      /\ \A j \in Ingesters \ {i} : ing'[j] = ing[j]
      /\ ing'[i].at = "submit" /\ ing'[i].rec \in 1..Len(receipts')
      /\ RunOf(i)' = RunOf(i) /\ ing'[i].no \in 1..Len(attempts'[RunOf(i)])
      /\ \A e \in ing'[i].todo : e.id \in 1..Len(receipts')
  BY <1>0, <1>3, <1>5, <1>6, OwnWrite DEF RecordAttempt, boundVars
<1>8. IngesterInv(i)'
  BY <1>7 DEF IngesterInv, Fresh, InWorktree, Verified, Handling, Submitting, Existing, Recorded
<1> QED BY <1>7, <1>8, IngesterStep DEF RecordAttempt

\* The local executor's metadata.
LEMMA RecordLocalInv ==
  ASSUME JobInv, NEW i \in Ingesters, RecordLocal(i)
  PROVE  JobInv'
<1>0. ing[i].at = "meta" /\ ing[i].at \in Existing
  BY DEF RecordLocal, Existing, Recorded, Submitting, Handling
<1> DEFINE a == [AttemptOf(i) EXCEPT !.meta = ing[i].native]
<1>1. OwnInv(i)
  BY <1>0, OwnAttempt DEF OwnInv
<1>2. ing[i].native \in 1..Len(natives) /\ ing[i].native \in Nat /\ AttemptOf(i).intent
      /\ Len(natives) \in Nat
  BY <1>0, Elements DEF JobInv, IngesterInv, Submitting, Handling
<1>3. /\ a \in Attempts /\ a.commit = AttemptOf(i).commit /\ a.intent = AttemptOf(i).intent
      /\ a.by = AttemptOf(i).by /\ a.sub = AttemptOf(i).sub /\ a.meta = ing[i].native
      /\ a.start = AttemptOf(i).start
  BY <1>1, <1>2 DEF OwnInv, Attempts
<1>4. SetAttempt(i, a) /\ Goto(i, "handle")
  BY DEF RecordLocal
<1> HIDE DEF a
<1>5. Keeps(RunOf(i), ing[i].no, a)
  BY <1>1, <1>2, <1>3 DEF OwnInv, AttemptInv, Keeps
<1>6. "handle" \in Points
  BY DEF Points, Holding, Recorded, Submitting, Handling
<1>7. /\ Types' /\ Kept
      /\ (\A q \in Runs : RunInv(q)') /\ JobsInv' /\ (\A k \in 1..Len(receipts') : Accepted(k)')
      /\ \A j \in Ingesters \ {i} : ing'[j] = ing[j]
      /\ ing'[i].at = "handle" /\ ing'[i].rec = ing[i].rec /\ ing'[i].native = ing[i].native
      /\ ing'[i].rec \in 1..Len(receipts')
      /\ AttemptOf(i)' = a /\ RunOf(i)' = RunOf(i)
      /\ ing'[i].no \in 1..Len(attempts'[RunOf(i)])
      /\ \A e \in ing'[i].todo : e.id \in 1..Len(receipts')
  BY <1>0, <1>4, <1>5, <1>6, OwnWrite DEF RecordLocal, boundVars
<1>8. IngesterInv(i)'
  BY <1>2, <1>3, <1>7 DEF RecordLocal, IngesterInv, Fresh, InWorktree, Verified, Handling, Submitting,
         Existing, Recorded
<1> QED BY <1>7, <1>8, IngesterStep DEF RecordLocal

\* submission.json: the handle is durable.
LEMMA RecordSubmissionInv ==
  ASSUME JobInv, NEW i \in Ingesters, RecordSubmission(i)
  PROVE  JobInv'
<1>0. ing[i].at = "store" /\ ing[i].at \in Existing
  BY DEF RecordSubmission, Existing, Recorded, Submitting, Handling
<1> DEFINE a == [AttemptOf(i) EXCEPT !.sub = ing[i].native]
<1>1. OwnInv(i)
  BY <1>0, OwnAttempt DEF OwnInv
<1>2. ing[i].native \in 1..Len(natives) /\ ing[i].native \in Nat /\ AttemptOf(i).intent
      /\ Len(natives) \in Nat
  BY <1>0, Elements DEF JobInv, IngesterInv, Submitting, Handling
<1>3. SetAttempt(i, a) /\ Goto(i, "finish")
  BY DEF RecordSubmission
<1>4. /\ a \in Attempts /\ a.commit = AttemptOf(i).commit /\ a.intent = AttemptOf(i).intent
      /\ a.by = AttemptOf(i).by /\ a.sub = ing[i].native /\ a.meta = AttemptOf(i).meta
      /\ a.start = AttemptOf(i).start
  BY <1>1, <1>2 DEF OwnInv, Attempts
<1> HIDE DEF a
<1>5. Keeps(RunOf(i), ing[i].no, a)
  BY <1>1, <1>2, <1>4 DEF OwnInv, AttemptInv, Keeps
<1>6. "finish" \in Points
  BY DEF Points, Holding, Recorded
<1>7. /\ Types' /\ Kept
      /\ (\A q \in Runs : RunInv(q)') /\ JobsInv' /\ (\A k \in 1..Len(receipts') : Accepted(k)')
      /\ \A j \in Ingesters \ {i} : ing'[j] = ing[j]
      /\ ing'[i].at = "finish" /\ ing'[i].rec \in 1..Len(receipts')
      /\ AttemptOf(i)' = a /\ RunOf(i)' = RunOf(i)
      /\ ing'[i].no \in 1..Len(attempts'[RunOf(i)])
      /\ \A e \in ing'[i].todo : e.id \in 1..Len(receipts')
  BY <1>0, <1>3, <1>5, <1>6, OwnWrite DEF RecordSubmission, boundVars
<1>8. IngesterInv(i)'
  BY <1>2, <1>4, <1>7
     DEF IngesterInv, Fresh, InWorktree, Verified, Handling, Submitting, Existing, Recorded
<1> QED BY <1>7, <1>8, IngesterStep DEF RecordSubmission

-----------------------------------------------------------------------------
(* The steps of an ingester that make a worktree, a directory or a job.    *)

\* Run r gets a worktree at commit c.
AddsWorktree(r, c) == worktree' = [worktree EXCEPT ![r] = Append(@, c)]

\* A new worktree leaves the others alone.
LEMMA WorktreeAdded ==
  ASSUME Types, NEW r \in Runs, NEW c \in Commits, AddsWorktree(r, c)
  PROVE  /\ worktree' \in [Runs -> Seq(Commits)] /\ WorktreesKept
         /\ Len(worktree'[r]) = Len(worktree[r]) + 1 /\ worktree'[r][Len(worktree[r]) + 1] = c
         /\ \A q \in Runs : q # r => worktree'[q] = worktree[q]
<1> DEFINE s == Append(worktree[r], c)
<1>1. worktree \in [Runs -> Seq(Commits)] /\ worktree[r] \in Seq(Commits)
  BY DEF Types
<1>2. /\ s \in Seq(Commits) /\ Len(s) = Len(worktree[r]) + 1 /\ s[Len(worktree[r]) + 1] = c
      /\ \A b \in 1..Len(worktree[r]) : s[b] = worktree[r][b]
  BY <1>1
<1>3. worktree' = [worktree EXCEPT ![r] = s]
  BY DEF AddsWorktree
<1> HIDE DEF s
<1>4. worktree'[r] = s /\ \A q \in Runs : q # r => worktree'[q] = worktree[q]
  BY ONLY <1>1, <1>3, r \in Runs
<1>5. worktree' \in [Runs -> Seq(Commits)]
  BY ONLY <1>1, <1>2, <1>3, r \in Runs
<1>6. WorktreesKept
  <2>1. ASSUME NEW q \in Runs
        PROVE  /\ Len(worktree[q]) <= Len(worktree'[q])
               /\ \A a \in 1..Len(worktree[q]) : worktree'[q][a] = worktree[q][a]
    <3>1. Len(worktree[q]) \in Nat BY Elements
    <3>2. CASE q = r BY <1>2, <1>4, <3>1, <3>2
    <3>3. CASE q # r BY <1>4, <3>1, <3>3
    <3> QED BY <3>2, <3>3
  <2> QED BY <2>1 DEF WorktreesKept
<1> QED BY <1>2, <1>4, <1>5, <1>6

\* Run r gets an attempt directory with a in it.
AddsAttempt(r, a) == attempts' = [attempts EXCEPT ![r] = Append(@, a)]

\* A new attempt directory leaves the others alone.
LEMMA AttemptAdded ==
  ASSUME Types, NEW r \in Runs, NEW a \in Attempts, AddsAttempt(r, a)
  PROVE  /\ attempts' \in [Runs -> Seq(Attempts)]
         /\ Len(attempts'[r]) = Len(attempts[r]) + 1 /\ attempts'[r][Len(attempts[r]) + 1] = a
         /\ \A b \in 1..Len(attempts[r]) : attempts'[r][b] = attempts[r][b]
         /\ \A q \in Runs : q # r => attempts'[q] = attempts[q]
         /\ AttemptsKept
<1> DEFINE s == Append(attempts[r], a)
<1>1. attempts \in [Runs -> Seq(Attempts)] /\ attempts[r] \in Seq(Attempts)
  BY DEF Types
<1>2. /\ s \in Seq(Attempts) /\ Len(s) = Len(attempts[r]) + 1 /\ s[Len(attempts[r]) + 1] = a
      /\ \A b \in 1..Len(attempts[r]) : s[b] = attempts[r][b]
  BY <1>1
<1>3. attempts' = [attempts EXCEPT ![r] = s]
  BY DEF AddsAttempt
<1> HIDE DEF s
<1>4. attempts'[r] = s /\ \A q \in Runs : q # r => attempts'[q] = attempts[q]
  BY ONLY <1>1, <1>3, r \in Runs
<1>5. attempts' \in [Runs -> Seq(Attempts)]
  BY ONLY <1>1, <1>2, <1>3, r \in Runs
<1>6. AttemptsKept
  <2>1. ASSUME NEW q \in Runs
        PROVE  /\ Len(attempts[q]) <= Len(attempts'[q])
               /\ \A b \in 1..Len(attempts[q]) : AttemptKept(q, b)
    <3>1. \A b \in 1..Len(attempts[q]) : attempts'[q][b] = attempts[q][b]
      BY <1>2, <1>4
    <3>2. Len(attempts[q]) <= Len(attempts'[q])
      <4>1. Len(attempts[q]) \in Nat BY Elements
      <4>2. CASE q = r BY <1>2, <1>4, <4>1, <4>2
      <4>3. CASE q # r BY <1>4, <4>1, <4>3
      <4> QED BY <4>2, <4>3
    <3> QED BY <3>1, <3>2 DEF AttemptKept
  <2> QED BY <2>1 DEF AttemptsKept
<1> QED BY <1>2, <1>4, <1>5, <1>6

\* Once the worktree exists the ingester goes on, and past the clearing only without drift.
LEMMA PinnedGoes ==
  ASSUME Types, NEW i \in Ingesters, Pinned(i)
  PROVE  \E at \in {"mkdir", "fail"} : Goes(i, at) /\ (at = "mkdir" => ing[i].commit \notin Drifted)
<1> DEFINE at == AfterPin(ing[i].commit)
           err == PinError(ing[i].commit)
           w == [ing[i] EXCEPT !.at = at, !.error = err]
<1>1. /\ at \in {"mkdir", "fail"} /\ at \in Points /\ err \in Errors
      /\ at = "mkdir" => ing[i].commit \notin Drifted
  BY DEF AfterPin, PinError, Errors, Points, Holding, Fresh
<1>2. ing' = [ing EXCEPT ![i] = w]
  <2> HIDE DEF at, err
  <2>1. ing \in [Ingesters -> Locals] BY DEF Types
  <2>2. ing' = [ing EXCEPT ![i].at = at, ![i].error = err] BY DEF Pinned, at, err
  <2> QED BY ONLY <2>1, <2>2, i \in Ingesters
<1> HIDE DEF at, err
<1>3. /\ w \in Locals /\ w.at = at /\ w.rec = ing[i].rec /\ w.no = ing[i].no
      /\ w.commit = ing[i].commit /\ w.native = ing[i].native /\ w.todo = ing[i].todo
  BY <1>1 DEF Types, Locals
<1> HIDE DEF w
<1>4. Goes(i, at)
  BY <1>2, <1>3, Moves DEF Goes
<1> QED BY <1>1, <1>4

\* The same, when the retry's reference may have to be taken back first.
LEMMA ChecksOut ==
  ASSUME Types, NEW i \in Ingesters, CheckedOut(i)
  PROVE  \E at \in {"clear", "mkdir", "fail"} :
           Goes(i, at) /\ (at = "mkdir" => ing[i].commit \notin Drifted)
<1>1. CASE Goto(i, "clear")
  BY <1>1, GotoGoes DEF Points, Holding, Fresh
<1>2. CASE Pinned(i)
  BY <1>2, PinnedGoes
<1> QED BY <1>1, <1>2 DEF CheckedOut

\* An existing worktree is taken at the commit asked for only.
LEMMA FindWorktreeInv ==
  ASSUME JobInv, NEW i \in Ingesters, FindWorktree(i)
  PROVE  JobInv'
<1> USE DEF Fresh, InWorktree, Verified, Existing, Recorded, Submitting, Handling, Holding
<1>0. /\ ing[i].at = "worktree" /\ ing[i].at \in Holding /\ Types
      /\ UNCHANGED <<client, operator, storeVars, workVars, head>>
  BY DEF FindWorktree, JobInv, boundVars
<1>1. Knows(RunOf(i), ing[i].at, ing[i].no, ing[i].commit, ing[i].native)
  BY <1>0, KnowsInv
<1>2. ASSUME NEW at, Goes(i, at), Knows(RunOf(i), at, ing[i].no, ing[i].commit, ing[i].native)
      PROVE  JobInv'
  BY <1>0, <1>2, ReadsTo DEF Goes
<1>3. CASE Goto(i, "add")
  <2>1. Goes(i, "add") BY <1>0, <1>3, GotoGoes DEF Points
  <2> QED BY <1>0, <1>1, <1>2, <2>1 DEF Knows
<1>4. CASE /\ ing[i].no <= Len(worktree[RunOf(i)])
           /\ worktree[RunOf(i)][ing[i].no] = ing[i].commit /\ CheckedOut(i)
  <2>1. PICK at \in {"clear", "mkdir", "fail"} :
          Goes(i, at) /\ (at = "mkdir" => ing[i].commit \notin Drifted)
    BY <1>0, <1>4, ChecksOut
  <2> QED BY <1>0, <1>1, <1>2, <1>4, <2>1 DEF Knows
<1>5. CASE Fail(i, "worktree")
  BY <1>0, <1>5, FailStep DEF Errors
<1> QED BY <1>3, <1>4, <1>5 DEF FindWorktree, WorktreeAccepts

\* git worktree add: the new worktree is the attempt's, at the ingester's commit.
LEMMA AddWorktreeInv ==
  ASSUME JobInv, NEW i \in Ingesters, AddWorktree(i)
  PROVE  JobInv'
<1> DEFINE no == ing[i].no
           commit == ing[i].commit
<1>0. ing[i].at = "add" /\ ing[i].at \in Holding
  BY DEF AddWorktree, Holding, Fresh
<1>r. PICK r \in Runs : r = RunOf(i)
  BY <1>0, InHand
<1>1. /\ no \in 1..(Len(attempts[r]) + 1) /\ commit \in Commits
      /\ RunInv(r) /\ Len(attempts[r]) \in Nat /\ Len(worktree[r]) \in Nat
  <2>1. commit \in 0..MaxCommits BY DEF JobInv, Types, Locals
  <2>2. no \in 1..(Len(attempts[r]) + 1) /\ commit # 0
    BY <1>0, <1>r DEF JobInv, IngesterInv, Fresh
  <2> QED BY <2>1, <2>2, JobAssumption, Elements DEF JobInv, Commits
<1>2. CASE Fail(i, "worktree") /\ UNCHANGED worktree
  BY <1>0, <1>2, FailStep DEF AddWorktree, Errors, workVars, boundVars
<1>3. CASE no > Len(worktree[r]) /\ AddsWorktree(r, commit) /\ CheckedOut(i)
  <2>1. PICK at \in {"clear", "mkdir", "fail"} :
          Goes(i, at) /\ (at = "mkdir" => commit \notin Drifted)
    BY <1>3, ChecksOut DEF JobInv
  <2>2. /\ ing' \in [Ingesters -> Locals] /\ \A j \in Ingesters \ {i} : ing'[j] = ing[j]
        /\ ing'[i].at = at /\ ing'[i].rec = ing[i].rec /\ ing'[i].no = no
        /\ ing'[i].commit = commit /\ ing'[i].todo \subseteq ing[i].todo
    BY <2>1 DEF Goes, IngIs
  <2>3. no = Len(worktree[r]) + 1
    BY <1>1, <1>3 DEF RunInv
  <2>4. /\ worktree' \in [Runs -> Seq(Commits)] /\ WorktreesKept
        /\ no <= Len(worktree'[r]) /\ worktree'[r][no] = commit
        /\ Len(worktree'[r]) <= Len(attempts[r]) + 1
        /\ \A q \in Runs : q # r => worktree'[q] = worktree[q]
    BY <1>1, <1>3, <2>3, WorktreeAdded DEF JobInv
  <2>5. Types'
    <3>1. /\ client' = client /\ operator' = operator /\ intents' = intents /\ control' = control
          /\ receipts' = receipts /\ attempts' = attempts /\ natives' = natives /\ head' = head
      BY ONLY AddWorktree(i) DEF AddWorktree, storeVars, boundVars
    <3> QED BY ONLY <2>2, <2>4, <3>1, JobInv DEF JobInv, Types
  <2>6. Kept /\ NoneAccepted
    BY <2>4, UnchangedKept DEF JobInv, AddWorktree, Kept
  <2>7. ASSUME NEW q \in Runs PROVE RunInv(q)'
    <3>1. attempts' = attempts
      BY DEF AddWorktree
    <3>2. \A a \in 1..Len(attempts'[q]) : AttemptInv(q, a)'
      BY <2>5, <2>6, <3>1, AttemptIsStable
    <3>3. /\ Len(attempts[q]) <= Len(worktree'[q]) /\ Len(worktree'[q]) <= Len(attempts[q]) + 1
      <4>1. CASE q = r
        <5>1. Len(worktree'[r]) \in Nat /\ Len(worktree[r]) <= Len(worktree'[r])
          BY <1>1, <2>4 DEF WorktreesKept
        <5> QED BY <1>1, <2>4, <4>1, <5>1 DEF RunInv
      <4>2. CASE q # r
        BY <2>4, <4>2 DEF JobInv, RunInv
      <4> QED BY <4>1, <4>2
    <3> QED BY <3>1, <3>2, <3>3 DEF RunInv
  <2>8. JobsInv'
    BY DEF AddWorktree, JobInv, JobsInv
  <2>9. \A k \in 1..Len(receipts') : Accepted(k)'
    BY <2>5, <2>6, AcceptedIsStable
  <2>10. IngesterInv(i)'
    <3>1. /\ ing'[i].rec \in 1..Len(receipts') /\ RunOf(i)' = r
          /\ \A e \in ing'[i].todo : e.id \in 1..Len(receipts')
      BY <1>0, <1>r, <2>2, <2>5, <2>6, StillInHand DEF Kept
    <3>2. attempts' = attempts BY DEF AddWorktree
    <3> QED BY <1>1, <2>1, <2>2, <2>4, <3>1, <3>2
            DEF IngesterInv, Fresh, InWorktree, Verified, Handling, Submitting, Existing, Recorded
  <2> QED BY <2>2, <2>5, <2>6, <2>7, <2>8, <2>9, <2>10, IngesterStep DEF AddWorktree
<1> QED BY <1>r, <1>2, <1>3 DEF AddWorktree, AddsWorktree

\* The retry's commit policy is taken back once the worktree exists.
LEMMA ClearRetryRefInv ==
  ASSUME JobInv, NEW i \in Ingesters, ClearRetryRef(i)
  PROVE  JobInv'
<1>0. ing[i].at = "clear" /\ ing[i].at \in Holding
  BY DEF ClearRetryRef, Holding, Fresh
<1>1. PICK at \in {"mkdir", "fail"} : Goes(i, at) /\ (at = "mkdir" => ing[i].commit \notin Drifted)
  BY PinnedGoes DEF ClearRetryRef, JobInv
<1>2. RunOf(i) \in Runs
  BY <1>0, InHand
<1>3. /\ ing' \in [Ingesters -> Locals] /\ \A j \in Ingesters \ {i} : ing'[j] = ing[j]
      /\ ing'[i].at = at /\ ing'[i].commit = ing[i].commit /\ ing'[i].rec = ing[i].rec
      /\ ing'[i].no = ing[i].no /\ ing'[i].todo \subseteq ing[i].todo
  BY <1>1 DEF Goes, IngIs
<1>4. control' \in [Runs -> Controls]
  <2> DEFINE x == [control[RunOf(i)] EXCEPT !.ref = 0]
  <2>1. control' = [control EXCEPT ![RunOf(i)] = x]
    BY DEF ClearRetryRef
  <2>2. x \in Controls
    <3>1. control[RunOf(i)] \in Controls /\ 0 \in 0..MaxCommits
      BY <1>2, JobAssumption DEF JobInv, Types
    <3> QED BY <3>1 DEF Controls
  <2> HIDE DEF x
  <2> QED BY <2>1, <2>2 DEF JobInv, Types
<1>5. Types'
  <2>1. /\ client' = client /\ operator' = operator /\ intents' = intents
        /\ receipts' = receipts /\ attempts' = attempts /\ natives' = natives /\ head' = head
        /\ worktree' = worktree
    BY ONLY ClearRetryRef(i) DEF ClearRetryRef, workVars, boundVars
  <2> QED BY ONLY <1>3, <1>4, <2>1, JobInv DEF JobInv, Types
<1>6. Kept /\ NoneAccepted
  BY UnchangedKept DEF JobInv, ClearRetryRef, workVars, Kept
<1>7. (\A r \in Runs : RunInv(r)') /\ JobsInv'
  BY <1>5, <1>6, StoreIsStable DEF ClearRetryRef, workVars
<1>8. \A k \in 1..Len(receipts') : Accepted(k)'
  BY <1>5, <1>6, AcceptedIsStable
<1>9. IngesterInv(i)'
  <2>1. /\ ing'[i].rec \in 1..Len(receipts') /\ RunOf(i)' = RunOf(i)
        /\ \A e \in ing'[i].todo : e.id \in 1..Len(receipts')
    BY <1>0, <1>3, <1>5, <1>6, StillInHand DEF Kept
  <2>2. /\ ing'[i].at = at /\ ing'[i].commit = ing[i].commit /\ ing'[i].no = ing[i].no
        /\ ing'[i].rec = ing[i].rec /\ attempts' = attempts /\ worktree' = worktree
    BY <1>3 DEF ClearRetryRef, workVars
  <2>3. /\ ing[i].no \in 1..(Len(attempts[RunOf(i)]) + 1)
        /\ ing[i].no <= Len(worktree[RunOf(i)]) /\ worktree[RunOf(i)][ing[i].no] = ing[i].commit
    BY <1>0 DEF JobInv, IngesterInv, Fresh, InWorktree
  <2> QED BY <1>1, <2>1, <2>2, <2>3
          DEF IngesterInv, Fresh, InWorktree, Verified, Handling, Submitting,
         Existing, Recorded
<1> QED BY <1>3, <1>5, <1>6, <1>7, <1>8, <1>9, IngesterStep DEF ClearRetryRef

\* create_attempt makes the directory unless another ingester has.
LEMMA MakeAttemptDirInv ==
  ASSUME JobInv, NEW i \in Ingesters, MakeAttemptDir(i)
  PROVE  JobInv'
<1> DEFINE no == ing[i].no
           a == EmptyAttempt(ing[i].rec)
<1>0. ing[i].at = "mkdir" /\ ing[i].at \in Holding
  BY DEF MakeAttemptDir, Holding, Fresh
<1>r. PICK r \in Runs : r = RunOf(i)
  BY <1>0, InHand
<1>1. /\ r \in Runs /\ ing[i].rec \in 1..Len(receipts) /\ ing[i].rec \in Nat
      /\ Len(attempts[r]) \in Nat /\ Len(worktree[r]) \in Nat /\ RunInv(r)
  BY <1>0, <1>r, InHand, Elements DEF JobInv
<1>2. /\ no \in 1..(Len(attempts[r]) + 1)
      /\ no <= Len(worktree[r]) /\ worktree[r][no] = ing[i].commit /\ ing[i].commit \notin Drifted
  BY <1>0, <1>r DEF JobInv, IngesterInv, Fresh, InWorktree, Verified
<1>3. /\ a \in Attempts /\ a.commit = 0 /\ ~a.intent /\ a.sub = 0 /\ a.meta = 0 /\ a.start = 0
      /\ a.by = ing[i].rec
  BY <1>1, JobAssumption DEF EmptyAttempt, Attempts
<1>4. /\ no > Len(attempts[r]) => AddsAttempt(r, a)
      /\ ~(no > Len(attempts[r])) => attempts' = attempts
  BY <1>r DEF MakeAttemptDir, AddsAttempt
<1> HIDE DEF a
<1>5. /\ attempts' \in [Runs -> Seq(Attempts)] /\ AttemptsKept
      /\ no <= Len(attempts'[r]) /\ Len(attempts'[r]) \in Nat
      /\ Len(attempts'[r]) <= Len(worktree[r]) /\ Len(worktree[r]) <= Len(attempts'[r]) + 1
      /\ \A b \in 1..Len(attempts'[r]) :
           \/ b \in 1..Len(attempts[r]) /\ attempts'[r][b] = attempts[r][b]
           \/ b = no /\ attempts'[r][b] = a
      /\ \A q \in Runs : q # r => attempts'[q] = attempts[q]
  <2>1. CASE no > Len(attempts[r])
    <3>1. no = Len(attempts[r]) + 1
      BY <1>1, <1>2, <2>1
    <3>2. /\ attempts' \in [Runs -> Seq(Attempts)]
          /\ Len(attempts'[r]) = Len(attempts[r]) + 1 /\ attempts'[r][Len(attempts[r]) + 1] = a
          /\ \A b \in 1..Len(attempts[r]) : attempts'[r][b] = attempts[r][b]
          /\ \A q \in Runs : q # r => attempts'[q] = attempts[q]
          /\ AttemptsKept
      BY <1>3, <1>4, <2>1, AttemptAdded DEF JobInv
    <3>3. Len(attempts[r]) <= Len(worktree[r]) /\ Len(worktree[r]) <= Len(attempts[r]) + 1
      BY <1>1 DEF RunInv
    <3>4. ASSUME NEW b \in 1..Len(attempts'[r])
          PROVE  b \in 1..Len(attempts[r]) \/ b = no
      BY <1>1, <3>1, <3>2
    <3> QED BY <1>1, <1>2, <3>1, <3>2, <3>3, <3>4
  <2>2. CASE ~(no > Len(attempts[r]))
    <3>1. attempts' = attempts /\ AttemptsKept /\ attempts' \in [Runs -> Seq(Attempts)]
      BY <1>4, <2>2, UnchangedKept DEF JobInv, Types
    <3>2. Len(attempts[r]) <= Len(worktree[r]) /\ Len(worktree[r]) <= Len(attempts[r]) + 1
      BY <1>1 DEF RunInv
    <3> QED BY <1>1, <1>2, <2>2, <3>1, <3>2
  <2> QED BY <2>1, <2>2
<1>6. Goes(i, "record")
  BY GotoGoes DEF MakeAttemptDir, JobInv, Points, Holding, Fresh
<1>7. /\ ing' \in [Ingesters -> Locals] /\ \A j \in Ingesters \ {i} : ing'[j] = ing[j]
      /\ ing'[i].at = "record" /\ ing'[i].rec = ing[i].rec /\ ing'[i].no = no
      /\ ing'[i].commit = ing[i].commit /\ ing'[i].todo \subseteq ing[i].todo
  BY <1>6 DEF Goes, IngIs
<1>8. /\ client' = client /\ operator' = operator /\ intents' = intents /\ control' = control
      /\ receipts' = receipts /\ natives' = natives /\ head' = head /\ worktree' = worktree
  BY ONLY MakeAttemptDir(i) DEF MakeAttemptDir, storeVars, boundVars
<1>9. Types'
  BY ONLY <1>5, <1>7, <1>8, JobInv DEF JobInv, Types
<1>10. Kept /\ NoneAccepted
  BY <1>5, <1>8, UnchangedKept DEF JobInv, Kept
<1>11. ASSUME NEW q \in Runs PROVE RunInv(q)'
  <2>1. CASE q # r
    <3>1. attempts'[q] = attempts[q] /\ RunInv(q)
      BY <1>5, <2>1 DEF JobInv
    <3>2. \A b \in 1..Len(attempts'[q]) : AttemptInv(q, b)'
      BY <1>9, <1>10, <3>1, AttemptIsStable
    <3> QED BY <1>8, <3>1, <3>2 DEF RunInv
  <2>2. CASE q = r
    <3>1. ASSUME NEW b \in 1..Len(attempts'[r]) PROVE AttemptInv(r, b)'
      <4>1. CASE b \in 1..Len(attempts[r]) /\ attempts'[r][b] = attempts[r][b]
        BY <1>1, <1>9, <1>10, <4>1, AttemptIsStable
      <4>2. CASE b = no /\ attempts'[r][b] = a
        <5>1. Len(natives) \in Nat BY Elements DEF JobInv
        <5> QED BY <1>1, <1>2, <1>3, <1>8, <4>2, <5>1 DEF AttemptInv
      <4> QED BY <1>5, <4>1, <4>2
    <3> QED BY <1>5, <1>8, <2>2, <3>1 DEF RunInv
  <2> QED BY <2>1, <2>2
<1>12. JobsInv'
  <2> SUFFICES ASSUME NEW n \in 1..Len(natives)
               PROVE  natives[n].no \in 1..Len(attempts'[natives[n].run])
    BY <1>8 DEF JobsInv
  <2>1. natives[n].run \in Runs /\ natives[n].no \in 1..Len(attempts[natives[n].run])
    BY Elements DEF JobInv, JobsInv, Jobs
  <2>2. Len(attempts[natives[n].run]) <= Len(attempts'[natives[n].run])
    BY <1>5, <2>1 DEF AttemptsKept
  <2>3. Len(attempts[natives[n].run]) \in Nat /\ Len(attempts'[natives[n].run]) \in Nat
    BY <1>5, <2>1, Elements DEF JobInv
  <2> QED BY <2>1, <2>2, <2>3
<1>13. \A k \in 1..Len(receipts') : Accepted(k)'
  BY <1>9, <1>10, AcceptedIsStable
<1>14. IngesterInv(i)'
  <2>1. /\ ing'[i].rec \in 1..Len(receipts') /\ RunOf(i)' = r
        /\ \A e \in ing'[i].todo : e.id \in 1..Len(receipts')
    BY <1>0, <1>r, <1>7, <1>9, <1>10, StillInHand DEF Kept
  <2> QED BY <1>2, <1>5, <1>7, <1>8, <2>1
          DEF IngesterInv, Fresh, InWorktree, Verified, Handling, Submitting,
         Existing, Recorded
<1> QED BY <1>7, <1>8, <1>9, <1>10, <1>11, <1>12, <1>13, <1>14, IngesterStep

\* The executor gets a job for attempt no of run r.
AddsJob(x) == natives' = Append(natives, x)

\* A new job leaves the others alone.
LEMMA JobAdded ==
  ASSUME Types, NEW x \in Jobs, AddsJob(x)
  PROVE  /\ natives' \in Seq(Jobs) /\ NativesKept /\ Len(natives') = Len(natives) + 1
         /\ natives'[Len(natives) + 1] = x /\ \A n \in 1..Len(natives) : natives'[n] = natives[n]
<1>1. natives \in Seq(Jobs) /\ Len(natives) \in Nat
  BY Elements DEF Types
<1>2. /\ natives' \in Seq(Jobs) /\ Len(natives') = Len(natives) + 1
      /\ natives'[Len(natives) + 1] = x /\ \A n \in 1..Len(natives) : natives'[n] = natives[n]
  BY <1>1 DEF AddsJob
<1>3. NativesKept
  BY <1>1, <1>2 DEF NativesKept, Live
<1> QED BY <1>2, <1>3

\* A submitting ingester's execution id.
LEMMA NewJob ==
  ASSUME JobInv, NEW i \in Ingesters, ing[i].at \in Submitting
  PROVE  /\ NewNative(i) \in Jobs /\ NewNative(i).run = RunOf(i) /\ NewNative(i).no = ing[i].no
         /\ RunOf(i) \in Runs /\ ing[i].no \in 1..Len(attempts[RunOf(i)])
<1>1. RunOf(i) \in Runs /\ ing[i].no \in 1..Len(attempts[RunOf(i)]) /\ ing[i].no \in Nat
  BY OwnAttempt DEF Existing, Recorded
<1> QED BY <1>1 DEF NewNative, Jobs

\* A step that makes a job, and goes on submitting or fails.
LEMMA JobStep ==
  ASSUME JobInv, NEW i \in Ingesters, ing[i].at \in Submitting, AddsJob(NewNative(i)),
         UNCHANGED <<client, operator, storeVars, receipts, attempts, worktree, head>>,
         \/ Goes(i, "fail")
         \/ \E at \in Submitting :
              IngIs(i, at, ing[i].rec, ing[i].no, ing[i].commit, Len(natives) + 1)
  PROVE  JobInv'
<1>1. ing' \in [Ingesters -> Locals] /\ \A j \in Ingesters \ {i} : ing'[j] = ing[j]
  BY DEF Goes, IngIs
<1>2. /\ natives' \in Seq(Jobs) /\ NativesKept /\ Len(natives') = Len(natives) + 1
      /\ natives'[Len(natives) + 1] = NewNative(i) /\ Len(natives) \in Nat
  BY NewJob, JobAdded, Elements DEF JobInv
<1>3. Types'
  <2>1. /\ client' = client /\ operator' = operator /\ intents' = intents /\ control' = control
        /\ receipts' = receipts /\ attempts' = attempts /\ head' = head /\ worktree' = worktree
    BY DEF storeVars
  <2> QED BY ONLY <1>1, <1>2, <2>1, JobInv DEF JobInv, Types
<1>4. Kept /\ NoneAccepted
  BY <1>2, UnchangedKept DEF JobInv, Kept
<1>5. (\A r \in Runs : RunInv(r)') /\ JobsInv'
  <2>1. ASSUME NEW n \in 1..Len(natives'), n \notin 1..Len(natives)
        PROVE  natives'[n].no \in 1..Len(attempts[natives'[n].run])
    <3>1. n = Len(natives) + 1
      BY <1>2, <2>1
    <3> QED BY <1>2, <3>1, NewJob
  <2> QED BY <1>3, <1>4, <2>1, StoreIsStable
<1>6. \A k \in 1..Len(receipts') : Accepted(k)'
  BY <1>3, <1>4, AcceptedIsStable
<1>7. IngesterInv(i)'
  <2>1. CASE Goes(i, "fail")
    BY <1>3, <1>4, <2>1, FailsInv DEF Kept, Holding, Recorded
  <2>2. ASSUME NEW at \in Submitting,
               IngIs(i, at, ing[i].rec, ing[i].no, ing[i].commit, Len(natives) + 1)
        PROVE  IngesterInv(i)'
    <3>1. Len(natives) + 1 \in 1..Len(natives')
      BY <1>2
    <3> QED BY <1>3, <1>4, <2>2, <3>1, SubmittingInv
  <2> QED BY <2>1, <2>2
<1> QED BY <1>1, <1>3, <1>4, <1>5, <1>6, <1>7, IngesterStep

\* executor.submit: a job or a process.
LEMMA LaunchInv ==
  ASSUME JobInv, NEW i \in Ingesters, Launch(i)
  PROVE  JobInv'
<1>0. ing[i].at \in Submitting
  BY DEF Launch, Submitting
<1> DEFINE at == IF Executor = "local" THEN "meta" ELSE "handle"
           w == [ing[i] EXCEPT !.native = Len(natives) + 1, !.at = at]
<1>1. at \in Submitting /\ at \in Points
  BY DEF Submitting, Handling, Points, Holding, Recorded
<1>2. ing' = [ing EXCEPT ![i] = w]
  <2> HIDE DEF at
  <2>1. ing \in [Ingesters -> Locals] BY DEF JobInv, Types
  <2>2. ing' = [ing EXCEPT ![i].native = Len(natives) + 1, ![i].at = at] BY DEF Launch, at
  <2> QED BY ONLY <2>1, <2>2, i \in Ingesters
<1> HIDE DEF at
<1>3. /\ w \in Locals /\ w.at = at /\ w.rec = ing[i].rec /\ w.no = ing[i].no
      /\ w.commit = ing[i].commit /\ w.native = Len(natives) + 1 /\ w.todo = ing[i].todo
  <2>1. Len(natives) + 1 \in Nat BY Elements DEF JobInv
  <2> QED BY <1>1, <2>1 DEF JobInv, Types, Locals
<1> HIDE DEF w
<1>4. IngIs(i, at, ing[i].rec, ing[i].no, ing[i].commit, Len(natives) + 1)
  <2>1. IngIs(i, w.at, w.rec, w.no, w.commit, w.native)
    BY <1>2, <1>3, Moves DEF JobInv
  <2> QED BY <1>3, <2>1
<1>5. AddsJob(NewNative(i)) BY DEF Launch, AddsJob
<1> QED BY <1>0, <1>1, <1>4, <1>5, JobStep DEF Launch, boundVars

\* A command of the executor fails, with or without its effect.
LEMMA ExecutorFailsInv ==
  ASSUME JobInv, NEW i \in Ingesters, NEW how \in ExecutorFaults, ExecutorFails(i, how)
  PROVE  JobInv'
<1>0. ing[i].at \in Submitting /\ ing[i].at \in Holding
  BY DEF ExecutorFails, Submitting, Holding, Recorded
<1>1. CASE AddsJob(NewNative(i))
  <2>1. Goes(i, "fail")
    BY FailGoes DEF ExecutorFails, JobInv, Errors
  <2> QED BY <1>0, <1>1, <2>1, JobStep DEF ExecutorFails, boundVars
<1>2. CASE UNCHANGED natives
  BY <1>0, <1>2, FailStep DEF ExecutorFails, Errors, workVars, boundVars
<1> QED BY <1>1, <1>2 DEF ExecutorFails, AddsJob

-----------------------------------------------------------------------------
(* The steps of the clients, the operator, the executor and the branch.    *)

\* A step that leaves the ingesters and the store alone.
LEMMA QuietStep ==
  ASSUME JobInv, Types', HasRun', UNCHANGED <<ing, workVars>>
  PROVE  JobInv'
<1>1. Kept /\ NoneAccepted
  BY UnchangedKept DEF JobInv, workVars, Kept
<1>2. (\A r \in Runs : RunInv(r)') /\ JobsInv'
  BY <1>1, StoreIsStable DEF workVars
<1>3. \A k \in 1..Len(receipts') : Accepted(k)'
  BY <1>1, AcceptedIsStable
<1>4. ASSUME NEW j \in Ingesters PROVE IngesterInv(j)'
  BY <1>1, KnowledgeIsStable DEF JobInv
<1> QED BY <1>2, <1>3, <1>4 DEF JobInv

\* A new receipt lies in the pending directory.
LEMMA EnqueueStep ==
  ASSUME JobInv, NEW r \in Runs, NEW reason \in Reasons,
         receipts' = Append(receipts, Receipt(r, reason)), HasRun',
         client' \in [Clients -> [at : {"idle", "batch", "run", "enqueue"}, run : 0..NRuns]],
         operator' \in [at : {"idle", "retry", "cancel"}, run : 0..NRuns],
         UNCHANGED <<ing, storeVars, attempts, worktree, natives, head>>
  PROVE  JobInv'
<1> DEFINE x == Receipt(r, reason)
<1>1. x \in Receipts /\ x.place = "pending"
  BY DEF Receipt, Receipts, Places, Errors
<1>2. receipts' = Append(receipts, x) /\ receipts \in Seq(Receipts) /\ Len(receipts) \in Nat
  BY Elements DEF JobInv, Types
<1> HIDE DEF x
<1>3. /\ receipts' \in Seq(Receipts) /\ Len(receipts') = Len(receipts) + 1
      /\ receipts'[Len(receipts) + 1] = x
      /\ \A k \in 1..Len(receipts) : receipts'[k] = receipts[k]
  BY ONLY <1>1, <1>2
<1>4. ReceiptsKept
  BY <1>2, <1>3 DEF ReceiptsKept
<1>5. NoneAccepted
  <2> SUFFICES ASSUME NEW k \in 1..Len(receipts'), receipts'[k].place = "accepted"
               PROVE  k <= Len(receipts) /\ receipts[k].place = "accepted"
    BY DEF NoneAccepted
  <2>1. k # Len(receipts) + 1
    BY <1>1, <1>3
  <2>2. k \in 1..Len(receipts)
    BY <1>2, <1>3, <2>1
  <2> QED BY <1>3, <2>2
<1>6. Types'
  <2>1. /\ ing' = ing /\ intents' = intents /\ control' = control
        /\ attempts' = attempts /\ natives' = natives /\ head' = head /\ worktree' = worktree
    BY DEF storeVars
  <2> QED BY <1>3, <2>1 DEF JobInv, Types
<1>7. Kept
  BY <1>4, UnchangedKept DEF JobInv, Kept
<1>8. (\A q \in Runs : RunInv(q)') /\ JobsInv'
  BY <1>6, <1>7, StoreIsStable
<1>9. \A k \in 1..Len(receipts') : Accepted(k)'
  BY <1>5, <1>6, <1>7, AcceptedIsStable
<1>10. ASSUME NEW j \in Ingesters PROVE IngesterInv(j)'
  BY <1>6, <1>7, KnowledgeIsStable DEF JobInv
<1> QED BY <1>6, <1>8, <1>9, <1>10 DEF JobInv

\* Types of the clients.
ClientTypes == [at : {"idle", "batch", "run", "enqueue"}, run : 0..NRuns]

\* A client that moves has a run to write about.
LEMMA ClientMoves ==
  ASSUME JobInv, NEW c \in Clients, NEW w \in ClientTypes, client' = [client EXCEPT ![c] = w],
         w.at \in {"run", "enqueue"} => w.run \in Runs, operator' = operator
  PROVE  client' \in [Clients -> ClientTypes] /\ HasRun'
<1>1. client \in [Clients -> ClientTypes] /\ HasRun
  BY DEF JobInv, Types, ClientTypes
<1>2. /\ client' \in [Clients -> ClientTypes] /\ client'[c] = w
      /\ \A d \in Clients : d # c => client'[d] = client[d]
  BY ONLY <1>1, c \in Clients, w \in ClientTypes, client' = [client EXCEPT ![c] = w]
<1> QED BY <1>1, <1>2 DEF HasRun

\* A client's steps.
LEMMA SubmitStepInv ==
  ASSUME JobInv, NEW c \in Clients, SubmitStep(c)
  PROVE  JobInv'
<1>0. /\ client[c] \in ClientTypes
      /\ client[c].at \in {"run", "enqueue"} => client[c].run \in Runs
  BY DEF JobInv, Types, HasRun, ClientTypes
<1>1. CASE SubmitBatch(c)
  <2> DEFINE at == IF batchRec THEN "idle" ELSE "batch"
             w == [client[c] EXCEPT !.at = at]
  <2>1. client' = [client EXCEPT ![c] = w]
    BY <1>1 DEF SubmitBatch
  <2>2. at \in {"idle", "batch"} OBVIOUS
  <2> HIDE DEF at
  <2>3. w \in ClientTypes /\ w.at = at
    BY <1>0, <2>2 DEF ClientTypes
  <2> HIDE DEF w
  <2>4. client' \in [Clients -> ClientTypes] /\ HasRun'
    BY <1>1, <2>1, <2>2, <2>3, ClientMoves DEF SubmitBatch
  <2>5. Types'
    BY <1>1, <2>4 DEF SubmitBatch, JobInv, Types, ClientTypes, storeVars, workVars
  <2> QED BY <1>1, <2>4, <2>5, QuietStep DEF SubmitBatch
<1>2. CASE CreateBatch(c)
  <2> DEFINE w == [at |-> "run", run |-> 1]
  <2>1. client' = [client EXCEPT ![c] = w]
    BY <1>2 DEF CreateBatch
  <2>2. w \in ClientTypes /\ w.run \in Runs
    BY JobAssumption DEF ClientTypes, Runs
  <2> HIDE DEF w
  <2>3. client' \in [Clients -> ClientTypes] /\ HasRun'
    BY <1>2, <2>1, <2>2, ClientMoves DEF CreateBatch
  <2>4. Types'
    BY <1>2, <2>3 DEF CreateBatch, JobInv, Types, ClientTypes, workVars, boundVars
  <2> QED BY <1>2, <2>3, <2>4, QuietStep DEF CreateBatch
<1>3. CASE CreateRun(c)
  <2> DEFINE w == [client[c] EXCEPT !.at = "enqueue"]
  <2>1. client' = [client EXCEPT ![c] = w]
    BY <1>3 DEF CreateRun
  <2>2. w \in ClientTypes /\ w.run = client[c].run
    BY <1>0 DEF ClientTypes
  <2> HIDE DEF w
  <2>3. client' \in [Clients -> ClientTypes] /\ HasRun' /\ client[c].run \in Runs
    BY <1>0, <1>3, <2>1, <2>2, ClientMoves DEF CreateRun
  <2>4. intents' \subseteq Runs
    BY <1>3, <2>3 DEF CreateRun, JobInv, Types
  <2>5. Types'
    BY <1>3, <2>3, <2>4 DEF CreateRun, JobInv, Types, ClientTypes, workVars, boundVars
  <2> QED BY <1>3, <2>3, <2>5, QuietStep DEF CreateRun
<1>4. CASE Enqueue(c)
  <2> DEFINE w == IF client[c].run = NRuns THEN IdleClient
                  ELSE [at |-> "run", run |-> client[c].run + 1]
  <2>1. client' = [client EXCEPT ![c] = w]
    BY <1>4 DEF Enqueue
  <2>2. client[c].run \in Runs
    BY <1>0, <1>4 DEF Enqueue
  <2>3. w \in ClientTypes /\ (w.at \in {"run", "enqueue"} => w.run \in Runs)
    <3>1. CASE client[c].run = NRuns
      BY <3>1, JobAssumption DEF ClientTypes, IdleClient
    <3>2. CASE client[c].run # NRuns
      <4>1. client[c].run + 1 \in Runs /\ client[c].run + 1 \in 0..NRuns
        BY <2>2, <3>2, JobAssumption DEF Runs
      <4> QED BY <3>2, <4>1 DEF ClientTypes
    <3> QED BY <3>1, <3>2
  <2> HIDE DEF w
  <2>4. client' \in [Clients -> ClientTypes] /\ HasRun'
    BY <1>4, <2>1, <2>3, ClientMoves DEF Enqueue
  <2> QED BY <1>4, <2>2, <2>4, EnqueueStep DEF Enqueue, ClientTypes, Reasons, JobInv, Types, boundVars
<1> QED BY <1>1, <1>2, <1>3, <1>4 DEF SubmitStep

\* A job changes its state.
LEMMA JobChanged ==
  ASSUME Types, NEW n \in 1..Len(natives), NEW st \in {"queued", "running", "started", "ended"},
         natives' = [natives EXCEPT ![n].st = st], st # "ended" => Live(n)
  PROVE  /\ natives' \in Seq(Jobs) /\ Len(natives') = Len(natives) /\ NativesKept
<1> DEFINE x == [natives[n] EXCEPT !.st = st]
<1>1. natives \in Seq(Jobs) /\ natives[n] \in Jobs /\ Len(natives) \in Nat
  BY Elements DEF Types
<1>2. natives' = [natives EXCEPT ![n] = x]
  OBVIOUS
<1>3. x \in Jobs /\ x.run = natives[n].run /\ x.no = natives[n].no /\ x.st = st
  BY <1>1 DEF Jobs
<1> HIDE DEF x
<1>4. /\ natives' \in Seq(Jobs) /\ Len(natives') = Len(natives) /\ natives'[n] = x
      /\ \A m \in 1..Len(natives) : m # n => natives'[m] = natives[m]
  BY ONLY <1>1, <1>2, <1>3, n \in 1..Len(natives)
<1>5. ASSUME NEW m \in 1..Len(natives)
      PROVE  /\ natives'[m].run = natives[m].run /\ natives'[m].no = natives[m].no
             /\ Live(m)' => Live(m)
  <2>1. CASE m = n
    BY <1>3, <1>4, <2>1 DEF Live
  <2>2. CASE m # n
    BY <1>4, <2>2 DEF Live
  <2> QED BY <2>1, <2>2
<1> QED BY <1>1, <1>4, <1>5 DEF NativesKept

\* A step of the executor that writes nothing.
LEMMA NativeQuietStep ==
  ASSUME JobInv, NEW n \in 1..Len(natives), NEW st \in {"queued", "running", "started", "ended"},
         natives' = [natives EXCEPT ![n].st = st], st # "ended" => Live(n),
         operator' \in [at : {"idle", "retry", "cancel"}, run : 0..NRuns], HasRun',
         UNCHANGED <<client, ing, storeVars, receipts, attempts, worktree, head>>
  PROVE  JobInv'
<1>1. natives' \in Seq(Jobs) /\ Len(natives') = Len(natives) /\ NativesKept
  BY JobChanged DEF JobInv
<1>2. Types'
  <2>1. /\ client' = client /\ ing' = ing /\ intents' = intents /\ control' = control
        /\ receipts' = receipts /\ attempts' = attempts /\ head' = head /\ worktree' = worktree
    BY DEF storeVars
  <2> QED BY ONLY <1>1, <2>1, JobInv,
                  operator' \in [at : {"idle", "retry", "cancel"}, run : 0..NRuns] DEF JobInv, Types
<1>3. Kept /\ NoneAccepted
  BY <1>1, UnchangedKept DEF JobInv, Kept
<1>4. (\A r \in Runs : RunInv(r)') /\ JobsInv'
  BY <1>1, <1>2, <1>3, StoreIsStable
<1>5. \A k \in 1..Len(receipts') : Accepted(k)'
  BY <1>2, <1>3, AcceptedIsStable
<1>6. ASSUME NEW j \in Ingesters PROVE IngesterInv(j)'
  BY <1>2, <1>3, KnowledgeIsStable DEF JobInv
<1> QED BY <1>2, <1>4, <1>5, <1>6 DEF JobInv

\* A job starts, its runner writes the start sentinel, it ends.
LEMMA NativeStepInv ==
  ASSUME JobInv, NEW n \in DOMAIN natives, NativeStart(n) \/ RunnerStart(n) \/ NativeEnd(n)
  PROVE  JobInv'
<1>0. n \in 1..Len(natives) /\ natives[n] \in Jobs /\ Len(natives) \in Nat
  BY Elements DEF JobInv
<1>o. ASSUME operator' = operator, client' = client
      PROVE  operator' \in [at : {"idle", "retry", "cancel"}, run : 0..NRuns] /\ HasRun'
  BY <1>o DEF JobInv, Types, HasRun
<1>1. CASE NativeStart(n)
  BY <1>0, <1>o, <1>1, NativeQuietStep DEF NativeStart, Live, boundVars
<1>2. CASE NativeEnd(n)
  BY <1>0, <1>o, <1>2, NativeQuietStep DEF NativeEnd, Live, boundVars
<1>3. CASE RunnerStart(n)
  <2>p. PICK r \in Runs : r = natives[n].run
    BY <1>0 DEF Jobs
  <2>r. PICK no \in 1..Len(attempts[r]) : no = natives[n].no
    BY <1>0, <2>p DEF JobInv, JobsInv
  <2> DEFINE a == [attempts[r][no] EXCEPT !.start = n]
  <2>1. attempts[r][no] \in Attempts /\ AttemptInv(r, no)
    BY Elements DEF JobInv, RunInv
  <2>2. /\ a \in Attempts /\ a.commit = attempts[r][no].commit /\ a.intent = attempts[r][no].intent
        /\ a.by = attempts[r][no].by /\ a.sub = attempts[r][no].sub /\ a.meta = attempts[r][no].meta
        /\ a.start = n
    <3>1. n \in Nat
      BY <1>0
    <3> QED BY <2>1, <3>1 DEF Attempts
  <2>3. Writes(r, no, a)
    BY <1>3, <2>p, <2>r DEF RunnerStart, Writes
  <2> HIDE DEF a
  <2>4. Keeps(r, no, a)
    BY <1>0, <2>1, <2>2 DEF AttemptInv, Keeps
  <2>5. natives' \in Seq(Jobs) /\ Len(natives') = Len(natives) /\ NativesKept
    BY <1>0, <1>3, JobChanged DEF JobInv, RunnerStart, Live
  <2>6. ing' \in [Ingesters -> Locals] /\ ing' = ing
    BY <1>3 DEF RunnerStart, JobInv, Types
  <2>7. /\ Types' /\ Kept
        /\ (\A q \in Runs : RunInv(q)') /\ JobsInv' /\ (\A k \in 1..Len(receipts') : Accepted(k)')
    BY <1>3, <2>3, <2>4, <2>5, <2>6, AttemptWritten DEF RunnerStart, boundVars
  <2>8. ASSUME NEW j \in Ingesters PROVE IngesterInv(j)'
    BY <2>6, <2>7, KnowledgeIsStable DEF JobInv
  <2> QED BY <1>3, <1>o, <2>7, <2>8 DEF RunnerStart, JobInv
<1> QED BY <1>1, <1>2, <1>3

\* The operator's commands.
LEMMA OperatorStepInv ==
  ASSUME JobInv, OperatorStep
  PROVE  JobInv'
<1> DEFINE Ops == [at : {"idle", "retry", "cancel"}, run : 0..NRuns]
<1>0. operator \in Ops /\ control \in [Runs -> Controls] /\ HasRun /\ IdleOperator \in Ops
      /\ IdleOperator.at = "idle"
  BY JobAssumption DEF JobInv, Types, IdleOperator
<1>1. ASSUME NEW r \in Runs, SetDisabled(r) PROVE JobInv'
  <2> DEFINE x == [control[r] EXCEPT !.disabled = ~@]
  <2>1. control' = [control EXCEPT ![r] = x]
    BY <1>1 DEF SetDisabled
  <2>2. x \in Controls
    <3>1. control[r] \in Controls BY <1>0
    <3> QED BY <3>1, Zenon DEF Controls
  <2> HIDE DEF x
  <2>3. control' \in [Runs -> Controls]
    BY <1>0, <2>1, <2>2
  <2>4. Types' /\ HasRun'
    BY <1>0, <1>1, <2>3 DEF SetDisabled, JobInv, Types, HasRun, workVars
  <2> QED BY <1>1, <2>4, QuietStep DEF SetDisabled
<1>2. CASE Pause
  <2>1. Types' /\ HasRun'
    BY <1>2 DEF Pause, JobInv, Types, HasRun, workVars
  <2> QED BY <1>2, <2>1, QuietStep DEF Pause
<1>3. ASSUME NEW r \in Runs, NEW latest \in BOOLEAN, Retry(r, latest) PROVE JobInv'
  <2> DEFINE ref == IF latest THEN 0 ELSE attempts[r][Len(attempts[r])].commit
             x == [control[r] EXCEPT !.ref = ref, !.cancelled = FALSE]
  <2>1. control' = [control EXCEPT ![r] = x]
    <3> HIDE DEF ref
    <3>1. control' = [control EXCEPT ![r].ref = ref, ![r].cancelled = FALSE]
      BY <1>3 DEF Retry, ref
    <3> QED BY ONLY <1>0, <3>1, r \in Runs
  <2>2. ref \in 0..MaxCommits
    <3>1. CASE latest
      BY <3>1, JobAssumption
    <3>2. CASE ~latest
      <4>1. Len(attempts[r]) \in 1..Len(attempts[r])
        BY <1>3, <3>2, Elements DEF Retry, JobInv
      <4>2. attempts[r][Len(attempts[r])] \in Attempts
        BY <4>1, Elements DEF JobInv
      <4> QED BY <3>2, <4>2 DEF Attempts
    <3> QED BY <3>1, <3>2
  <2> HIDE DEF ref
  <2>3. x \in Controls
    <3>1. control[r] \in Controls BY <1>0
    <3> QED BY <2>2, <3>1 DEF Controls
  <2> HIDE DEF x
  <2>4. control' \in [Runs -> Controls]
    BY <1>0, <2>1, <2>3
  <2>5. operator' \in Ops /\ operator'.run = r
    BY <1>3, JobAssumption DEF Retry, Runs
  <2>6. client' = client /\ ing' = ing /\ intents' = intents /\ UNCHANGED workVars /\ head' = head
    BY <1>3 DEF Retry
  <2>7. Types' /\ HasRun'
    BY <1>0, <2>4, <2>5, <2>6 DEF JobInv, Types, HasRun, workVars
  <2> QED BY <2>6, <2>7, QuietStep
<1>4. CASE EnqueueRetry
  <2>1. operator.run \in Runs /\ operator' \in Ops /\ HasRun' /\ client' = client
    BY <1>0, <1>4 DEF EnqueueRetry, HasRun
  <2> QED BY <1>4, <2>1, EnqueueStep DEF EnqueueRetry, JobInv, Types, Reasons, boundVars
<1>5. ASSUME NEW r \in Runs, Cancel(r) PROVE JobInv'
  <2> DEFINE n == attempts[r][Len(attempts[r])].sub
  <2>1. n \in 1..Len(natives)
    <3>1. Len(attempts[r]) \in 1..Len(attempts[r])
      <4>1. attempts[r] # <<>> /\ attempts[r] \in Seq(Attempts)
        BY <1>5, Elements DEF Cancel, JobInv
      <4> QED BY <4>1
    <3>2. attempts[r][Len(attempts[r])] \in Attempts /\ AttemptInv(r, Len(attempts[r]))
      BY <3>1, Elements DEF JobInv, RunInv
    <3>3. n # 0 /\ n \in Nat /\ n <= Len(natives)
      BY <1>5, <3>2 DEF Cancel, Attempts, AttemptInv
    <3> QED BY <3>3, Elements DEF JobInv
  <2>2. natives' = [natives EXCEPT ![n].st = "ended"]
    BY <1>5 DEF Cancel
  <2> HIDE DEF n
  <2>3. operator' \in Ops /\ operator'.run = r /\ client' = client
    BY <1>5, JobAssumption DEF Cancel, Runs
  <2>4. HasRun'
    BY <1>0, <2>3 DEF HasRun
  <2> QED BY <1>5, <2>1, <2>2, <2>3, <2>4, NativeQuietStep DEF Cancel
<1>6. CASE MarkCancelled
  <2> DEFINE x == [control[operator.run] EXCEPT !.cancelled = TRUE]
  <2>1. control' = [control EXCEPT ![operator.run] = x] /\ operator.run \in Runs
    BY <1>0, <1>6 DEF MarkCancelled, HasRun
  <2>2. x \in Controls
    <3>1. control[operator.run] \in Controls BY <1>0, <2>1
    <3> QED BY <3>1, Zenon DEF Controls
  <2> HIDE DEF x
  <2>3. control' \in [Runs -> Controls]
    BY <1>0, <2>1, <2>2
  <2>4. client' = client /\ ing' = ing /\ intents' = intents /\ UNCHANGED workVars /\ head' = head
        /\ operator' = IdleOperator
    BY <1>6 DEF MarkCancelled, boundVars
  <2>5. Types' /\ HasRun'
    BY <1>0, <2>3, <2>4 DEF JobInv, Types, HasRun, workVars
  <2> QED BY <2>4, <2>5, QuietStep
<1> QED BY <1>1, <1>2, <1>3, <1>4, <1>5, <1>6 DEF OperatorStep

\* A process dies.
LEMMA CrashInv ==
  ASSUME JobInv, Crash
  PROVE  JobInv'
<1>1. ASSUME NEW i \in Ingesters, Abort(i), UNCHANGED <<client, operator>> PROVE JobInv'
  BY <1>1, AbortDrops, AbortStep DEF JobInv, Crash
<1>2. ASSUME NEW c \in Clients, client' = [client EXCEPT ![c] = IdleClient],
             UNCHANGED <<ing, operator>>
      PROVE  JobInv'
  <2>1. IdleClient \in ClientTypes /\ IdleClient.at = "idle"
    BY JobAssumption DEF IdleClient, ClientTypes
  <2>2. client' \in [Clients -> ClientTypes] /\ HasRun'
    BY <1>2, <2>1, ClientMoves
  <2>3. Types'
    BY <1>2, <2>2 DEF Crash, JobInv, Types, ClientTypes, storeVars, workVars
  <2> QED BY <1>2, <2>2, <2>3, QuietStep DEF Crash
<1>3. CASE operator' = IdleOperator /\ UNCHANGED <<client, ing>>
  <2>1. Types' /\ HasRun'
    BY <1>3, JobAssumption DEF Crash, JobInv, Types, HasRun, IdleOperator, storeVars, workVars
  <2> QED BY <1>3, <2>1, QuietStep DEF Crash
<1> QED BY <1>1, <1>2, <1>3 DEF Crash

\* The branch moves on.
LEMMA PushInv ==
  ASSUME JobInv, Push
  PROVE  JobInv'
<1>1. head' \in Commits
  BY JobAssumption DEF Push, JobInv, Types, Commits
<1>2. Types' /\ HasRun'
  BY <1>1 DEF Push, JobInv, Types, HasRun, storeVars, workVars
<1> QED BY <1>2, QuietStep DEF Push

-----------------------------------------------------------------------------
(* The theorems about any number of processes.                             *)

\* The invariant holds before anything is submitted.
LEMMA JobInitially == JobInit => JobInv
<1> SUFFICES ASSUME JobInit PROVE JobInv
  OBVIOUS
<1>1. Types
  BY IdleLocals, JobAssumption DEF JobInit, Types, IdleClient, IdleOperator, Commits, Controls, Runs
<1>2. HasRun
  BY DEF JobInit, HasRun, IdleClient, IdleOperator
<1>3. ASSUME NEW i \in Ingesters PROVE IngesterInv(i)
  BY IdleLocals DEF JobInit, IngesterInv, Holding, Fresh, InWorktree, Verified, Handling, Submitting,
     Existing, Recorded
<1>4. ASSUME NEW r \in Runs PROVE RunInv(r)
  BY DEF JobInit, RunInv
<1>5. JobsInv /\ \A k \in 1..Len(receipts) : Accepted(k)
  BY DEF JobInit, JobsInv
<1> QED BY <1>1, <1>2, <1>3, <1>4, <1>5 DEF JobInv

\* Every step keeps it.
LEMMA JobStepwise == JobInv /\ [JobNext]_vars => JobInv'
<1> SUFFICES ASSUME JobInv, [JobNext]_vars PROVE JobInv'
  OBVIOUS
<1>1. ASSUME NEW i \in Ingesters, IngestStep(i) PROVE JobInv'
  BY <1>1, IngestStartInv, ClaimInv, ReceiptGoneInv, RequeueInv, StartInv, LookInv, FindWorktreeInv,
     AddWorktreeInv, ClearRetryRefInv, MakeAttemptDirInv, RecordAttemptInv, WriteIntentInv,
     ReadStartInv, CorrelateInv, CorrelateAgainInv, LaunchInv, RecordLocalInv, RecordSubmissionInv,
     FinishInv, IngestEndInv DEF IngestStep
<1>2. CASE UNCHANGED vars
  <2>1. UNCHANGED <<client, ing, operator, intents, control, head, workVars>>
    BY <1>2 DEF vars, storeVars, boundVars
  <2>2. Types' /\ HasRun'
    BY <2>1 DEF JobInv, Types, HasRun, workVars
  <2> QED BY <2>1, <2>2, QuietStep
<1> QED BY <1>1, <1>2, SubmitStepInv, ExecutorFailsInv, OperatorStepInv, NativeStepInv, PushInv,
           CrashInv DEF JobNext, NativeStep

\* The invariant of the job control plane: what every process knows is on disk.
THEOREM JobInvariant == JobSpec => []JobInv
BY JobInitially, JobStepwise, PTL DEF JobSpec

\* Files hold what their writers put there, and handles name jobs that exist.
THEOREM JobTypesHold == JobSpec => []JobTypeOK
<1>1. JobInv => JobTypeOK
  <2> SUFFICES ASSUME JobInv PROVE JobTypeOK
    OBVIOUS
  <2>1. intents \subseteq Runs /\ head \in Commits
    BY DEF JobInv, Types
  <2>2. \A k \in DOMAIN receipts : receipts[k].run \in Runs /\ receipts[k].place \in Places
    BY Elements DEF JobInv, Receipts
  <2>3. ASSUME NEW r \in Runs, NEW a \in DOMAIN attempts[r]
        PROVE  /\ attempts[r][a].commit \in 0..MaxCommits /\ attempts[r][a].by \in DOMAIN receipts
               /\ {attempts[r][a].sub, attempts[r][a].meta, attempts[r][a].start} \subseteq 0..Len(natives)
               /\ attempts[r][a].sub # 0 => attempts[r][a].intent /\ attempts[r][a].commit # 0
    <3>1. a \in 1..Len(attempts[r]) /\ attempts[r][a] \in Attempts /\ Len(natives) \in Nat
      BY Elements DEF JobInv
    <3>2. AttemptInv(r, a)
      BY <3>1 DEF JobInv, RunInv
    <3>3. DOMAIN receipts = 1..Len(receipts)
      BY Elements DEF JobInv
    <3>4. /\ attempts[r][a].sub \in Nat /\ attempts[r][a].meta \in Nat /\ attempts[r][a].start \in Nat
          /\ attempts[r][a].commit \in 0..MaxCommits
      BY <3>1 DEF Attempts
    <3> QED BY <3>1, <3>2, <3>3, <3>4 DEF AttemptInv
  <2>4. \A n \in DOMAIN natives : natives[n].no \in DOMAIN attempts[natives[n].run]
    BY Elements DEF JobInv, JobsInv, Jobs
  <2>5. \A r \in Runs : Len(attempts[r]) <= Len(worktree[r]) /\ Len(worktree[r]) <= Len(attempts[r]) + 1
    BY DEF JobInv, RunInv
  <2> QED BY <2>1, <2>2, <2>3, <2>4, <2>5 DEF JobTypeOK
<1> QED BY <1>1, JobInvariant, PTL

\* An attempt runs the commit it records, and that commit's identity is the series': no crash,
\* branch move or second ingester can put another commit into its worktree.
THEOREM AttemptsRunTheirCommit == JobSpec => []PinnedCode
<1>1. JobInv => PinnedCode
  <2> SUFFICES ASSUME JobInv, NEW r \in Runs, NEW a \in DOMAIN attempts[r], attempts[r][a].commit # 0
               PROVE  attempts[r][a].commit = worktree[r][a] /\ attempts[r][a].commit \notin Drifted
    BY DEF PinnedCode
  <2>1. a \in 1..Len(attempts[r])
    BY Elements DEF JobInv
  <2>2. AttemptInv(r, a)
    BY <2>1 DEF JobInv, RunInv
  <2> QED BY <2>2 DEF AttemptInv
<1> QED BY <1>1, JobInvariant, PTL

\* However ingesters overlap, die and take over each other's attempts, a run with an accepted
\* receipt has an attempt whose handle is on disk: whoever reports success has written
\* submission.json or has seen it.
THEOREM AcceptedReceiptsHaveHandles == JobSpec => []AcceptedHasHandle
<1>1. JobInv => AcceptedHasHandle
  <2> SUFFICES ASSUME JobInv, NEW k \in DOMAIN receipts, receipts[k].place = "accepted"
               PROVE  \E a \in DOMAIN attempts[receipts[k].run] :
                        attempts[receipts[k].run][a].sub # 0
    BY DEF AcceptedHasHandle
  <2>1. k \in 1..Len(receipts) /\ receipts[k] \in Receipts
    BY Elements DEF JobInv
  <2>2. receipts[k].run \in Runs
    BY <2>1 DEF Receipts
  <2>3. DOMAIN attempts[receipts[k].run] = 1..Len(attempts[receipts[k].run])
    BY <2>2, Elements DEF JobInv
  <2> QED BY <2>1, <2>3 DEF JobInv, Accepted
<1> QED BY <1>1, JobInvariant, PTL

-----------------------------------------------------------------------------
(* One ingester at a time.                                                 *)

\* The systemd unit that runs the ingester is a oneshot service: it is never started twice.
OneIngester == \A i, j \in Ingesters : i = j

\* Points at which an ingester claims nothing about the latest attempt.
Resting == {"idle", "scan", "claimed", "fail"}

\* Every attempt keeps its receipt and its handle, and there is no new one.
SameAttempts ==
    \A r \in Runs :
        /\ Len(attempts'[r]) = Len(attempts[r])
        /\ \A a \in 1..Len(attempts[r]) :
             attempts'[r][a].by = attempts[r][a].by /\ attempts'[r][a].sub = attempts[r][a].sub

\* A step that writes no attempt keeps them.
LEMMA UnchangedSame ==
  ASSUME UNCHANGED attempts
  PROVE  SameAttempts
BY DEF SameAttempts

\* The latest attempt of a cancelled run stays submitted or a retry's.
LEMMA StoppedIsStable ==
  ASSUME JobInv, SerialInv, SameAttempts, ReceiptsKept, NEW r \in Runs, Stopping(r)' => Stopping(r)
  PROVE  StoppedInv(r)'
<1> SUFFICES ASSUME Stopping(r)
             PROVE  LET n == Len(attempts'[r]) IN
                    n > 0 /\ (attempts'[r][n].sub # 0 \/ receipts'[attempts'[r][n].by].reason = "retry")
  BY DEF StoppedInv, IsRetry
<1> DEFINE n == Len(attempts[r])
<1>1. n > 0 /\ (attempts[r][n].sub # 0 \/ receipts[attempts[r][n].by].reason = "retry")
  BY DEF SerialInv, StoppedInv, IsRetry
<1>2. n \in 1..n
  BY <1>1, Elements DEF JobInv
<1>3. attempts[r][n].by \in 1..Len(receipts)
  BY <1>2 DEF JobInv, RunInv, AttemptInv
<1>4. Len(attempts'[r]) = n /\ attempts'[r][n].by = attempts[r][n].by
      /\ attempts'[r][n].sub = attempts[r][n].sub
  BY <1>2 DEF SameAttempts
<1>5. receipts'[attempts[r][n].by].reason = receipts[attempts[r][n].by].reason
  BY <1>3 DEF ReceiptsKept
<1> QED BY <1>1, <1>4, <1>5

\* Every attempt keeps its receipt, and its handle when it has one.
OwnersKept ==
    \A r \in Runs :
        /\ Len(attempts[r]) <= Len(attempts'[r])
        /\ \A a \in 1..Len(attempts[r]) :
             /\ attempts'[r][a].by = attempts[r][a].by
             /\ attempts[r][a].sub # 0 => attempts'[r][a].sub # 0

\* An attempt that is there keeps its origin, and an accepted retry its own attempt.
LEMMA OriginsKept ==
  ASSUME JobInv, SerialInv, JobInv', OwnersKept, ReceiptsKept
  PROVE  /\ \A r \in Runs : \A a \in 1..Len(attempts[r]) : IsRetry(r, a)' \/ a = 1
         /\ NoneAccepted => \A k \in 1..Len(receipts') : OwnAccepted(k)'
<1>1. ASSUME NEW r \in Runs, NEW a \in 1..Len(attempts[r]) PROVE IsRetry(r, a)' \/ a = 1
  <2>1. IsRetry(r, a) \/ a = 1
    BY DEF SerialInv, OriginInv
  <2>2. attempts[r][a].by \in 1..Len(receipts)
    BY DEF JobInv, RunInv, AttemptInv
  <2>3. receipts'[attempts'[r][a].by].reason = receipts[attempts[r][a].by].reason
    BY <2>2 DEF OwnersKept, ReceiptsKept
  <2> QED BY <2>1, <2>3 DEF IsRetry
<1>2. ASSUME NoneAccepted, NEW k \in 1..Len(receipts'), receipts'[k].place = "accepted",
             receipts'[k].reason = "retry"
      PROVE  \E a \in 1..Len(attempts'[receipts'[k].run]) :
               attempts'[receipts'[k].run][a].sub # 0 /\ attempts'[receipts'[k].run][a].by = k
  <2>1. k \in 1..Len(receipts) /\ receipts[k].place = "accepted"
    <3>1. Len(receipts) \in Nat BY Elements DEF JobInv
    <3> QED BY <1>2, <3>1 DEF NoneAccepted
  <2>2. receipts'[k].run = receipts[k].run /\ receipts[k].reason = "retry"
    BY <1>2, <2>1 DEF ReceiptsKept
  <2>3. PICK r \in Runs : r = receipts[k].run
    BY <2>1, Elements DEF JobInv, Receipts
  <2>4. PICK a \in 1..Len(attempts[r]) : attempts[r][a].sub # 0 /\ attempts[r][a].by = k
    BY <2>1, <2>2, <2>3 DEF SerialInv, OwnAccepted
  <2>5. a \in 1..Len(attempts'[r])
    <3>1. Len(attempts[r]) \in Nat /\ Len(attempts'[r]) \in Nat
      BY Elements DEF JobInv, Types
    <3> QED BY <3>1 DEF OwnersKept
  <2> QED BY <2>2, <2>3, <2>4, <2>5 DEF OwnersKept
<1> QED BY <1>1, <1>2 DEF OwnAccepted

\* The same when there is no new attempt.
LEMMA SameOrigins ==
  ASSUME JobInv, SerialInv, JobInv', SameAttempts, ReceiptsKept
  PROVE  /\ \A r \in Runs : OriginInv(r)'
         /\ NoneAccepted => \A k \in 1..Len(receipts') : OwnAccepted(k)'
<1>1. OwnersKept
  BY Elements DEF JobInv, SameAttempts, OwnersKept
<1> QED BY <1>1, OriginsKept DEF SameAttempts, OriginInv

\* No job is added or revived.
LEMMA LiveIsStable ==
  ASSUME JobInv, Types', NativesKept, Len(natives') = Len(natives), OneLiveExecution
  PROVE  OneLiveExecution'
<1>1. DOMAIN natives = 1..Len(natives) /\ DOMAIN natives' = 1..Len(natives)
  BY Elements DEF JobInv, Types
<1> SUFFICES ASSUME NEW n \in 1..Len(natives), NEW m \in 1..Len(natives),
                    natives'[n].run = natives'[m].run, natives'[n].no = natives'[m].no,
                    Live(n)', Live(m)'
             PROVE  n = m
  BY <1>1 DEF OneLiveExecution
<1>2. /\ natives'[n].run = natives[n].run /\ natives'[n].no = natives[n].no /\ Live(n)
      /\ natives'[m].run = natives[m].run /\ natives'[m].no = natives[m].no /\ Live(m)
  BY DEF NativesKept
<1> QED BY <1>1, <1>2 DEF OneLiveExecution

\* What is so of the latest attempt stays so while others write elsewhere.
LEMMA AloneIsStable ==
  ASSUME JobInv, SerialInv, JobInv', SameAttempts, ReceiptsKept, NativesKept,
         Len(natives') = Len(natives), NEW i \in Ingesters, ing'[i] = ing[i]
  PROVE  AloneInv(i)' /\ NoneLive(i)'
<1>1. CASE ing[i].at \in Resting
  BY <1>1 DEF Resting, AloneInv, NoneLive, Fresh, Existing, Recorded, Submitting, Handling
<1>2. CASE ing[i].at \notin Resting
  <2>1. ing[i].at \in Holding
    BY <1>2 DEF JobInv, Types, Locals, Points, Resting
  <2>2. /\ RunOf(i) \in Runs /\ RunOf(i)' = RunOf(i)
        /\ receipts'[ing[i].rec].reason = receipts[ing[i].rec].reason
    BY <2>1, InHand, StillInHand DEF JobInv
  <2>3. Len(attempts'[RunOf(i)]) = Len(attempts[RunOf(i)])
    BY <2>2 DEF SameAttempts
  <2>4. ing[i].at \in Existing =>
          /\ AttemptOf(i)'.by = AttemptOf(i).by /\ AttemptOf(i)'.sub = AttemptOf(i).sub
    <3>1. ing[i].at \in Existing => ing[i].no \in 1..Len(attempts[RunOf(i)])
      BY DEF JobInv, IngesterInv
    <3> QED BY <2>2, <3>1 DEF SameAttempts, AttemptOf
  <2>5. AloneInv(i)'
    BY <2>2, <2>3, <2>4 DEF SerialInv, AloneInv, Existing
  <2>6. NoneLive(i)'
    <3> SUFFICES ASSUME Executor = "slurm", ing[i].at \in {"again", "launch"}, NEW n \in 1..Len(natives'),
                        natives'[n].run = RunOf(i), natives'[n].no = ing[i].no
                 PROVE  ~Live(n)'
      BY <2>2 DEF NoneLive
    <3>1. natives[n].run = RunOf(i) /\ natives[n].no = ing[i].no /\ n \in 1..Len(natives)
      BY DEF NativesKept
    <3>2. ~Live(n)
      BY <3>1 DEF SerialInv, NoneLive
    <3> QED BY <3>1, <3>2 DEF NativesKept
  <2> QED BY <2>5, <2>6
<1> QED BY <1>1, <1>2

\* A step of another process.
LEMMA OtherSerial ==
  ASSUME JobInv, SerialInv, JobInv', SameAttempts, ReceiptsKept, NoneAccepted, NativesKept, ing' = ing,
         Len(natives') = Len(natives), \A r \in Runs : Stopping(r)' => Stopping(r)
  PROVE  SerialInv'
<1>1. ASSUME NEW r \in Runs PROVE StoppedInv(r)'
  BY StoppedIsStable
<1>2. ASSUME NEW i \in Ingesters PROVE AloneInv(i)' /\ NoneLive(i)'
  BY AloneIsStable
<1>3. Executor = "slurm" => OneLiveExecution'
  BY LiveIsStable DEF SerialInv, JobInv
<1>4. (\A r \in Runs : OriginInv(r)') /\ \A k \in 1..Len(receipts') : OwnAccepted(k)'
  BY SameOrigins
<1> QED BY <1>1, <1>2, <1>3, <1>4 DEF SerialInv

\* A step of the ingester that adds no job and no attempt.
LEMMA OwnSerial ==
  ASSUME OneIngester, JobInv, SerialInv, JobInv', NEW i \in Ingesters, SameAttempts, ReceiptsKept,
         \A k \in 1..Len(receipts') : OwnAccepted(k)', NativesKept, Len(natives') = Len(natives),
         \A r \in Runs : Stopping(r)' => Stopping(r), AloneInv(i)', NoneLive(i)'
  PROVE  SerialInv'
<1>1. ASSUME NEW r \in Runs PROVE StoppedInv(r)'
  BY StoppedIsStable
<1>2. ASSUME NEW j \in Ingesters PROVE AloneInv(j)' /\ NoneLive(j)'
  BY DEF OneIngester
<1>3. Executor = "slurm" => OneLiveExecution'
  BY LiveIsStable DEF SerialInv, JobInv
<1>4. \A r \in Runs : OriginInv(r)'
  BY SameOrigins
<1> QED BY <1>1, <1>2, <1>3, <1>4 DEF SerialInv

\* An ingester at rest claims nothing.
LEMMA AtRest ==
  ASSUME NEW i \in Ingesters, ing'[i].at \in Resting
  PROVE  AloneInv(i)' /\ NoneLive(i)'
BY DEF AloneInv, NoneLive, Resting, Fresh, Existing, Recorded, Submitting, Handling

\* The ingester's steps leave the operator's marks alone.
LEMMA MarksKept ==
  ASSUME UNCHANGED <<control, operator>>
  PROVE  \A r \in Runs : Stopping(r)' => Stopping(r)
BY DEF Stopping

\* The steps after which an ingester is at rest.
LEMMA RestSerial ==
  ASSUME OneIngester, JobInv, SerialInv, JobInv', NEW i \in Ingesters,
         UNCHANGED <<control, operator, attempts, natives>>, ReceiptsKept, NoneAccepted,
         ing'[i].at \in Resting
  PROVE  SerialInv'
<1>1. SameAttempts /\ NativesKept /\ Len(natives') = Len(natives)
  BY UnchangedSame, UnchangedKept DEF JobInv
<1>2. \A k \in 1..Len(receipts') : OwnAccepted(k)'
  BY <1>1, SameOrigins
<1> QED BY <1>1, <1>2, AtRest, MarksKept, OwnSerial

\* A point reached with the same receipt and attempt.
LEMMA MoveSerial ==
  ASSUME OneIngester, JobInv, SerialInv, JobInv', NEW i \in Ingesters,
         UNCHANGED <<operator, receipts, attempts, natives>>,
         \A r \in Runs : control'[r].cancelled = control[r].cancelled,
         AloneInv(i)', NoneLive(i)'
  PROVE  SerialInv'
<1>1. SameAttempts /\ NativesKept /\ Len(natives') = Len(natives) /\ ReceiptsKept
  BY UnchangedSame, UnchangedKept DEF JobInv
<1>2. \A r \in Runs : Stopping(r)' => Stopping(r)
  BY DEF Stopping
<1>3. \A k \in 1..Len(receipts') : OwnAccepted(k)'
  BY <1>1, SameOrigins, UnchangedKept DEF JobInv
<1> QED BY <1>1, <1>2, <1>3, OwnSerial

\* An ingester that drops its receipt or fails is at rest.
LEMMA DropsRest ==
  ASSUME Types, NEW i \in Ingesters,
         Abort(i) \/ NextReceipt(i) \/ \E why \in Errors : Fail(i, why)
  PROVE  ing'[i].at \in Resting
<1>1. CASE Abort(i) \/ NextReceipt(i)
  BY <1>1, AbortDrops, NextDrops DEF Drops, IngIs, Resting
<1>2. ASSUME NEW why \in Errors, Fail(i, why) PROVE ing'[i].at \in Resting
  BY <1>2, FailGoes DEF Goes, IngIs, Resting
<1> QED BY <1>1, <1>2

\* The moves of receipts.
LEMMA InboxSerial ==
  ASSUME OneIngester, JobInv, SerialInv, JobInv', NEW i \in Ingesters,
         IngestStart(i) \/ Claim(i) \/ ReceiptGone(i) \/ Requeue(i) \/ IngestEnd(i)
  PROVE  SerialInv'
<1>1. UNCHANGED <<control, operator, attempts, natives>>
  BY DEF IngestStart, Claim, ReceiptGone, Requeue, IngestEnd, storeVars, workVars
<1>2. ing'[i].at \in Resting
  <2>1. CASE IngestStart(i)
    BY <2>1 DEF IngestStart, JobInv, Types, Locals, Resting
  <2>2. CASE Claim(i)
    <3>1. CASE Abort(i) BY <3>1, DropsRest DEF JobInv
    <3>2. ASSUME NEW e, ing' = [ing EXCEPT ![i].at = "claimed", ![i].rec = e.id, ![i].todo = @ \ {e}]
          PROVE  ing'[i].at \in Resting
      BY <3>2 DEF JobInv, Types, Locals, Resting
    <3> QED BY <2>2, <3>1, <3>2 DEF Claim
  <2>3. CASE ReceiptGone(i) \/ Requeue(i) \/ IngestEnd(i)
    <3>1. Abort(i) \/ NextReceipt(i)
      BY <2>3 DEF ReceiptGone, Requeue, IngestEnd
    <3> QED BY <3>1, DropsRest DEF JobInv
  <2> QED BY <2>1, <2>2, <2>3
<1>3. ReceiptsKept /\ NoneAccepted
  <2>1. CASE UNCHANGED receipts
    BY <2>1, UnchangedKept DEF JobInv
  <2>2. ASSUME NEW k \in 1..Len(receipts), NEW place \in {"pending", "processing"},
               receipts' = [receipts EXCEPT ![k].place = place]
        PROVE  ReceiptsKept /\ NoneAccepted
    <3> DEFINE x == [receipts[k] EXCEPT !.place = place]
    <3>1. receipts[k] \in Receipts BY Elements DEF JobInv
    <3>2. /\ x \in Receipts /\ x.run = receipts[k].run /\ x.reason = receipts[k].reason
          /\ x.place # "accepted"
      BY <3>1 DEF Receipts, Places
    <3>3. receipts' = [receipts EXCEPT ![k] = x] BY <2>2
    <3> HIDE DEF x
    <3> QED BY <3>2, <3>3, Refile DEF JobInv
  <2>3. CASE IngestStart(i) \/ ReceiptGone(i) \/ IngestEnd(i)
    BY <2>1, <2>3 DEF IngestStart, ReceiptGone, IngestEnd, workVars
  <2>4. CASE Claim(i)
    <3>1. PICK e \in ing[i].todo : \/ UNCHANGED receipts
                                   \/ receipts' = [receipts EXCEPT ![e.id].place = "processing"]
      BY <2>4 DEF Claim
    <3>2. e.id \in 1..Len(receipts)
      BY DEF JobInv, IngesterInv
    <3> QED BY <2>1, <2>2, <3>1, <3>2
  <2>5. CASE Requeue(i)
    <3>1. ing[i].rec \in 1..Len(receipts)
      BY <2>5, InHand DEF Requeue, Holding
    <3>2. UNCHANGED receipts \/ receipts' = [receipts EXCEPT ![ing[i].rec].place = "pending"]
      BY <2>5 DEF Requeue
    <3> QED BY <2>1, <2>2, <3>1, <3>2
  <2> QED BY <2>3, <2>4, <2>5
<1> QED BY <1>1, <1>2, <1>3, RestSerial

\* finish_receipt: a retry is accepted over the attempt that was made for it.
LEMMA FinishSerial ==
  ASSUME OneIngester, JobInv, SerialInv, JobInv', NEW i \in Ingesters, Finish(i)
  PROVE  SerialInv'
<1> DEFINE k == ing[i].rec
           place == IF ing[i].at = "finish" THEN "accepted" ELSE "rejected"
           x == [receipts[k] EXCEPT !.place = place, !.error = ing[i].error]
<1>1. UNCHANGED <<control, operator, attempts, natives>>
  BY DEF Finish, storeVars
<1>2. ing'[i].at \in Resting
  BY DropsRest DEF Finish, JobInv
<1>3. k \in 1..Len(receipts) /\ receipts[k] \in Receipts /\ RunOf(i) \in Runs
  BY InHand DEF Finish, Holding, Recorded
<1>4. place \in Places /\ ing[i].error \in Errors /\ (place = "accepted" => ing[i].at = "finish")
  BY DEF Places, JobInv, Types, Locals
<1>5. UNCHANGED receipts \/ receipts' = [receipts EXCEPT ![k] = x]
  BY DEF Finish
<1> HIDE DEF place
<1>6. /\ x \in Receipts /\ x.run = receipts[k].run /\ x.reason = receipts[k].reason
      /\ x.place = place
  BY <1>3, <1>4 DEF Receipts
<1> HIDE DEF x
<1>7. CASE UNCHANGED receipts
  BY <1>1, <1>2, <1>7, RestSerial, UnchangedKept DEF JobInv
<1>8. CASE receipts' = [receipts EXCEPT ![k] = x]
  <2>1. /\ Len(receipts') = Len(receipts) /\ receipts'[k] = x /\ ReceiptsKept
        /\ \A m \in 1..Len(receipts) : m # k => receipts'[m] = receipts[m]
        /\ x.place # "accepted" => NoneAccepted
    BY <1>3, <1>6, <1>8, Refile DEF JobInv
  <2>2. CASE x.place # "accepted"
    BY <1>1, <1>2, <2>1, <2>2, RestSerial
  <2>3. CASE x.place = "accepted"
    <3>1. ing[i].at = "finish" BY <1>4, <1>6, <2>3
    <3>2. /\ ing[i].no \in 1..Len(attempts[RunOf(i)]) /\ attempts[RunOf(i)][ing[i].no].sub # 0
          /\ receipts[k].reason = "retry" => attempts[RunOf(i)][ing[i].no].by = k
      BY <3>1 DEF JobInv, IngesterInv, SerialInv, AloneInv, AttemptOf, Existing, Recorded
    <3>3. ASSUME NEW m \in 1..Len(receipts') PROVE OwnAccepted(m)'
      <4>1. CASE m = k
        BY <1>1, <1>6, <2>1, <3>2, <4>1 DEF OwnAccepted, RunOf
      <4>2. CASE m # k
        <5>1. receipts'[m] = receipts[m] /\ OwnAccepted(m)
          BY <2>1, <4>2 DEF SerialInv
        <5> QED BY <1>1, <5>1 DEF OwnAccepted
      <4> QED BY <4>1, <4>2
    <3>4. SameAttempts /\ NativesKept /\ Len(natives') = Len(natives)
      BY <1>1, UnchangedSame, UnchangedKept DEF JobInv
    <3> QED BY <1>1, <1>2, <2>1, <3>3, <3>4, AtRest, MarksKept, OwnSerial
  <2> QED BY <2>2, <2>3
<1> QED BY <1>5, <1>7, <1>8

\* The attempts are listed: the latest one, or none unless a retry asks for another.
LEMMA StartSerial ==
  ASSUME OneIngester, JobInv, SerialInv, JobInv', NEW i \in Ingesters, StartOrRecover(i)
  PROVE  SerialInv'
<1> DEFINE last == Len(attempts[RunOf(i)])
           retry == receipts[ing[i].rec].reason = "retry"
<1>0. last \in Nat /\ attempts[RunOf(i)] \in Seq(Attempts)
  BY InHand DEF StartOrRecover, Holding
<1>1. /\ receipts' = receipts /\ attempts' = attempts /\ natives' = natives
      /\ control' = control /\ operator' = operator
  BY DEF StartOrRecover, storeVars, workVars
<1>2. /\ ing'[i].rec = ing[i].rec
      /\ \/ ing'[i].at = "number" /\ (retry \/ last = 0)
         \/ ing'[i].at = "latest" /\ ing'[i].no = last /\ ~retry
  <2>1. CASE StartsNew(RunOf(i), receipts[ing[i].rec].reason)
    <3>1. ing' = [ing EXCEPT ![i].at = "number"] BY <2>1 DEF StartOrRecover
    <3>2. retry \/ last = 0 BY <1>0, <2>1 DEF StartsNew
    <3> QED BY <3>1, <3>2 DEF JobInv, Types, Locals
  <2>2. CASE ~StartsNew(RunOf(i), receipts[ing[i].rec].reason)
    <3>1. ing' = [ing EXCEPT ![i].at = "latest", ![i].no = last] BY <2>2 DEF StartOrRecover
    <3>2. ~retry BY <2>2 DEF StartsNew
    <3> QED BY <3>1, <3>2 DEF JobInv, Types, Locals
  <2> QED BY <2>1, <2>2
<1>3. RunOf(i)' = RunOf(i)
  BY <1>1, <1>2 DEF RunOf
<1>4. AloneInv(i)' /\ NoneLive(i)'
  BY <1>0, <1>1, <1>2, <1>3 DEF AloneInv, NoneLive, Fresh, Existing, Recorded, Submitting, Handling
<1> QED BY <1>1, <1>4, MoveSerial

\* The number of the new attempt: nobody has taken it since the listing.
LEMMA NumberSerial ==
  ASSUME OneIngester, JobInv, SerialInv, JobInv', NEW i \in Ingesters, NumberAttempt(i)
  PROVE  SerialInv'
<1> DEFINE last == Len(attempts[RunOf(i)])
<1>0. last \in Nat /\ ing[i].at = "number"
  BY InHand DEF NumberAttempt, Holding
<1>1. /\ receipts' = receipts /\ attempts' = attempts /\ natives' = natives
      /\ control' = control /\ operator' = operator
  BY DEF NumberAttempt, storeVars, workVars
<1>2. ing'[i].at = "control" /\ ing'[i].no = last + 1 /\ ing'[i].rec = ing[i].rec
  BY DEF NumberAttempt, JobInv, Types, Locals
<1>3. RunOf(i)' = RunOf(i)
  BY <1>1, <1>2 DEF RunOf
<1>4. receipts[ing[i].rec].reason # "retry" => last = 0
  BY <1>0 DEF SerialInv, AloneInv
<1>5. AloneInv(i)' /\ NoneLive(i)'
  BY <1>0, <1>1, <1>2, <1>3, <1>4
     DEF AloneInv, NoneLive, Fresh, Existing, Recorded, Submitting, Handling
<1> QED BY <1>1, <1>5, MoveSerial

\* The reference, the commit and the checkout: the attempt's number stays free.
LEMMA CheckoutSerial ==
  ASSUME OneIngester, JobInv, SerialInv, JobInv', NEW i \in Ingesters,
         \/ ReadRetryRef(i) \/ ResolveCommit(i) \/ FindWorktree(i) \/ AddWorktree(i)
         \/ ClearRetryRef(i)
  PROVE  SerialInv'
<1>0. ing[i].at \in Fresh \ Existing /\ RunOf(i) \in Runs /\ Types
  <2>1. ing[i].at \in {"control", "resolve", "worktree", "add", "clear"}
    BY DEF ReadRetryRef, ResolveCommit, FindWorktree, AddWorktree, ClearRetryRef
  <2> QED BY <2>1, InHand DEF JobInv, Fresh, Existing, Recorded, Submitting, Handling, Holding
<1>1. /\ receipts' = receipts /\ attempts' = attempts /\ natives' = natives /\ operator' = operator
      /\ \A r \in Runs : control'[r].cancelled = control[r].cancelled
  <2>1. CASE ReadRetryRef(i) \/ ResolveCommit(i) \/ FindWorktree(i) \/ AddWorktree(i)
    BY <2>1 DEF ReadRetryRef, ResolveCommit, FindWorktree, AddWorktree, storeVars, workVars
  <2>2. CASE ClearRetryRef(i)
    <3>1. control \in [Runs -> Controls] /\ control[RunOf(i)] \in Controls
      BY <1>0 DEF JobInv, Types
    <3>2. control' = [control EXCEPT ![RunOf(i)].ref = 0]
      BY <2>2 DEF ClearRetryRef
    <3>3. \A r \in Runs : control'[r].cancelled = control[r].cancelled
      BY <1>0, <3>1, <3>2 DEF Controls
    <3> QED BY <2>2, <3>3 DEF ClearRetryRef, workVars
  <2> QED BY <2>1, <2>2
<1>2. /\ ing'[i].at \in {"resolve", "worktree", "add", "clear", "mkdir", "fail"}
      /\ ing'[i].no = ing[i].no /\ ing'[i].rec = ing[i].rec
  <2>1. ASSUME NEW at \in {"add", "clear", "mkdir", "fail"}, Goes(i, at)
        PROVE  ing'[i].at = at /\ ing'[i].no = ing[i].no /\ ing'[i].rec = ing[i].rec
    BY <2>1 DEF Goes, IngIs
  <2>2. CASE ReadRetryRef(i) \/ ResolveCommit(i)
    <3>1. ing \in [Ingesters -> Locals] BY <1>0 DEF Types
    <3>2. CASE ReadRetryRef(i) BY <3>1, <3>2 DEF ReadRetryRef, Locals
    <3>3. CASE ResolveCommit(i)
      <4> DEFINE commit == IF ing[i].ref # 0 THEN ing[i].ref ELSE head
      <4>1. ing' = [ing EXCEPT ![i].at = "worktree", ![i].commit = commit] BY <3>3 DEF ResolveCommit
      <4> HIDE DEF commit
      <4> QED BY <3>1, <4>1 DEF Locals
    <3> QED BY <2>2, <3>2, <3>3
  <2>3. CASE Goto(i, "add")
    <3>1. Goes(i, "add") BY <1>0, <2>3, GotoGoes DEF Points, Holding, Fresh
    <3> QED BY <2>1, <3>1
  <2>4. CASE Fail(i, "worktree")
    <3>1. Goes(i, "fail") BY <1>0, <2>4, FailGoes DEF Errors
    <3> QED BY <2>1, <3>1
  <2>5. CASE CheckedOut(i)
    BY <1>0, <2>1, <2>5, ChecksOut
  <2>6. CASE Pinned(i)
    BY <1>0, <2>1, <2>6, PinnedGoes
  <2> QED BY <2>2, <2>3, <2>4, <2>5, <2>6 DEF FindWorktree, AddWorktree, ClearRetryRef
<1>3. RunOf(i)' = RunOf(i)
  BY <1>1, <1>2 DEF RunOf
<1>4. /\ ing[i].no = Len(attempts[RunOf(i)]) + 1
      /\ receipts[ing[i].rec].reason # "retry" => ing[i].no = 1
  BY <1>0 DEF SerialInv, AloneInv
<1>5. AloneInv(i)' /\ NoneLive(i)'
  BY <1>1, <1>2, <1>3, <1>4
     DEF AloneInv, NoneLive, Fresh, Existing, Recorded, Submitting, Handling
<1> QED BY <1>1, <1>5, MoveSerial

\* The new attempt is the ingester's; a cancelled run gets one only for a retry.
LEMMA MakeSerial ==
  ASSUME OneIngester, JobInv, SerialInv, JobInv', NEW i \in Ingesters, MakeAttemptDir(i)
  PROVE  SerialInv'
<1> DEFINE a == EmptyAttempt(ing[i].rec)
<1>0. ing[i].at = "mkdir" /\ ing[i].at \in Holding
  BY DEF MakeAttemptDir, Holding, Fresh
<1>r. PICK r \in Runs : r = RunOf(i)
  BY <1>0, InHand
<1>1. /\ ing[i].rec \in 1..Len(receipts) /\ ing[i].rec \in Nat /\ Len(attempts[r]) \in Nat
      /\ receipts[ing[i].rec].reason \in Reasons
  BY <1>0, InHand, Elements DEF JobInv, Receipts
<1>2. ing[i].no = Len(attempts[r]) + 1 /\ (receipts[ing[i].rec].reason # "retry" => ing[i].no = 1)
  <2>1. ing[i].at \in Fresh /\ ing[i].at \in Fresh \ Existing
    BY <1>0 DEF Fresh, Existing, Recorded, Submitting, Handling
  <2> QED BY <1>r, <2>1 DEF SerialInv, AloneInv
<1>3. a \in Attempts /\ a.sub = 0 /\ a.by = ing[i].rec
  BY <1>1, JobAssumption DEF EmptyAttempt, Attempts
<1>4. AddsAttempt(r, a)
  BY <1>r, <1>1, <1>2 DEF MakeAttemptDir, AddsAttempt
<1> HIDE DEF a
<1>5. /\ Len(attempts'[r]) = Len(attempts[r]) + 1 /\ attempts'[r][Len(attempts[r]) + 1] = a
      /\ \A b \in 1..Len(attempts[r]) : attempts'[r][b] = attempts[r][b]
      /\ \A q \in Runs : q # r => attempts'[q] = attempts[q]
  BY <1>3, <1>4, AttemptAdded DEF JobInv
<1>6. /\ receipts' = receipts /\ natives' = natives /\ control' = control /\ operator' = operator
  BY DEF MakeAttemptDir, storeVars
<1>7. ing'[i].at = "record" /\ ing'[i].no = ing[i].no /\ ing'[i].rec = ing[i].rec
  <2>1. Goes(i, "record")
    BY GotoGoes DEF MakeAttemptDir, JobInv, Points, Holding, Fresh
  <2> QED BY <2>1 DEF Goes, IngIs
<1>8. RunOf(i)' = r /\ AttemptOf(i)' = a
  <2>1. RunOf(i)' = r BY <1>r, <1>6, <1>7 DEF RunOf
  <2> QED BY <1>2, <1>5, <1>7, <2>1 DEF AttemptOf
<1>9. AloneInv(i)' /\ NoneLive(i)'
  BY <1>2, <1>3, <1>5, <1>6, <1>7, <1>8
     DEF AloneInv, NoneLive, Fresh, Existing, Recorded, Submitting, Handling
<1>10. ASSUME NEW q \in Runs PROVE StoppedInv(q)'
  <2>1. CASE q # r
    BY <1>5, <1>6, <2>1 DEF SerialInv, StoppedInv, Stopping, IsRetry
  <2>2. CASE q = r
    <3>1. Stopping(r) => Len(attempts[r]) > 0
      BY DEF SerialInv, StoppedInv
    <3>2. Stopping(r) => receipts[ing[i].rec].reason = "retry"
      BY <1>1, <1>2, <3>1 DEF Reasons
    <3>3. Stopping(q)' => Stopping(r)
      BY <1>6, <2>2 DEF Stopping
    <3> QED BY <1>1, <1>3, <1>5, <1>6, <2>2, <3>2, <3>3 DEF StoppedInv, IsRetry
  <2> QED BY <2>1, <2>2
<1>11. Executor = "slurm" => OneLiveExecution'
  BY <1>6 DEF SerialInv, OneLiveExecution, Live
<1>12. ASSUME NEW j \in Ingesters PROVE AloneInv(j)' /\ NoneLive(j)'
  BY <1>9 DEF OneIngester
<1>13. OwnersKept /\ ReceiptsKept /\ NoneAccepted
  <2>1. OwnersKept
    <3>1. \A q \in Runs : Len(attempts[q]) \in Nat BY Elements DEF JobInv
    <3> QED BY <1>5, <3>1 DEF OwnersKept
  <2> QED BY <1>6, <2>1, UnchangedKept DEF JobInv
<1>14. ASSUME NEW q \in Runs PROVE OriginInv(q)'
  <2> SUFFICES ASSUME NEW b \in 1..Len(attempts'[q]) PROVE IsRetry(q, b)' \/ b = 1
    BY DEF OriginInv
  <2>1. CASE b \in 1..Len(attempts[q])
    BY <1>13, <2>1, OriginsKept
  <2>2. CASE b \notin 1..Len(attempts[q])
    <3>1. q = r /\ b = ing[i].no
      BY <1>1, <1>2, <1>5, <2>2
    <3> QED BY <1>2, <1>3, <1>5, <1>6, <3>1 DEF IsRetry
  <2> QED BY <2>1, <2>2
<1>15. \A k \in 1..Len(receipts') : OwnAccepted(k)'
  BY <1>13, OriginsKept
<1> QED BY <1>10, <1>11, <1>12, <1>14, <1>15 DEF SerialInv

\* A write to the own attempt: only its by and sub fields matter here.
LEMMA WriteSerial ==
  ASSUME OneIngester, JobInv, SerialInv, JobInv', NEW i \in Ingesters,
         ing[i].at \in Existing \ {"latest", "finish"},
         NEW a \in Attempts, SetAttempt(i, a), NEW at \in Points, Goto(i, at),
         UNCHANGED <<operator, control, receipts, natives>>,
         a.by = AttemptOf(i).by, a.sub = AttemptOf(i).sub,
         at \in {"submit"} \union (Submitting \ {"again", "launch"})
  PROVE  SerialInv'
<1>1. OwnInv(i) /\ ing[i].at \in Holding
  BY OwnAttempt DEF OwnInv, Existing, Recorded, Holding, Fresh
<1>r. PICK r \in Runs : r = RunOf(i)
  BY <1>1 DEF OwnInv
<1>2. ing'[i].at = at /\ ing'[i].no = ing[i].no /\ ing'[i].rec = ing[i].rec
  BY GotoGoes DEF JobInv, Goes, IngIs
<1>3. /\ attempts'[r][ing[i].no] = a
      /\ \A q \in Runs : Len(attempts'[q]) = Len(attempts[q])
      /\ \A q \in Runs : \A b \in 1..Len(attempts[q]) :
              q # r \/ b # ing[i].no => attempts'[q][b] = attempts[q][b]
  <2>1. Writes(r, ing[i].no, a) BY <1>r DEF SetAttempt, Writes
  <2> QED BY <1>1, <1>r, <2>1, WriteAttempt DEF OwnInv, JobInv
<1>4. SameAttempts
  <2>1. ASSUME NEW q \in Runs, NEW b \in 1..Len(attempts[q])
        PROVE  attempts'[q][b].by = attempts[q][b].by /\ attempts'[q][b].sub = attempts[q][b].sub
    <3>1. CASE q = r /\ b = ing[i].no
      BY <1>1, <1>r, <1>3, <3>1 DEF OwnInv
    <3>2. CASE ~(q = r /\ b = ing[i].no)
      BY <1>3, <3>2
    <3> QED BY <3>1, <3>2
  <2> QED BY <1>3, <2>1 DEF SameAttempts
<1>5. RunOf(i)' = r /\ AttemptOf(i)' = a
  <2>1. RunOf(i)' = r BY <1>r, <1>2 DEF RunOf
  <2> QED BY <1>2, <1>3, <2>1 DEF AttemptOf
<1>6. /\ ing[i].no = Len(attempts[r]) /\ AttemptOf(i).sub = 0
      /\ receipts[ing[i].rec].reason = "retry" => AttemptOf(i).by = ing[i].rec
  <2>1. ing[i].at \in Recorded \/ ing[i].at \in Fresh \intersect Existing
    BY DEF Existing, Fresh
  <2> QED BY <1>r, <2>1 DEF SerialInv, AloneInv, Existing
<1>7. AloneInv(i)' /\ NoneLive(i)'
  BY <1>2, <1>3, <1>5, <1>6 DEF AloneInv, NoneLive, Fresh, Existing, Recorded, Submitting, Handling
<1>8. NativesKept /\ Len(natives') = Len(natives) /\ ReceiptsKept /\ NoneAccepted
  BY UnchangedKept DEF JobInv
<1>9. \A k \in 1..Len(receipts') : OwnAccepted(k)'
  BY <1>4, <1>8, SameOrigins
<1> QED BY <1>4, <1>7, <1>8, <1>9, MarksKept, OwnSerial

\* A writer that finds attempt.json goes no further.
LEMMA TestSerial ==
  ASSUME OneIngester, JobInv, SerialInv, JobInv', NEW i \in Ingesters, TestAttempt(i)
  PROVE  SerialInv'
<1>1. /\ ing[i].at = "record" /\ receipts' = receipts /\ attempts' = attempts
      /\ natives' = natives /\ control' = control /\ operator' = operator
  BY DEF TestAttempt, storeVars, workVars
<1>2. CASE Fail(i, "conflict")
  <2>1. ing'[i].at \in Resting
    BY <1>2, DropsRest DEF JobInv, Errors
  <2> QED BY <1>1, <2>1, RestSerial, UnchangedKept DEF JobInv
<1>3. CASE Goto(i, "write")
  <2>1. Goes(i, "write")
    BY <1>3, GotoGoes DEF JobInv, Points, Holding, Fresh
  <2>2. ing'[i].at = "write" /\ ing'[i].no = ing[i].no /\ ing'[i].rec = ing[i].rec
    BY <2>1 DEF Goes, IngIs
  <2>3. RunOf(i)' = RunOf(i) /\ AttemptOf(i)' = AttemptOf(i)
    BY <1>1, <2>2 DEF RunOf, AttemptOf
  <2>4. AloneInv(i)
    BY DEF SerialInv
  <2>5. AloneInv(i)' /\ NoneLive(i)'
    BY <1>1, <2>2, <2>3, <2>4
       DEF AloneInv, NoneLive, Fresh, Existing, Recorded, Submitting, Handling
  <2> QED BY <1>1, <2>5, MoveSerial
<1> QED BY <1>2, <1>3 DEF TestAttempt

\* attempt.json, the intent and the local metadata.
LEMMA RecordSerial ==
  ASSUME OneIngester, JobInv, SerialInv, JobInv', NEW i \in Ingesters,
         RecordAttempt(i) \/ WriteIntent(i) \/ RecordLocal(i)
  PROVE  SerialInv'
<1>0. UNCHANGED <<operator, control, receipts, natives>>
  BY DEF RecordAttempt, WriteIntent, RecordLocal, storeVars
<1>1. ing[i].at \in {"write", "submit", "meta"} /\ ing[i].at \in Existing \ {"latest", "finish"}
  BY DEF RecordAttempt, WriteIntent, RecordLocal, Existing, Recorded, Submitting, Handling
<1>2. OwnInv(i)
  BY <1>1, OwnAttempt DEF OwnInv
<1>3. CASE UNCHANGED attempts /\ Fail(i, "unreadable")
  <2>1. ing'[i].at \in Resting
    BY <1>3, DropsRest DEF JobInv, Errors
  <2> QED BY <1>0, <1>3, <2>1, RestSerial, UnchangedKept DEF JobInv
<1>4. CASE /\ ing[i].at = "write" /\ Goto(i, "submit")
           /\ SetAttempt(i, [AttemptOf(i) EXCEPT !.commit = ing[i].commit, !.by = ing[i].rec])
  <2> DEFINE a == [AttemptOf(i) EXCEPT !.commit = ing[i].commit, !.by = ing[i].rec]
  <2>1. a \in Attempts /\ a.by = ing[i].rec /\ a.sub = AttemptOf(i).sub
    <3>1. ing[i].commit \in 0..MaxCommits /\ ing[i].rec \in Nat
      BY DEF JobInv, Types, Locals
    <3> QED BY <1>2, <3>1 DEF OwnInv, Attempts
  <2>2. SetAttempt(i, a) BY <1>4
  <2>3. AttemptOf(i).by = ing[i].rec
    BY <1>4 DEF SerialInv, AloneInv, Fresh, Existing
  <2> HIDE DEF a
  <2>4. "submit" \in Points BY DEF Points, Holding, Recorded
  <2> QED BY <1>0, <1>1, <1>4, <2>1, <2>2, <2>3, <2>4, WriteSerial
<1>5. CASE /\ ing[i].at = "submit" /\ Goto(i, "sentinel")
           /\ SetAttempt(i, [AttemptOf(i) EXCEPT !.intent = TRUE])
  <2> DEFINE a == [AttemptOf(i) EXCEPT !.intent = TRUE]
  <2>1. a \in Attempts /\ a.by = AttemptOf(i).by /\ a.sub = AttemptOf(i).sub
    BY <1>2 DEF OwnInv, Attempts
  <2>2. SetAttempt(i, a) BY <1>5
  <2> HIDE DEF a
  <2>3. "sentinel" \in Points /\ "sentinel" \in Submitting
    BY DEF Points, Holding, Recorded, Submitting
  <2> QED BY <1>0, <1>1, <1>5, <2>1, <2>2, <2>3, WriteSerial
<1>6. CASE /\ ing[i].at = "meta" /\ Goto(i, "handle")
           /\ SetAttempt(i, [AttemptOf(i) EXCEPT !.meta = ing[i].native])
  <2> DEFINE a == [AttemptOf(i) EXCEPT !.meta = ing[i].native]
  <2>1. a \in Attempts /\ a.by = AttemptOf(i).by /\ a.sub = AttemptOf(i).sub
    <3>1. ing[i].native \in Nat BY DEF JobInv, Types, Locals
    <3> QED BY <1>2, <3>1 DEF OwnInv, Attempts
  <2>2. SetAttempt(i, a) BY <1>6
  <2> HIDE DEF a
  <2>3. "handle" \in Points /\ "handle" \in Submitting
    BY DEF Points, Holding, Recorded, Submitting, Handling
  <2> QED BY <1>0, <1>1, <1>6, <2>1, <2>2, <2>3, WriteSerial
<1> QED BY <1>3, <1>4, <1>5, <1>6 DEF RecordAttempt, WriteIntent, RecordLocal

\* submission.json: the latest attempt is submitted, cancelled or not.
LEMMA SubmissionSerial ==
  ASSUME OneIngester, JobInv, SerialInv, JobInv', NEW i \in Ingesters, RecordSubmission(i)
  PROVE  SerialInv'
<1>0. ing[i].at = "store" /\ ing[i].at \in Handling /\ ing[i].at \in Recorded
      /\ ing[i].at \in Existing \ {"finish"}
  BY DEF RecordSubmission, Existing, Recorded, Submitting, Handling
<1> DEFINE sub == ing[i].native
           a == [AttemptOf(i) EXCEPT !.sub = sub]
<1>1. OwnInv(i)
  BY <1>0, OwnAttempt DEF OwnInv
<1>2. sub \in Nat /\ sub # 0
  <2>1. ing[i].native \in 1..Len(natives) /\ Len(natives) \in Nat
    BY <1>0, Elements DEF JobInv, IngesterInv
  <2> QED BY <2>1
<1>3. SetAttempt(i, a) /\ Goto(i, "finish")
  BY DEF RecordSubmission
<1> HIDE DEF sub
<1>4. a \in Attempts /\ a.by = AttemptOf(i).by /\ a.sub = sub
  BY <1>1, <1>2 DEF OwnInv, Attempts
<1> HIDE DEF a
<1>r. PICK r \in Runs : r = RunOf(i)
  BY <1>1 DEF OwnInv
<1>5. /\ attempts'[r][ing[i].no] = a
      /\ \A q \in Runs : Len(attempts'[q]) = Len(attempts[q])
      /\ \A q \in Runs : \A b \in 1..Len(attempts[q]) :
              q # r \/ b # ing[i].no => attempts'[q][b] = attempts[q][b]
  <2>1. Writes(r, ing[i].no, a) BY <1>r, <1>3 DEF SetAttempt, Writes
  <2> QED BY <1>1, <1>4, <1>r, <2>1, WriteAttempt DEF OwnInv, JobInv
<1>6. /\ ing[i].no = Len(attempts[r])
      /\ receipts[ing[i].rec].reason = "retry" => AttemptOf(i).by = ing[i].rec
  BY <1>0, <1>r DEF SerialInv, AloneInv
<1>7. /\ receipts' = receipts /\ natives' = natives /\ control' = control /\ operator' = operator
  BY DEF RecordSubmission, storeVars
<1>8. ASSUME NEW q \in Runs PROVE StoppedInv(q)'
  <2>1. CASE q # r
    <3>1. Stopping(q)' => Stopping(q) BY <1>7 DEF Stopping
    <3> DEFINE n == Len(attempts[q])
    <3>2. Stopping(q) => n > 0 /\ (attempts[q][n].sub # 0 \/ receipts[attempts[q][n].by].reason = "retry")
      BY DEF SerialInv, StoppedInv, IsRetry
    <3>3. n > 0 => n \in 1..n
      BY Elements DEF JobInv
    <3>4. n > 0 => attempts'[q][n] = attempts[q][n]
      BY <1>5, <2>1, <3>3
    <3>5. Len(attempts'[q]) = n BY <1>5
    <3> QED BY <1>7, <3>1, <3>2, <3>4, <3>5 DEF StoppedInv, IsRetry
  <2>2. CASE q = r
    <3>1. Len(attempts'[q]) = ing[i].no /\ attempts'[q][ing[i].no].sub # 0 /\ ing[i].no > 0
      BY <1>1, <1>2, <1>4, <1>5, <1>6, <1>r, <2>2 DEF OwnInv
    <3> QED BY <3>1 DEF StoppedInv
  <2> QED BY <2>1, <2>2
<1>9. ing'[i].at = "finish" /\ ing'[i].no = ing[i].no /\ ing'[i].rec = ing[i].rec
  <2>1. Goes(i, "finish")
    BY <1>3, GotoGoes DEF JobInv, Points, Holding, Recorded
  <2> QED BY <2>1 DEF Goes, IngIs
<1>10. ASSUME NEW j \in Ingesters PROVE AloneInv(j)' /\ NoneLive(j)'
  <2>1. RunOf(i)' = r BY <1>r, <1>7, <1>9 DEF RunOf
  <2>2. AttemptOf(i)' = a BY <1>5, <1>9, <2>1 DEF AttemptOf
  <2>3. AloneInv(i)' /\ NoneLive(i)'
    BY <1>4, <1>6, <1>7, <1>9, <2>2
       DEF AloneInv, NoneLive, Fresh, Existing, Recorded, Submitting, Handling
  <2> QED BY <2>3 DEF OneIngester
<1>11. Executor = "slurm" => OneLiveExecution'
  BY <1>7 DEF SerialInv, OneLiveExecution, Live
<1>12. OwnersKept /\ ReceiptsKept /\ NoneAccepted
  <2>1. ASSUME NEW q \in Runs, NEW b \in 1..Len(attempts[q])
        PROVE  /\ attempts'[q][b].by = attempts[q][b].by
               /\ attempts[q][b].sub # 0 => attempts'[q][b].sub # 0
    <3>1. CASE q = r /\ b = ing[i].no
      BY <1>2, <1>4, <1>5, <1>r, <3>1 DEF AttemptOf
    <3>2. CASE ~(q = r /\ b = ing[i].no)
      BY <1>5, <3>2
    <3> QED BY <3>1, <3>2
  <2>2. \A q \in Runs : Len(attempts[q]) \in Nat BY Elements DEF JobInv
  <2>3. OwnersKept BY <1>5, <2>1, <2>2 DEF OwnersKept
  <2> QED BY <1>7, <2>3, UnchangedKept DEF JobInv
<1>13. (\A q \in Runs : OriginInv(q)') /\ \A k \in 1..Len(receipts') : OwnAccepted(k)'
  BY <1>5, <1>12, OriginsKept DEF OriginInv
<1> QED BY <1>8, <1>10, <1>11, <1>13 DEF SerialInv

\* An ingester that reads, and goes on with the same attempt.
LEMMA ReadSerial ==
  ASSUME OneIngester, JobInv, SerialInv, JobInv', NEW i \in Ingesters, ing[i].at \in Recorded \ {"finish"},
         UNCHANGED <<operator, control, receipts, attempts, natives>>,
         ing'[i].at \in Recorded \ {"latest"}, ing'[i].no = ing[i].no, ing'[i].rec = ing[i].rec,
         ing'[i].at = "finish" \/ AttemptOf(i).sub = 0, NoneLive(i)'
  PROVE  SerialInv'
<1>1. RunOf(i)' = RunOf(i) /\ AttemptOf(i)' = AttemptOf(i)
  BY DEF RunOf, AttemptOf
<1>2. AloneInv(i)'
  BY <1>1 DEF SerialInv, AloneInv, Fresh, Existing, Recorded, Submitting, Handling
<1> QED BY <1>2, MoveSerial

\* The recorded submission, the start sentinel and the executor's answer.
LEMMA LookSerial ==
  ASSUME OneIngester, JobInv, SerialInv, JobInv', NEW i \in Ingesters,
         \/ ReadSubmission(i) \/ ReadStart(i) \/ Correlate(i) \/ CorrelateAgain(i)
         \/ TestSubmission(i) \/ CheckSubmission(i)
  PROVE  SerialInv'
<1>0. /\ ing[i].at \in {"latest", "sentinel", "correlate", "again", "handle", "check"}
      /\ ing[i].at \in Recorded \ {"finish"}
  BY DEF ReadSubmission, ReadStart, Correlate, CorrelateAgain, TestSubmission, CheckSubmission,
         Recorded, Submitting, Handling
<1>1. UNCHANGED <<operator, control, receipts, attempts, natives>>
  BY DEF ReadSubmission, ReadStart, Correlate, CorrelateAgain, TestSubmission, CheckSubmission,
         storeVars, workVars
<1> DEFINE Same(at) == ing'[i].at = at /\ ing'[i].no = ing[i].no /\ ing'[i].rec = ing[i].rec
<1>2. ASSUME NEW n, ing' = [ing EXCEPT ![i].at = "handle", ![i].native = n]
      PROVE  Same("handle")
  BY <1>2 DEF JobInv, Types, Locals
<1>3. ASSUME NEW at \in Recorded, Goto(i, at) PROVE Same(at)
  BY <1>3, GotoGoes DEF JobInv, Goes, IngIs, Points, Holding
<1>4. ASSUME NEW at \in Recorded \ {"latest"}, Same(at), at = "finish" \/ AttemptOf(i).sub = 0,
             at \in {"again", "launch"} => NoneLive(i)'
      PROVE  SerialInv'
  <2>1. NoneLive(i)' BY <1>4 DEF NoneLive
  <2> QED BY <1>0, <1>1, <1>4, <2>1, ReadSerial
<1>5. ing[i].at # "latest" => AttemptOf(i).sub = 0
  BY <1>0 DEF SerialInv, AloneInv, Existing
<1>6. ASSUME NEW why \in Errors, Fail(i, why) PROVE SerialInv'
  <2>1. ing'[i].at \in Resting
    BY <1>6, DropsRest DEF JobInv
  <2> QED BY <1>1, <2>1, RestSerial, UnchangedKept DEF JobInv
<1> HIDE DEF Same
<1>7. CASE ReadSubmission(i) \/ TestSubmission(i)
  <2>1. \/ Goto(i, "finish")
        \/ AttemptOf(i).sub = 0 /\ \E at \in {"submit", "check"} : Goto(i, at)
    BY <1>7 DEF ReadSubmission, TestSubmission
  <2>2. {"submit", "check", "finish"} \subseteq Recorded \ {"latest"}
    BY DEF Recorded, Submitting, Handling
  <2>3. CASE Goto(i, "finish")
    BY <1>3, <1>4, <2>2, <2>3
  <2>4. ASSUME AttemptOf(i).sub = 0, NEW at \in {"submit", "check"}, Goto(i, at) PROVE SerialInv'
    <3>1. at \in Recorded \ {"latest"} BY <2>2
    <3>2. Same(at) BY <1>3, <2>4, <3>1
    <3> QED BY <1>4, <2>4, <3>1, <3>2
  <2> QED BY <2>1, <2>3, <2>4
<1>8. CASE ReadStart(i)
  <2>1. Same("handle") \/ Same("correlate")
    <3>1. "correlate" \in Recorded BY DEF Recorded, Submitting
    <3> QED BY <1>2, <1>3, <1>8, <3>1 DEF ReadStart
  <2>2. ing[i].at = "sentinel" BY <1>8 DEF ReadStart
  <2> QED BY <1>4, <1>5, <2>1, <2>2 DEF Recorded, Submitting, Handling
<1>9. CASE Correlate(i)
  <2> DEFINE matches == Correlates(RunOf(i), ing[i].no)
  <2>0. ing[i].at = "correlate" BY <1>9 DEF Correlate
  <2>1. \/ Fail(i, "ambiguous")
        \/ matches = {} /\ \E at \in {"again", "launch"} : Goto(i, at)
        \/ ing' = [ing EXCEPT ![i].at = "handle", ![i].native = CHOOSE n \in matches : TRUE]
    BY <1>9 DEF Correlate
  <2>2. CASE Fail(i, "ambiguous")
    BY <1>6, <2>2 DEF Errors
  <2>3. ASSUME matches = {}, NEW at \in {"again", "launch"}, Goto(i, at) PROVE SerialInv'
    <3>1. at \in Recorded \ {"latest"} BY DEF Recorded, Submitting
    <3>2. Same(at) BY <1>3, <2>3, <3>1
    <3>3. NoneLive(i)'
      <4> SUFFICES ASSUME Executor = "slurm", NEW n \in 1..Len(natives),
                          natives[n].run = RunOf(i), natives[n].no = ing[i].no
                   PROVE  ~Live(n)
        BY <1>1, <3>2 DEF NoneLive, RunOf, Live, Same
      <4>1. n \in DOMAIN natives BY Elements DEF JobInv
      <4> QED BY <2>3, <4>1 DEF Correlates
    <3> QED BY <1>4, <1>5, <2>0, <3>1, <3>2, <3>3
  <2>4. CASE ing' = [ing EXCEPT ![i].at = "handle", ![i].native = CHOOSE n \in matches : TRUE]
    <3>1. Same("handle") BY <1>2, <2>4
    <3> QED BY <1>4, <1>5, <2>0, <3>1 DEF Recorded, Submitting, Handling
  <2> QED BY <2>1, <2>2, <2>3, <2>4
<1>10. CASE CorrelateAgain(i)
  <2>0. ing[i].at = "again" BY <1>10 DEF CorrelateAgain
  <2>1. CASE ing' = [ing EXCEPT ![i].at = "handle", ![i].native = AttemptOf(i).meta]
    <3>1. Same("handle") BY <1>2, <2>1
    <3> QED BY <1>4, <1>5, <2>0, <3>1 DEF Recorded, Submitting, Handling
  <2>2. CASE ing' = [ing EXCEPT ![i].at = "launch"]
    <3>1. "launch" \in Recorded BY DEF Recorded, Submitting
    <3>2. Same("launch") BY <1>3, <2>2, <3>1 DEF Goto
    <3>3. NoneLive(i)'
      BY <1>1, <2>0, <3>2 DEF SerialInv, NoneLive, RunOf, Live, Same
    <3> QED BY <1>4, <1>5, <2>0, <3>1, <3>2, <3>3
  <2> QED BY <1>10, <2>1, <2>2 DEF CorrelateAgain
<1>11. CASE CheckSubmission(i)
  <2>1. ing[i].at = "check" BY <1>11 DEF CheckSubmission
  <2>2. Goto(i, "store") \/ Goto(i, "finish") \/ Fail(i, "conflict")
    BY <1>11 DEF CheckSubmission
  <2>3. "store" \in Recorded /\ "finish" \in Recorded
    BY DEF Recorded, Submitting, Handling
  <2> QED BY <1>3, <1>4, <1>5, <1>6, <2>1, <2>2, <2>3 DEF Errors
<1> QED BY <1>7, <1>8, <1>9, <1>10, <1>11

\* A job is added where none is alive.
LEMMA JobSerial ==
  ASSUME OneIngester, JobInv, SerialInv, JobInv', NEW i \in Ingesters, ing[i].at = "launch",
         AddsJob(NewNative(i)), UNCHANGED <<operator, control, receipts, attempts>>,
         \/ ing'[i].at \in Resting
         \/ ing'[i].at \in {"meta", "handle"} /\ ing'[i].no = ing[i].no /\ ing'[i].rec = ing[i].rec
  PROVE  SerialInv'
<1>0. ing[i].at \in Submitting
  BY DEF Submitting
<1>s. SameAttempts /\ ReceiptsKept /\ NoneAccepted
  BY UnchangedSame, UnchangedKept DEF JobInv
<1>1. /\ Len(natives') = Len(natives) + 1 /\ natives'[Len(natives) + 1] = NewNative(i)
      /\ \A n \in 1..Len(natives) : natives'[n] = natives[n]
      /\ NewNative(i).run = RunOf(i) /\ NewNative(i).no = ing[i].no
  BY <1>0, NewJob, JobAdded DEF JobInv
<1>2. AloneInv(i)' /\ NoneLive(i)'
  <2>1. CASE ing'[i].at \in Resting
    BY <2>1, AtRest
  <2>2. CASE ing'[i].at \in {"meta", "handle"} /\ ing'[i].no = ing[i].no /\ ing'[i].rec = ing[i].rec
    <3>1. RunOf(i)' = RunOf(i) /\ AttemptOf(i)' = AttemptOf(i)
      BY <2>2 DEF RunOf, AttemptOf
    <3> QED BY <2>2, <3>1
            DEF SerialInv, AloneInv, NoneLive, Fresh, Existing, Recorded, Submitting, Handling
  <2> QED BY <2>1, <2>2
<1>3. ASSUME NEW r \in Runs PROVE StoppedInv(r)'
  BY <1>s, MarksKept, StoppedIsStable
<1>4. ASSUME Executor = "slurm" PROVE OneLiveExecution'
  <2>1. Len(natives) \in Nat /\ DOMAIN natives = 1..Len(natives)
        /\ DOMAIN natives' = 1..(Len(natives) + 1)
    BY <1>1, Elements DEF JobInv, Types
  <2> SUFFICES ASSUME NEW n \in 1..(Len(natives) + 1), NEW m \in 1..(Len(natives) + 1),
                      natives'[n].run = natives'[m].run, natives'[n].no = natives'[m].no,
                      Live(n)', Live(m)'
               PROVE  n = m
    BY <2>1 DEF OneLiveExecution
  <2>2. ASSUME NEW x \in 1..Len(natives), Live(x)'
        PROVE  Live(x) /\ ~(natives[x].run = RunOf(i) /\ natives[x].no = ing[i].no)
    <3>1. Live(x) BY <1>1, <2>2 DEF Live
    <3> QED BY <1>4, <3>1 DEF SerialInv, NoneLive
  <2>3. CASE n \in 1..Len(natives) /\ m \in 1..Len(natives)
    <3>1. OneLiveExecution BY <1>4 DEF SerialInv
    <3> QED BY <1>1, <2>1, <2>2, <2>3, <3>1 DEF OneLiveExecution
  <2>4. CASE n = Len(natives) + 1 /\ m \in 1..Len(natives)
    BY <1>1, <2>2, <2>4
  <2>5. CASE n \in 1..Len(natives) /\ m = Len(natives) + 1
    BY <1>1, <2>2, <2>5
  <2>6. CASE n = Len(natives) + 1 /\ m = Len(natives) + 1
    BY <2>6
  <2> QED BY <2>1, <2>3, <2>4, <2>5, <2>6
<1>5. ASSUME NEW j \in Ingesters PROVE AloneInv(j)' /\ NoneLive(j)'
  BY <1>2 DEF OneIngester
<1>6. (\A r \in Runs : OriginInv(r)') /\ \A k \in 1..Len(receipts') : OwnAccepted(k)'
  BY <1>s, SameOrigins
<1> QED BY <1>3, <1>4, <1>5, <1>6 DEF SerialInv

\* executor.submit, and its failures.
LEMMA ExecutorSerial ==
  ASSUME OneIngester, JobInv, SerialInv, JobInv', NEW i \in Ingesters,
         Launch(i) \/ \E how \in ExecutorFaults : ExecutorFails(i, how)
  PROVE  SerialInv'
<1>1. UNCHANGED <<operator, control, receipts, attempts>>
  BY DEF Launch, ExecutorFails, storeVars
<1>2. CASE Launch(i)
  <2> DEFINE at == IF Executor = "local" THEN "meta" ELSE "handle"
  <2>1. at \in {"meta", "handle"} OBVIOUS
  <2>2. ing' = [ing EXCEPT ![i].native = Len(natives) + 1, ![i].at = at] BY <1>2 DEF Launch
  <2> HIDE DEF at
  <2>3. ing'[i].at = at /\ ing'[i].no = ing[i].no /\ ing'[i].rec = ing[i].rec
    BY <2>2 DEF JobInv, Types, Locals
  <2> QED BY <1>1, <1>2, <2>1, <2>3, JobSerial DEF Launch, AddsJob
<1>3. ASSUME NEW how \in ExecutorFaults, ExecutorFails(i, how) PROVE SerialInv'
  <2>1. ing'[i].at \in Resting
    BY <1>3, DropsRest DEF ExecutorFails, JobInv, Errors
  <2>2. CASE how = "lost"
    BY <1>1, <1>3, <2>1, <2>2, JobSerial DEF ExecutorFails, AddsJob
  <2>3. CASE how # "lost"
    BY <1>1, <1>3, <2>1, <2>3, RestSerial, UnchangedKept DEF ExecutorFails, JobInv
  <2> QED BY <2>2, <2>3
<1> QED BY <1>2, <1>3

-----------------------------------------------------------------------------
(* The other processes.                                                    *)

\* A step that leaves the ingesters and the work alone and cancels nothing.
LEMMA QuietSerial ==
  ASSUME JobInv, SerialInv, JobInv', UNCHANGED <<ing, workVars>>,
         \A r \in Runs : Stopping(r)' => Stopping(r)
  PROVE  SerialInv'
<1>1. attempts' = attempts /\ receipts' = receipts /\ natives' = natives
  BY DEF workVars
<1>2. SameAttempts /\ NativesKept /\ Len(natives') = Len(natives) /\ ReceiptsKept /\ NoneAccepted
  BY <1>1, UnchangedSame, UnchangedKept DEF JobInv
<1> QED BY <1>2, OtherSerial

\* A new receipt.
LEMMA EnqueueSerial ==
  ASSUME JobInv, SerialInv, JobInv', NEW x, receipts' = Append(receipts, x), x.place = "pending",
         UNCHANGED <<ing, attempts, natives>>, \A r \in Runs : Stopping(r)' => Stopping(r)
  PROVE  SerialInv'
<1>1. receipts \in Seq(Receipts) /\ receipts' \in Seq(Receipts) /\ Len(receipts) \in Nat
  BY Elements DEF JobInv, Types
<1>2. /\ Len(receipts') = Len(receipts) + 1 /\ receipts'[Len(receipts) + 1] = x
      /\ \A k \in 1..Len(receipts) : receipts'[k] = receipts[k]
  BY ONLY <1>1, receipts' = Append(receipts, x)
<1>3. ReceiptsKept /\ NoneAccepted
  BY <1>1, <1>2 DEF ReceiptsKept, NoneAccepted
<1>4. SameAttempts /\ NativesKept /\ Len(natives') = Len(natives)
  BY UnchangedSame, UnchangedKept DEF JobInv
<1> QED BY <1>3, <1>4, OtherSerial

\* The clients, and the branch.
LEMMA ClientSerial ==
  ASSUME JobInv, SerialInv, JobInv', (\E c \in Clients : SubmitStep(c)) \/ Push
  PROVE  SerialInv'
<1>1. UNCHANGED <<control, operator, ing>>
  BY DEF SubmitStep, SubmitBatch, CreateBatch, CreateRun, Enqueue, Push, storeVars
<1>2. \A r \in Runs : Stopping(r)' => Stopping(r)
  BY <1>1, MarksKept
<1>3. ASSUME NEW c \in Clients, Enqueue(c) PROVE SerialInv'
  BY <1>1, <1>2, <1>3, EnqueueSerial DEF Enqueue, Receipt
<1>4. ASSUME NEW c \in Clients, SubmitBatch(c) \/ CreateBatch(c) \/ CreateRun(c) PROVE SerialInv'
  BY <1>1, <1>2, <1>4, QuietSerial DEF SubmitBatch, CreateBatch, CreateRun
<1>5. CASE Push
  BY <1>1, <1>2, <1>5, QuietSerial DEF Push
<1> QED BY <1>3, <1>4, <1>5 DEF SubmitStep

\* The executor's jobs: they start, write the sentinel and end.
LEMMA NativeSerial ==
  ASSUME JobInv, SerialInv, JobInv', NEW n \in DOMAIN natives,
         NativeStart(n) \/ RunnerStart(n) \/ NativeEnd(n)
  PROVE  SerialInv'
<1>0. n \in 1..Len(natives) /\ natives[n] \in Jobs
  BY Elements DEF JobInv
<1>1. UNCHANGED <<control, operator, ing, receipts>>
  BY DEF NativeStart, RunnerStart, NativeEnd, storeVars
<1>2. \A r \in Runs : Stopping(r)' => Stopping(r)
  BY <1>1, MarksKept
<1>3. NativesKept /\ Len(natives') = Len(natives)
  BY <1>0, JobChanged DEF JobInv, NativeStart, RunnerStart, NativeEnd, Live
<1>4. SameAttempts
  <2>1. CASE NativeStart(n) \/ NativeEnd(n)
    BY <2>1, UnchangedSame DEF NativeStart, NativeEnd
  <2>2. CASE RunnerStart(n)
    <3>p. PICK r \in Runs : r = natives[n].run
      BY <1>0 DEF Jobs
    <3>r. PICK no \in 1..Len(attempts[r]) : no = natives[n].no
      BY <1>0, <3>p DEF JobInv, JobsInv
    <3> DEFINE a == [attempts[r][no] EXCEPT !.start = n]
    <3>1. attempts[r][no] \in Attempts
      BY Elements DEF JobInv
    <3>2. a \in Attempts /\ a.by = attempts[r][no].by /\ a.sub = attempts[r][no].sub
      BY <1>0, <3>1 DEF Attempts
    <3>3. Writes(r, no, a)
      BY <2>2, <3>p, <3>r DEF RunnerStart, Writes
    <3> HIDE DEF a
    <3>4. /\ attempts'[r][no] = a
          /\ \A q \in Runs : Len(attempts'[q]) = Len(attempts[q])
          /\ \A q \in Runs : \A b \in 1..Len(attempts[q]) :
               q # r \/ b # no => attempts'[q][b] = attempts[q][b]
      BY <3>2, <3>3, WriteAttempt DEF JobInv
    <3> QED BY <3>2, <3>4 DEF SameAttempts
  <2> QED BY <2>1, <2>2
<1>5. ReceiptsKept /\ NoneAccepted
  BY <1>1, UnchangedKept DEF JobInv
<1> QED BY <1>1, <1>2, <1>3, <1>4, <1>5, OtherSerial

\* A run is cancelled over the handle of its latest attempt.
LEMMA CancelSerial ==
  ASSUME JobInv, SerialInv, JobInv', NEW r \in Runs, Cancel(r)
  PROVE  SerialInv'
<1>1. UNCHANGED <<control, ing, receipts, attempts>> /\ operator' = [at |-> "cancel", run |-> r]
  BY DEF Cancel, storeVars
<1>2. attempts[r] \in Seq(Attempts) /\ attempts[r] # <<>> /\ attempts[r][Len(attempts[r])].sub # 0
  BY Elements DEF Cancel, JobInv
<1>3. Len(attempts[r]) > 0 /\ Len(attempts[r]) \in 1..Len(attempts[r])
  BY <1>2
<1>4. PICK n \in 1..Len(natives) : n = attempts[r][Len(attempts[r])].sub
  <2>1. attempts[r][Len(attempts[r])] \in Attempts /\ AttemptInv(r, Len(attempts[r]))
    BY <1>3, Elements DEF JobInv, RunInv
  <2>2. Len(natives) \in Nat BY Elements DEF JobInv
  <2> QED BY <1>2, <2>1, <2>2 DEF Attempts, AttemptInv
<1>5. NativesKept /\ Len(natives') = Len(natives)
  BY <1>4, JobChanged DEF Cancel, JobInv
<1>6. SameAttempts /\ ReceiptsKept /\ NoneAccepted
  BY <1>1, UnchangedSame, UnchangedKept DEF JobInv
<1>7. StoppedInv(r)'
  BY <1>1, <1>2, <1>3 DEF StoppedInv
<1>8. ASSUME NEW q \in Runs, q # r PROVE StoppedInv(q)'
  <2>1. Stopping(q)' => Stopping(q)
    BY <1>1, <1>8 DEF Stopping
  <2> QED BY <1>6, <2>1, StoppedIsStable
<1>9. ASSUME NEW i \in Ingesters PROVE AloneInv(i)' /\ NoneLive(i)'
  BY <1>1, <1>5, <1>6, AloneIsStable
<1>10. Executor = "slurm" => OneLiveExecution'
  BY <1>5, LiveIsStable DEF SerialInv, JobInv
<1>11. (\A q \in Runs : OriginInv(q)') /\ \A k \in 1..Len(receipts') : OwnAccepted(k)'
  BY <1>6, SameOrigins
<1> QED BY <1>7, <1>8, <1>9, <1>10, <1>11 DEF SerialInv

\* The operator's commands.
LEMMA OperatorSerial ==
  ASSUME JobInv, SerialInv, JobInv', OperatorStep
  PROVE  SerialInv'
<1>0. control \in [Runs -> Controls] /\ HasRun
  BY DEF JobInv, Types
<1>1. ASSUME NEW r \in Runs, SetDisabled(r) PROVE SerialInv'
  <2> DEFINE x == [control[r] EXCEPT !.disabled = ~@]
  <2>1. control' = [control EXCEPT ![r] = x] /\ operator' = operator
    BY <1>1 DEF SetDisabled
  <2>2. x.cancelled = control[r].cancelled
    <3>1. control[r] \in Controls BY <1>0
    <3> QED BY <3>1 DEF Controls
  <2> HIDE DEF x
  <2>3. \A q \in Runs : control'[q].cancelled = control[q].cancelled
    BY <1>0, <2>1, <2>2
  <2>4. \A q \in Runs : Stopping(q)' => Stopping(q)
    BY <2>1, <2>3 DEF Stopping
  <2> QED BY <1>1, <2>4, QuietSerial DEF SetDisabled
<1>2. CASE Pause
  BY <1>2, MarksKept, QuietSerial DEF Pause
<1>3. ASSUME NEW r \in Runs, NEW latest \in BOOLEAN, Retry(r, latest) PROVE SerialInv'
  <2> DEFINE ref == IF latest THEN 0 ELSE attempts[r][Len(attempts[r])].commit
             x == [control[r] EXCEPT !.ref = ref, !.cancelled = FALSE]
  <2>1. control' = [control EXCEPT ![r] = x]
    <3> HIDE DEF ref
    <3>1. control' = [control EXCEPT ![r].ref = ref, ![r].cancelled = FALSE]
      BY <1>3 DEF Retry, ref
    <3> QED BY ONLY <1>0, <3>1, r \in Runs
  <2> HIDE DEF ref
  <2>2. x.cancelled = FALSE
    <3>1. control[r] \in Controls BY <1>0
    <3> QED BY <3>1 DEF Controls
  <2> HIDE DEF x
  <2>3. \A q \in Runs : control'[q].cancelled => control[q].cancelled
    BY <1>0, <2>1, <2>2
  <2>4. operator'.at = "retry"
    BY <1>3 DEF Retry
  <2>5. \A q \in Runs : Stopping(q)' => Stopping(q)
    BY <2>3, <2>4 DEF Stopping
  <2> QED BY <1>3, <2>5, QuietSerial DEF Retry
<1>4. CASE EnqueueRetry
  <2>1. \A q \in Runs : Stopping(q)' => Stopping(q)
    BY <1>4 DEF EnqueueRetry, Stopping, IdleOperator, storeVars
  <2> QED BY <1>4, <2>1, EnqueueSerial DEF EnqueueRetry, Receipt
<1>5. CASE MarkCancelled
  <2> DEFINE x == [control[operator.run] EXCEPT !.cancelled = TRUE]
  <2>1. control' = [control EXCEPT ![operator.run] = x] /\ operator.run \in Runs
        /\ operator.at = "cancel" /\ operator'.at = "idle"
    BY <1>0, <1>5 DEF MarkCancelled, HasRun, IdleOperator
  <2> HIDE DEF x
  <2>2. \A q \in Runs : q # operator.run => control'[q] = control[q]
    BY <1>0, <2>1
  <2>3. \A q \in Runs : Stopping(q)' => Stopping(q)
    BY <2>1, <2>2 DEF Stopping
  <2> QED BY <1>5, <2>3, QuietSerial DEF MarkCancelled
<1> QED BY <1>1, <1>2, <1>3, <1>4, <1>5, CancelSerial DEF OperatorStep

\* A process dies.
LEMMA CrashSerial ==
  ASSUME OneIngester, JobInv, SerialInv, JobInv', Crash
  PROVE  SerialInv'
<1>1. UNCHANGED <<control, workVars>> /\ UNCHANGED <<attempts, receipts, natives>>
  BY DEF Crash, storeVars, workVars
<1>2. ASSUME NEW i \in Ingesters, Abort(i), UNCHANGED <<client, operator>> PROVE SerialInv'
  <2>1. ing'[i].at \in Resting BY <1>2, DropsRest DEF JobInv
  <2>2. ReceiptsKept /\ NoneAccepted BY <1>1, UnchangedKept DEF JobInv
  <2> QED BY <1>1, <1>2, <2>1, <2>2, RestSerial
<1>3. CASE UNCHANGED ing /\ (UNCHANGED operator \/ operator' = IdleOperator)
  <2>1. \A r \in Runs : Stopping(r)' => Stopping(r)
    BY <1>1, <1>3 DEF Stopping, IdleOperator
  <2> QED BY <1>1, <1>3, <2>1, QuietSerial
<1> QED BY <1>2, <1>3 DEF Crash

-----------------------------------------------------------------------------
(* The theorems about one ingester at a time.                              *)

\* Nothing is cancelled, claimed or queued at the start.
LEMMA SerialInitially == JobInit => SerialInv
<1> SUFFICES ASSUME JobInit PROVE SerialInv
  OBVIOUS
<1>1. ASSUME NEW r \in Runs PROVE StoppedInv(r)
  BY DEF JobInit, StoppedInv, Stopping, IdleOperator
<1>2. ASSUME NEW i \in Ingesters PROVE AloneInv(i) /\ NoneLive(i)
  BY IdleLocals DEF JobInit, AloneInv, NoneLive, Fresh, Existing, Recorded, Submitting, Handling
<1>3. OneLiveExecution
  BY DEF JobInit, OneLiveExecution
<1>4. Len(receipts) = 0 /\ \A r \in Runs : OriginInv(r)
  BY DEF JobInit, OriginInv
<1> QED BY <1>1, <1>2, <1>3, <1>4 DEF SerialInv

\* Every step keeps it.
LEMMA SerialStepwise ==
  ASSUME OneIngester
  PROVE  JobInv /\ JobInv' /\ SerialInv /\ [JobNext]_vars => SerialInv'
<1> SUFFICES ASSUME JobInv, JobInv', SerialInv, [JobNext]_vars PROVE SerialInv'
  OBVIOUS
<1>1. ASSUME NEW i \in Ingesters, IngestStep(i) PROVE SerialInv'
  BY <1>1, InboxSerial, FinishSerial, StartSerial, NumberSerial, CheckoutSerial, MakeSerial,
     TestSerial, RecordSerial, LookSerial, ExecutorSerial, SubmissionSerial DEF IngestStep
<1>2. CASE UNCHANGED vars
  <2>1. UNCHANGED <<ing, control, operator, workVars>>
    BY <1>2 DEF vars, storeVars
  <2> QED BY <2>1, MarksKept, QuietSerial
<1> QED BY <1>1, <1>2, ClientSerial, ExecutorSerial, OperatorSerial, NativeSerial, CrashSerial
        DEF JobNext, NativeStep

\* The invariant of one ingester at a time.
THEOREM SerialInvariant ==
  ASSUME OneIngester
  PROVE  JobSpec => []SerialInv
BY JobInvariant, SerialInitially, SerialStepwise, PTL DEF JobSpec

\* Under Slurm, and with ingesters run one at a time, an execution id has at most one job
\* that is queued or running, whatever dies and whichever answers of sbatch are lost.
THEOREM ExecutionsAreNotDoubled ==
  ASSUME OneIngester, Executor = "slurm"
  PROVE  JobSpec => []OneLiveExecution
<1>1. SerialInv => OneLiveExecution
  BY DEF SerialInv
<1> QED BY <1>1, SerialInvariant, PTL

\* With ingesters run one at a time, submit receipts start a run's first attempt and no
\* other, however often clients duplicate them and crashes replay them.
THEOREM SubmitsStartOneAttempt ==
  ASSUME OneIngester
  PROVE  JobSpec => []SubmitReceiptsStartOneAttempt
<1>1. JobInv /\ SerialInv => SubmitReceiptsStartOneAttempt
  <2> SUFFICES ASSUME JobInv, SerialInv, NEW r \in Runs,
                      NEW a \in DOMAIN attempts[r], NEW b \in DOMAIN attempts[r],
                      receipts[attempts[r][a].by].reason = "submit",
                      receipts[attempts[r][b].by].reason = "submit"
               PROVE  a = b
    BY DEF SubmitReceiptsStartOneAttempt
  <2>1. a \in 1..Len(attempts[r]) /\ b \in 1..Len(attempts[r])
    BY Elements DEF JobInv
  <2>2. a = 1 /\ b = 1
    BY <2>1 DEF SerialInv, OriginInv, IsRetry
  <2> QED BY <2>2
<1> QED BY <1>1, JobInvariant, SerialInvariant, PTL

\* With ingesters run one at a time, a receipt is filed as accepted only over a durable
\* handle, and a retry only over the handle of the attempt that was made for it.
THEOREM AcceptedReceiptsAreSubmitted ==
  ASSUME OneIngester
  PROVE  JobSpec => []AcceptedIsSubmitted
<1>1. JobInv /\ SerialInv => AcceptedIsSubmitted
  <2> SUFFICES ASSUME JobInv, SerialInv, NEW k \in DOMAIN receipts, receipts[k].place = "accepted"
               PROVE  \E a \in DOMAIN attempts[receipts[k].run] :
                        /\ attempts[receipts[k].run][a].sub # 0
                        /\ receipts[k].reason = "retry" => attempts[receipts[k].run][a].by = k
    BY DEF AcceptedIsSubmitted
  <2>1. k \in 1..Len(receipts) /\ receipts[k].run \in Runs
    BY Elements DEF JobInv, Receipts
  <2>2. DOMAIN attempts[receipts[k].run] = 1..Len(attempts[receipts[k].run])
    BY <2>1, Elements DEF JobInv
  <2>3. CASE receipts[k].reason = "retry"
    BY <2>1, <2>2, <2>3 DEF SerialInv, OwnAccepted
  <2>4. CASE receipts[k].reason # "retry"
    BY <2>1, <2>2, <2>4 DEF JobInv, Accepted
  <2> QED BY <2>3, <2>4
<1> QED BY <1>1, JobInvariant, SerialInvariant, PTL

\* Only the executor's submit adds a job, for the ingester that called it.
LEMMA JobsAreLaunched ==
  ASSUME JobInv, [JobNext]_vars, NEW n \in DOMAIN natives' \ DOMAIN natives
  PROVE  \E i \in Ingesters : /\ ing[i].at = "launch"
                              /\ natives'[n].run = RunOf(i) /\ natives'[n].no = ing[i].no
<1>1. natives \in Seq(Jobs) /\ Len(natives) \in Nat /\ DOMAIN natives = 1..Len(natives)
  BY Elements DEF JobInv, Types
<1>2. ASSUME NEW i \in Ingesters, ing[i].at = "launch", natives' = Append(natives, NewNative(i))
      PROVE  natives'[n].run = RunOf(i) /\ natives'[n].no = ing[i].no
  <2>1. NewNative(i) \in Jobs /\ NewNative(i).run = RunOf(i) /\ NewNative(i).no = ing[i].no
    BY <1>2, NewJob DEF Submitting
  <2>2. DOMAIN natives' = 1..(Len(natives) + 1) /\ natives'[Len(natives) + 1] = NewNative(i)
    BY ONLY <1>1, <1>2, <2>1
  <2>3. n = Len(natives) + 1
    BY <1>1, <2>2
  <2> QED BY <2>1, <2>2, <2>3
<1>3. natives' # natives
  OBVIOUS
<1>4. ASSUME NEW m, NEW st, natives' = [natives EXCEPT ![m].st = st] PROVE FALSE
  BY <1>4
<1>5. ASSUME NEW i \in Ingesters, IngestStep(i)
      PROVE  ing[i].at = "launch" /\ natives' = Append(natives, NewNative(i))
  BY <1>3, <1>5 DEF IngestStep, IngestStart, Claim, ReceiptGone, Requeue, StartOrRecover, ReadSubmission,
     NumberAttempt, ReadRetryRef, ResolveCommit, FindWorktree, AddWorktree, ClearRetryRef,
     MakeAttemptDir, TestAttempt, RecordAttempt, WriteIntent, ReadStart, Correlate, CorrelateAgain,
     Launch, RecordLocal, TestSubmission, CheckSubmission, RecordSubmission, Finish, IngestEnd, workVars
<1>6. ASSUME NEW i \in Ingesters, NEW how \in ExecutorFaults, ExecutorFails(i, how)
      PROVE  ing[i].at = "launch" /\ natives' = Append(natives, NewNative(i))
  BY <1>3, <1>6 DEF ExecutorFails
<1>7. ~(\E c \in Clients : SubmitStep(c)) /\ ~Push /\ ~Crash
  BY <1>3 DEF SubmitStep, SubmitBatch, CreateBatch, CreateRun, Enqueue, Push, Crash, workVars
<1>8. ~OperatorStep
  BY <1>3, <1>4 DEF OperatorStep, SetDisabled, Cancel, Retry, Pause, EnqueueRetry, MarkCancelled, workVars
<1>9. ~NativeStep
  BY <1>4 DEF NativeStep, NativeStart, RunnerStart, NativeEnd
<1>10. ~UNCHANGED vars
  BY <1>3 DEF vars, workVars
<1> QED BY <1>2, <1>5, <1>6, <1>7, <1>8, <1>9, <1>10 DEF JobNext

\* With ingesters run one at a time a job is launched for a run marked cancelled only on an
\* attempt that a retry asked for: recovery never restarts what the operator stopped.
THEOREM CancelledRunsStayStopped ==
  ASSUME OneIngester
  PROVE  JobSpec => CancelledIsNotRelaunched
<1> DEFINE Step == \A n \in DOMAIN natives' \ DOMAIN natives :
                     LET job == natives'[n] IN
                     control[job.run].cancelled =>
                         receipts[attempts[job.run][job.no].by].reason = "retry"
<1>1. JobInv /\ SerialInv /\ [JobNext]_vars => Step
  <2> SUFFICES ASSUME JobInv, SerialInv, [JobNext]_vars, NEW n \in DOMAIN natives' \ DOMAIN natives,
                      control[natives'[n].run].cancelled
               PROVE  receipts[attempts[natives'[n].run][natives'[n].no].by].reason = "retry"
    OBVIOUS
  <2>1. PICK i \in Ingesters : /\ ing[i].at = "launch"
                               /\ natives'[n].run = RunOf(i) /\ natives'[n].no = ing[i].no
    BY JobsAreLaunched
  <2>2. RunOf(i) \in Runs
    BY <2>1, InHand DEF Holding, Recorded, Submitting
  <2>3. ing[i].no = Len(attempts[RunOf(i)]) /\ attempts[RunOf(i)][ing[i].no].sub = 0
    BY <2>1 DEF SerialInv, AloneInv, AttemptOf, Existing, Recorded, Submitting
  <2>4. StoppedInv(RunOf(i)) /\ Stopping(RunOf(i))
    BY <2>1, <2>2 DEF SerialInv, Stopping
  <2> QED BY <2>1, <2>3, <2>4 DEF StoppedInv, IsRetry
<1>2. CancelledIsNotRelaunched <=> [][Step]_vars
  BY DEF CancelledIsNotRelaunched
<1> HIDE DEF Step
<1> QED BY <1>1, <1>2, JobInvariant, SerialInvariant, PTL DEF JobSpec
=============================================================================
