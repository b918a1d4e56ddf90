------------------------------ MODULE Admission ------------------------------
(***************************************************************************)
(* The admission ledger with its real clients.                             *)
(*                                                                         *)
(*  - the scheduler bridge that patch rad0002 puts into the engine's step  *)
(*    loop (BcMoeRemoteAdmission): one current parent, at most one parent  *)
(*    issued ahead, reservations cancelled when the batch turns out empty; *)
(*  - one ordered GPU stream per rank: the ticket setter, publish and      *)
(*    finish kernels of each pass, the parent's seal and terminal event    *)
(*    (moe_mailbox_ops.hip, step_ticket_kernel.h, consumption_ring.h), and *)
(*    the completion query over them (admission_completion.h);             *)
(*  - the placement thread: stage the other generation, close the gate,    *)
(*    wait for the drain, reopen with the committed placement.             *)
(*                                                                         *)
(* The scheduler, the GPUs and the placement thread interleave freely; the *)
(* ledger lock makes each ledger call one step.                            *)
(***************************************************************************)
EXTENDS AdmissionLedger, Sequences

CONSTANTS
  MaxPasses,    \* passes a parent runs on one rank (trunk, history, drafts)
  MaxRequests,  \* helper requests one pass may publish
  Failures      \* what may go wrong around the protocol in this instance

ASSUME AdmissionAssumption ==
  /\ MaxPasses \in Nat \ {0}
  /\ MaxRequests \in Nat
  /\ Failures \subseteq {"helper", "shutdown", "deadline"}

VARIABLES
  pc,          \* where the engine's step loop is
  current,     \* the parent being stepped
  ahead,       \* the parent reserved or issued ahead of it
  issued,      \* the ticket the ranks run passes for
  passes,      \* passes each rank has launched for the issued parent
  gpu,         \* per rank: stream, device and host-mapped state
  binding,     \* per rank: epoch of the owner generation in each slot
  copying,     \* ranks whose generation upload is still in flight
  phase,       \* where the placement thread is
  snap,        \* its snapshot of the closed gate
  helperFault, \* the shared helper fault word
  cause        \* what raised the ledger's fault (the logged reason)

bridgeVars == <<pc, current, ahead, issued, passes>>
placeVars == <<binding, copying, phase, snap>>
vars == <<ledgerVars, bridgeVars, gpu, placeVars, helperFault, cause>>

Ticket == [id: 0..MaxTicket, epoch: 0..MaxEpoch, slot: Slots]
NoTicket == [id |-> 0, epoch |-> 0, slot |-> 0]

Stamp == [id: 0..MaxTicket, epoch: 0..MaxEpoch, slot: Slots,
          published: 0..(MaxPasses * MaxRequests),
          consumed: 0..(MaxPasses * MaxRequests)]
NoStamp == [id |-> 0, epoch |-> 0, slot |-> 0, published |-> 0, consumed |-> 0]

(* Kernels and events queued on a rank's stream.  A pass is queued as its  *)
(* ticket setter with the publish behind it, then its finish: the setter's *)
(* cell is private to the stream, so nothing can come between.             *)
Op == [op: {"publish", "finish", "seal", "event"}, ticket: Ticket]

Phases == {"serving", "draining", "quiescing", "drained", "committed", "ended"}

(* Bootstrap has sealed generation 1 in slot 0 and configured the ring. *)
AdmissionInit ==
  /\ capacity = Capacity
  /\ ring = [i \in Indices |-> NoEntry]
  /\ count = 0 /\ lastId = 0
  /\ activeEpoch = 1 /\ activeSlot = 0
  /\ closed = FALSE /\ interrupted = FALSE /\ fault = FALSE
  /\ pc = "idle"
  /\ current = NoTicket /\ ahead = NoTicket /\ issued = NoTicket
  /\ passes = [r \in Ranks |-> 0]
  /\ gpu = [r \in Ranks |->
              [stream   |-> <<>>,
               requests |-> 0,                 \* requests the pass published
               dev      |-> [i \in Indices |-> NoStamp],
               host     |-> [i \in Indices |-> NoStamp],
               armed    |-> [i \in Indices |-> 0],
               recorded |-> [i \in Indices |-> 0],
               trap     |-> "none"]]
  /\ binding = [r \in Ranks |-> [s \in Slots |-> IF s = 0 THEN 1 ELSE 0]]
  /\ copying = {}
  /\ phase = "serving"
  /\ snap = [cutoff |-> 0, epoch |-> 0]
  /\ helperFault = FALSE
  /\ cause = "none"

-----------------------------------------------------------------------------
(* The completion query (RankCompletion::prove).                           *)

EventPending(r, i) ==
  \E k \in DOMAIN gpu[r].stream :
    gpu[r].stream[k].op = "event" /\ Index(gpu[r].stream[k].ticket.id) = i

SealMatches(s, t) ==
  /\ s.id = t.id /\ s.epoch = t.epoch /\ s.slot = t.slot
  /\ s.published = s.consumed

(* Mutant: the seal's stamp is believed before the event behind it. *)
ProveBySeal(id, r) ==
  LET i == Index(id) IN
  IF gpu[r].recorded[i] # id \/ gpu[r].host[i].id # id THEN "Pending"
  ELSE IF gpu[r].armed[i] # id \/ ~SealMatches(gpu[r].host[i], At(id))
       THEN "Fault"
  ELSE "Proven"

Prove(id, r) ==
  LET i == Index(id) IN
  IF gpu[r].recorded[i] # id THEN "Pending"
  ELSE IF EventPending(r, i)
       THEN IF gpu[r].trap = "none" THEN "Pending" ELSE "Fault"
  ELSE IF gpu[r].armed[i] # id \/ ~SealMatches(gpu[r].host[i], At(id))
       THEN "Fault"
  ELSE "Proven"

Answers == [p \in Live \X Ranks |-> Prove(p[1], p[2])]

(* The first reason of a stop is the one reported. *)
Blame(why) == cause' = IF Stopped THEN cause ELSE why

FaultBecause(why) == RaiseFault /\ Blame(why)

(* poll_tickets(): one pass over the host-complete parents. *)
PollTickets ==
  IF helperFault THEN FaultBecause("helper")
  ELSE IF Stopped THEN UNCHANGED <<ledgerVars, cause>>
  ELSE /\ Poll(Answers)
       /\ cause' = IF fault' THEN "proof" ELSE cause

-----------------------------------------------------------------------------
(* The scheduler bridge.                                                   *)

(* An error goes up to the step loop, which ends in fail_loop(). *)
Fail == /\ pc' = "failing"
        /\ UNCHANGED <<current, ahead, issued, passes>>

(* fail_loop() interrupts the ledger before it stops the loop. *)
FailLoop ==
  /\ pc = "failing"
  /\ Interrupt
  /\ Blame("interrupt")
  /\ pc' = "failed"
  /\ UNCHANGED <<current, ahead, issued, passes, gpu, placeVars, helperFault>>

(* The loop comes round: a parent issued ahead is promoted, otherwise the  *)
(* loop asks for an admission.  The workload is bounded by MaxTicket.      *)
BeginStep ==
  /\ pc = "idle"
  /\ IF ahead # NoTicket
     THEN /\ current' = ahead /\ ahead' = NoTicket /\ issued' = ahead
          /\ pc' = "run"
          /\ UNCHANGED passes
     ELSE /\ lastId < MaxTicket
          /\ pc' = "poll"
          /\ UNCHANGED <<current, ahead, issued, passes>>
  /\ UNCHANGED <<ledgerVars, gpu, placeVars, helperFault, cause>>

(* admit_ticket() reclaims with event queries before it asks the ledger;   *)
(* a scheduler waiting at the closed gate polls as well.                   *)
PollBeforeAdmit ==
  /\ \/ pc = "poll" /\ pc' = "admit"
     \/ pc = "admit" /\ closed /\ ~Stopped /\ ~helperFault /\ pc' = pc
  /\ PollTickets
  /\ UNCHANGED <<current, ahead, issued, passes, gpu, placeVars, helperFault>>

(* Mutant: the wait at the gate does not notice a stop. *)
AdmitDeaf ==
  /\ pc = "admit"
  /\ ~Stopped /\ ~helperFault /\ ~closed
  /\ \/ /\ Allocate
        /\ current' = NewTicket
        /\ pc' = "decide"
        /\ UNCHANGED <<ahead, issued, passes, cause>>
     \/ /\ AllocateResult # "Ok"
        /\ FaultBecause(AllocateResult)
        /\ Fail
  /\ UNCHANGED <<gpu, placeVars, helperFault>>

(* Ledger::admit(): waits while the gate is closed and the ledger runs. *)
Admit ==
  /\ pc = "admit"
  /\ \/ /\ ~Stopped /\ ~helperFault /\ ~closed
        /\ \/ /\ Allocate
              /\ current' = NewTicket
              /\ pc' = "decide"
              /\ UNCHANGED <<ahead, issued, passes, cause>>
           \/ /\ AllocateResult # "Ok"
              /\ FaultBecause(AllocateResult)
              /\ Fail
     \/ /\ Stopped \/ helperFault
        /\ FaultBecause(IF Stopped THEN AllocateResult ELSE "helper")
        /\ Fail
  /\ UNCHANGED <<gpu, placeVars, helperFault>>

(* scheduler.step() returned a batch, or none. *)
DecideStep ==
  /\ pc = "decide"
  /\ \/ /\ Bind(current.id)
        /\ issued' = current
        /\ passes' = [r \in Ranks |-> 0]
        /\ pc' = "run"
        /\ UNCHANGED <<current, ahead, cause>>
     \/ IF Cancellable(current.id)
        THEN /\ Cancel(current.id)
             /\ current' = NoTicket /\ issued' = NoTicket
             /\ pc' = "idle"
             /\ UNCHANGED <<ahead, passes, cause>>
        ELSE /\ CancelRejected(current.id)
             /\ Blame("cancel")
             /\ Fail
  /\ UNCHANGED <<gpu, placeVars, helperFault>>

(* Mutant: a pass is replayed without arming the completion slot. *)
LaunchPassUnarmed(r) ==
  /\ pc \in {"run", "host"}
  /\ issued # NoTicket
  /\ (pc = "host" => issued = ahead)
  /\ passes[r] < MaxPasses
  /\ Valid(issued) /\ ~helperFault
  /\ passes' = [passes EXCEPT ![r] = @ + 1]
  /\ gpu' = [gpu EXCEPT
       ![r].stream = @ \o << [op |-> "publish", ticket |-> issued],
                             [op |-> "finish", ticket |-> issued] >>]
  /\ UNCHANGED <<ledgerVars, pc, current, ahead, issued, placeVars,
                 helperFault, cause>>

(* before_pass() and the pass's replay on one rank, for the issued parent. *)
LaunchPass(r) ==
  /\ pc \in {"run", "host"}
  /\ issued # NoTicket
  /\ (pc = "host" => issued = ahead)
  /\ passes[r] < MaxPasses
  /\ Valid(issued) /\ ~helperFault
  /\ passes' = [passes EXCEPT ![r] = @ + 1]
  /\ gpu' = [gpu EXCEPT
       ![r].armed[Index(issued.id)] = issued.id,
       ![r].stream = @ \o << [op |-> "publish", ticket |-> issued],
                             [op |-> "finish", ticket |-> issued] >>]
  /\ UNCHANGED <<ledgerVars, pc, current, ahead, issued, placeVars,
                 helperFault, cause>>

(* before_pass() refuses: the ticket is not the live one or a helper died. *)
PassRefused ==
  /\ pc = "run"
  /\ ~Valid(issued) \/ helperFault
  /\ Fail
  /\ UNCHANGED <<ledgerVars, gpu, placeVars, helperFault, cause>>

(* seal(ranks): every rank launches its seal and records its event, in     *)
(* rank order, once each rank has run the parent.                          *)
SealParent ==
  LET i == Index(current.id)
      repeated == \E r \in Ranks : gpu[r].recorded[i] = current.id IN
  /\ pc = "run"
  /\ \A r \in Ranks : passes[r] > 0
  /\ IF Valid(current) /\ ~repeated
     THEN /\ gpu' = [r \in Ranks |->
                      [gpu[r] EXCEPT
                         !.recorded[i] = current.id,
                         !.stream = @ \o << [op |-> "seal", ticket |-> current],
                                            [op |-> "event", ticket |-> current] >>]]
          /\ pc' = "ahead"
          /\ UNCHANGED <<ledgerVars, current, ahead, issued, passes, cause>>
     ELSE /\ FaultBecause("record")
          /\ Fail
          /\ UNCHANGED gpu
  /\ UNCHANGED <<placeVars, helperFault>>

(* try_ahead(): pipelining may be off; otherwise poll, then try_admit. *)
PollBeforeAhead ==
  /\ pc = "ahead"
  /\ \/ /\ pc' = "host"
        /\ UNCHANGED <<ledgerVars, cause>>
     \/ /\ lastId < MaxTicket
        /\ pc' = "tryAhead"
        /\ PollTickets
  /\ UNCHANGED <<current, ahead, issued, passes, gpu, placeVars, helperFault>>

TryAhead ==
  /\ pc = "tryAhead"
  /\ \/ /\ Allocate
        /\ ahead' = NewTicket
        /\ pc' = "decideAhead"
        /\ UNCHANGED <<current, issued, passes, cause>>
     \/ /\ AllocateResult \in {"Closed", "Full"}
        /\ pc' = "host"
        /\ UNCHANGED <<ledgerVars, current, ahead, issued, passes, cause>>
     \/ /\ AllocateResult \in {"Interrupted", "Fault", "Invalid"}
        /\ FaultBecause(AllocateResult)
        /\ Fail
  /\ UNCHANGED <<gpu, placeVars, helperFault>>

(* bind_ahead(nb): the batch issued ahead, or an empty one. *)
DecideAhead ==
  /\ pc = "decideAhead"
  /\ \/ /\ Bind(ahead.id)
        /\ issued' = ahead
        /\ passes' = [r \in Ranks |-> 0]
        /\ pc' = "host"
        /\ UNCHANGED <<current, ahead, cause>>
     \/ IF Cancellable(ahead.id)
        THEN /\ Cancel(ahead.id)
             /\ ahead' = NoTicket
             /\ pc' = "host"
             /\ UNCHANGED <<current, issued, passes, cause>>
        ELSE /\ CancelRejected(ahead.id)
             /\ Blame("cancel")
             /\ Fail
  /\ UNCHANGED <<gpu, placeVars, helperFault>>

(* host_done(): the drafters have finished; complete, then poll. *)
HostDone ==
  /\ pc = "host"
  /\ IF current.id \in Live
     THEN /\ HostComplete(current.id)
          /\ pc' = "hostPoll"
          /\ UNCHANGED <<current, ahead, issued, passes>>
     ELSE /\ Fail
          /\ UNCHANGED ledgerVars
  /\ UNCHANGED <<gpu, placeVars, helperFault, cause>>

PollAfterHostDone ==
  /\ pc = "hostPoll"
  /\ PollTickets
  /\ pc' = IF Stopped' THEN "failing" ELSE "idle"
  /\ UNCHANGED <<current, ahead, issued, passes, gpu, placeVars, helperFault>>

(* An ordinary shutdown interrupts the ledger from another thread. *)
Shutdown ==
  /\ "shutdown" \in Failures
  /\ Interrupt
  /\ Blame("interrupt")
  /\ UNCHANGED <<bridgeVars, gpu, placeVars, helperFault>>

-----------------------------------------------------------------------------
(* One rank's GPU executes the head of its stream.                         *)

Owns(s, t) == t.id # 0 /\ s.id = t.id /\ s.epoch = t.epoch /\ s.slot = t.slot

(* Mutant: a re-used counting slot keeps the counts of its last parent. *)
ArmedStampsAdditive(dev, t) ==
  IF dev[Index(t.id)].id = t.id THEN dev
  ELSE [dev EXCEPT ![Index(t.id)].id = t.id, ![Index(t.id)].epoch = t.epoch,
                   ![Index(t.id)].slot = t.slot]

(* Mutant: only a counting slot nobody used yet is armed. *)
ArmedStampsOnce(dev, t) ==
  IF dev[Index(t.id)].id # 0 THEN dev
  ELSE [dev EXCEPT ![Index(t.id)] =
          [id |-> t.id, epoch |-> t.epoch, slot |-> t.slot,
           published |-> 0, consumed |-> 0]]

(* consumption::arm(): the first pass of a parent resets its slot. *)
ArmedStamps(dev, t) ==
  IF dev[Index(t.id)].id = t.id THEN dev
  ELSE [dev EXCEPT ![Index(t.id)] =
          [id |-> t.id, epoch |-> t.epoch, slot |-> t.slot,
           published |-> 0, consumed |-> 0]]

Head1(r) == gpu[r].stream[1]
Pop(g) == [g EXCEPT !.stream = Tail(@)]
Trap(g, why) == [g EXCEPT !.trap = why]

(* The setter arms the parent's counting slot.  mailbox_publish_kernel     *)
(* traps unless the slot is its own parent's and the generation its ticket *)
(* names is resident.                                                      *)
ExecPublish(r) ==
  LET t == Head1(r).ticket
      i == Index(t.id)
      dev == ArmedStamps(gpu[r].dev, t) IN
  /\ Head1(r).op = "publish"
  /\ IF ~Owns(dev[i], t) THEN gpu' = [gpu EXCEPT ![r] = Trap(@, "stamp")]
     ELSE IF binding[r][t.slot] # t.epoch
     THEN gpu' = [gpu EXCEPT ![r] = Trap(@, "generation")]
     ELSE \E n \in 0..MaxRequests :
            gpu' = [gpu EXCEPT ![r] = [Pop(gpu[r]) EXCEPT
                      !.requests = n,
                      !.dev = [dev EXCEPT ![i].published = @ + n]]]

(* mailbox_wait_helpers(): a request whose helper has died traps the wait. *)
WaitTraps(r) == helperFault /\ gpu[r].requests > 0

(* The helper wait, the add and mailbox_add_finish_kernel: unless the wait *)
(* traps, everything published is consumed (a helper may have answered     *)
(* before it died).                                                        *)
ExecFinish(r) ==
  /\ Head1(r).op = "finish"
  /\ \/ /\ WaitTraps(r)
        /\ gpu' = [gpu EXCEPT ![r] = Trap(@, "helper")]
     \/ gpu' = [gpu EXCEPT ![r] = [Pop(gpu[r]) EXCEPT
                  !.dev[Index(Head1(r).ticket.id)].consumed = @ + gpu[r].requests,
                  !.requests = 0]]

(* mailbox_seal_kernel: an incomplete or foreign stamp never becomes an    *)
(* acknowledgement.                                                        *)
ExecSeal(r) ==
  LET t == Head1(r).ticket
      s == gpu[r].dev[Index(t.id)] IN
  /\ Head1(r).op = "seal"
  /\ IF Owns(s, t) /\ s.published = s.consumed
     THEN gpu' = [gpu EXCEPT ![r] = [Pop(gpu[r]) EXCEPT !.host[Index(t.id)] = s]]
     ELSE gpu' = [gpu EXCEPT ![r] = Trap(@, "seal")]

ExecEvent(r) ==
  /\ Head1(r).op = "event"
  /\ gpu' = [gpu EXCEPT ![r] = Pop(@)]

Exec(r) ==
  /\ gpu[r].stream # <<>>
  /\ gpu[r].trap = "none"
  /\ ExecPublish(r) \/ ExecFinish(r) \/ ExecSeal(r) \/ ExecEvent(r)
  /\ UNCHANGED <<ledgerVars, bridgeVars, placeVars, helperFault, cause>>

HelperFails ==
  /\ "helper" \in Failures
  /\ ~helperFault
  /\ helperFault' = TRUE
  /\ UNCHANGED <<ledgerVars, bridgeVars, gpu, placeVars, cause>>

-----------------------------------------------------------------------------
(* The placement thread.                                                   *)

(* r3_moe_owner_generation_upload(): the candidate's bitmap and binding    *)
(* overwrite the inactive generation on one rank while the engine serves.  *)
(* Until the copy's event completes the bank holds neither generation.     *)
UploadGeneration(r) ==
  LET slot == 1 - activeSlot IN
  /\ phase = "serving"
  /\ activeEpoch < MaxEpoch
  /\ binding[r][slot] # activeEpoch + 1 /\ r \notin copying
  /\ CanReplaceGeneration(slot) /\ ~helperFault
  /\ binding' = [binding EXCEPT ![r][slot] = 0]
  /\ copying' = copying \cup {r}
  /\ UNCHANGED <<ledgerVars, bridgeVars, gpu, phase, snap, helperFault, cause>>

UploadDone(r) ==
  /\ r \in copying
  /\ binding' = [binding EXCEPT ![r][1 - activeSlot] = activeEpoch + 1]
  /\ copying' = copying \ {r}
  /\ UNCHANGED <<ledgerVars, bridgeVars, gpu, phase, snap, helperFault, cause>>

(* r3_moe_owner_generation_ready() for every rank. *)
Staged == \A r \in Ranks : binding[r][1 - activeSlot] = activeEpoch + 1

(* close_and_wait() begins: r3_moe_close_admission(), for the transaction  *)
(* the ranks have staged.                                                  *)
CloseGate ==
  /\ phase = "serving"
  /\ Staged
  /\ ~Stopped /\ ~helperFault
  /\ CloseAdmission
  /\ snap' = [cutoff |-> lastId, epoch |-> activeEpoch]
  /\ phase' = "draining"
  /\ UNCHANGED <<bridgeVars, gpu, binding, copying, helperFault, cause>>

(* Mutant: the drain wait sleeps without polling the completion events. *)
DrainProgressBlind ==
  /\ phase = "draining"
  /\ ~Stopped /\ ~helperFault
  /\ ~Pending(snap.epoch, snap.cutoff)
  /\ phase' = "quiescing"
  /\ UNCHANGED <<ledgerVars, cause, bridgeVars, gpu, binding, copying, snap,
                 helperFault>>

(* r3_moe_wait_drained(): poll while a parent of the old epoch is pending. *)
DrainProgress ==
  /\ phase = "draining"
  /\ ~Stopped /\ ~helperFault
  /\ \/ /\ Pending(snap.epoch, snap.cutoff)
        /\ PollTickets
        /\ UNCHANGED phase
     \/ /\ ~Pending(snap.epoch, snap.cutoff)
        /\ phase' = "quiescing"
        /\ UNCHANGED <<ledgerVars, cause>>
  /\ UNCHANGED <<bridgeVars, gpu, binding, copying, snap, helperFault>>

(* The helpers acknowledge the drain request of this closure (external);   *)
(* the ledger is asked once more before the rank votes QUIESCED.           *)
HelpersQuiesce ==
  /\ phase = "quiescing"
  /\ ~helperFault
  /\ AllRanksConsumed(snap.epoch, snap.cutoff)
  /\ phase' = "drained"
  /\ UNCHANGED <<ledgerVars, bridgeVars, gpu, binding, copying, snap, helperFault,
                 cause>>

(* The rank coordinator's fatal(): ledger and helpers stop for good. *)
Fatal(why) ==
  /\ FaultBecause(why)
  /\ helperFault' = TRUE
  /\ phase' = "ended"
  /\ UNCHANGED <<bridgeVars, gpu, binding, copying, snap>>

(* Mutant: a missed deadline opens the gate again instead of stopping. *)
DrainFailsReopens ==
  /\ phase = "draining"
  /\ "deadline" \in Failures
  /\ ~Stopped /\ Pending(snap.epoch, snap.cutoff)
  /\ closed' = FALSE
  /\ phase' = "serving"
  /\ UNCHANGED <<capacity, ring, count, lastId, activeEpoch, activeSlot, interrupted,
                 fault, cause, bridgeVars, gpu, binding, copying, snap, helperFault>>

(* The deadline passes, or a stop is noticed, in either half of the wait. *)
DrainFails ==
  /\ phase \in {"draining", "quiescing"}
  /\ \/ /\ "deadline" \in Failures
        /\ phase = "draining" => Pending(snap.epoch, snap.cutoff)
        /\ Fatal("deadline")
     \/ /\ Stopped \/ helperFault
        /\ Fatal("helper")

(* The controller commits the move once every participant has voted and    *)
(* retires the old generation (external: the placement protocol).          *)
CommitPlacement ==
  /\ phase = "drained"
  /\ ~Stopped /\ ~helperFault
  /\ phase' = "committed"
  /\ UNCHANGED <<ledgerVars, bridgeVars, gpu, binding, copying, snap, helperFault,
                 cause>>

(* r3_moe_reopen_admission() with the committed placement. *)
ReopenGate ==
  /\ phase = "committed"
  /\ ~Stopped
  /\ IF helperFault \/ ~AllRanksConsumed(snap.epoch, snap.cutoff)
     THEN Fatal("helper")
     ELSE /\ Reopen(snap.epoch + 1, 1 - activeSlot)
          /\ phase' = "serving"
          /\ UNCHANGED <<bridgeVars, gpu, binding, copying, snap, helperFault, cause>>

(* placement_loop() ends between two steps once the engine has stopped. *)
PlacementStops ==
  /\ phase \in {"serving", "drained", "committed"}
  /\ Stopped \/ helperFault
  /\ phase' = "ended"
  /\ UNCHANGED <<ledgerVars, bridgeVars, gpu, binding, copying, snap, helperFault,
                 cause>>

-----------------------------------------------------------------------------

Bridge ==
  \/ BeginStep \/ FailLoop \/ PollBeforeAdmit \/ Admit \/ DecideStep
  \/ (\E r \in Ranks : LaunchPass(r)) \/ PassRefused \/ SealParent
  \/ PollBeforeAhead \/ TryAhead \/ DecideAhead \/ HostDone \/ PollAfterHostDone

PlacementThread ==
  \/ (\E r \in Ranks : UploadGeneration(r) \/ UploadDone(r))
  \/ CloseGate \/ DrainProgress \/ HelpersQuiesce \/ DrainFails
  \/ CommitPlacement \/ ReopenGate \/ PlacementStops

AdmissionNext ==
  \/ Bridge
  \/ \E r \in Ranks : Exec(r)
  \/ PlacementThread
  \/ HelperFails
  \/ Shutdown

AdmissionSpec == AdmissionInit /\ [][AdmissionNext]_vars

(* The step loop, the rank threads and the GPUs keep running; the drain    *)
(* wait polls every 2 ms.  No fairness for faults, deadlines, new work or  *)
(* new placements.                                                         *)
Fairness ==
  /\ WF_vars(PollBeforeAdmit \/ Admit \/ DecideStep \/ SealParent
             \/ PollBeforeAhead \/ TryAhead \/ DecideAhead \/ HostDone
             \/ PollAfterHostDone \/ PassRefused \/ FailLoop)
  /\ WF_vars(ahead # NoTicket /\ BeginStep)
  /\ \A r \in Ranks : WF_vars(passes[r] = 0 /\ LaunchPass(r))
  /\ \A r \in Ranks : WF_vars(Exec(r))
  /\ WF_vars(DrainProgress)
  /\ WF_vars(HelpersQuiesce \/ CommitPlacement \/ ReopenGate
             \/ ((Stopped \/ helperFault) /\ DrainFails))

LiveAdmissionSpec == AdmissionSpec /\ Fairness

-----------------------------------------------------------------------------
(* Properties.                                                             *)

(* The clients' state keeps its types. *)
AdmissionTypeOK ==
  /\ TypeOK
  /\ pc \in {"idle", "poll", "admit", "decide", "run", "ahead", "tryAhead",
             "decideAhead", "host", "hostPoll", "failing", "failed"}
  /\ {current, ahead, issued} \subseteq Ticket
  /\ passes \in [Ranks -> 0..MaxPasses]
  /\ \A r \in Ranks :
       /\ \A k \in DOMAIN gpu[r].stream : gpu[r].stream[k] \in Op
       /\ \A i \in Indices : gpu[r].dev[i] \in Stamp /\ gpu[r].host[i] \in Stamp
  /\ binding \in [Ranks -> [Slots -> 0..MaxEpoch]]
  /\ copying \subseteq Ranks
  /\ phase \in Phases

(* No interleaving of run-ahead parents, cancelled reservations, epoch     *)
(* flips and staging makes a kernel find another parent's counting slot, a *)
(* replaced owner generation, or counts that do not match at its seal: the *)
(* __builtin_trap()s of publish and seal are unreachable while the helpers *)
(* live.                                                                   *)
KernelsNeverTrap ==
  \A r \in Ranks : gpu[r].trap \in {"none", "helper"}

(* Work for a parent is in a GPU stream only while the parent is           *)
(* outstanding: retirement (and with it drain, commit and reuse of the     *)
(* stamp slot and generation) never overtakes the GPU.                     *)
StreamsHoldOnlyLiveParents ==
  \A r \in Ranks : \A k \in DOMAIN gpu[r].stream :
    LET t == gpu[r].stream[k].ticket IN
    t.id \in Live /\ At(t.id).epoch = t.epoch /\ At(t.id).bound

(* After the drain and until the reopen, no rank has anything queued and   *)
(* the scheduler holds no ticket it could still launch.                    *)
DrainedIsIdle ==
  (phase \in {"drained", "committed"} /\ ~Stopped) =>
     /\ \A r \in Ranks : gpu[r].stream = <<>>
     /\ count = 0
     /\ pc \notin {"decide", "run", "ahead", "decideAhead", "host"}

(* The ledger faults only for a reason outside the protocol: a helper      *)
(* failure, a missed deadline, more outstanding parents than the ring, or a*)
(* shutdown.  Never because the bridge lost a reservation, recorded a      *)
(* parent twice, or a finished parent's seal did not match.                *)
FaultsAreExternal ==
  /\ cause \in {"none", "helper", "deadline", "interrupt", "Full", "proof"}
  /\ cause = "proof" => \E r \in Ranks : gpu[r].trap = "helper"
  /\ cause = "interrupt" => (helperFault \/ "shutdown" \in Failures)

(* Every step of the scheduler, the GPUs and the placement thread is, on   *)
(* the ledger's variables, one of the ledger's own calls or nothing: what  *)
(* AdmissionLedger guarantees for any client holds for the real ones.      *)
LedgerSteps == [][Next]_ledgerVars

(* A closed gate is followed by a drained ledger, unless something stops   *)
(* it: no parent, reserved, issued ahead or waiting for its event, can hold*)
(* the drain up for ever.                                                  *)
DrainCompletes ==
  (phase = "draining") ~> (phase # "draining")

(* A scheduler blocked at the gate is eventually admitted or told to stop. *)
AdmissionResumes == (pc = "admit") ~> (pc # "admit")

=============================================================================
