------------------------------ MODULE Placement ------------------------------
(***************************************************************************)
(* Moving experts between helpers while the engine serves: the placement   *)
(* controller of helper zero and the epoch driver of every helper          *)
(* (worker_epoch.h), and the engine's rank coordinator                     *)
(* (engine_rank_coordinator.h, moe_remote_hook.cpp).  They share one       *)
(* memory segment: the control record and journal written by helper zero,  *)
(* two generation headers and one acknowledgement record per actor.        *)
(*                                                                         *)
(* Every process but helper zero, the control's only writer, first copies  *)
(* the control and acts on its copy later: `snap' and `esnap' are those    *)
(* copies, and the headers, the journal and the acknowledgements are read  *)
(* when the process acts.  A map's digest is the map itself.  Time is      *)
(* abstract: a deadline may pass whenever the code looks at the clock, if  *)
(* it is among the Failures.                                               *)
(***************************************************************************)
EXTENDS Residency

CONSTANTS
  Leader,      \* helper zero
  Ranks,       \* the engine's ranks
  FirstRank,   \* rank zero, whose record carries REOPENED
  Candidates,  \* owner maps that may be proposed
  MaxTxn,      \* bound on the number of transactions
  Failures     \* which happen: "deadline" of a phase or of "cleanup", failed
               \* "upload" or "bitmap" copies, "death" of a helper, "reject"

ASSUME ActorsAssumption ==
  Leader \in Helpers /\ FirstRank \in Ranks /\ Helpers \cap Ranks = {}
ASSUME CandidatesAssumption == Candidates \subseteq OwnerMaps
ASSUME BoundAssumption == MaxTxn \in Nat

VARIABLES
  ctl,      \* PlacementControl, as published
  journal,  \* PlacementJournal: the records of two transactions
  gen,      \* gen[g]: header and owner bytes of generation g
  ack,      \* ack[a]: the acknowledgement record of helper or rank a
  lead,     \* Controller's private state
  lpc,      \* where helper zero is in its tick
  snap,     \* snap[h]: the control a helper's tick works on
  reopen,   \* reopen[h]: awaiting_reopen_
  halted,   \* helpers whose placement_halted_ is set
  up,       \* helper processes that are running
  fault,    \* Header::helper_fault
  gate,     \* admission: "open", "closed" or "faulted"
  led,      \* epoch and generation slot of the admission ledger
  esnap,    \* the control the engine's step works on
  closing,  \* the engine is inside close_and_wait
  drained,  \* helpers whose lanes acknowledged the drain request
  owner,    \* owner[r][g]: the owner bitmap uploaded to rank r
  co        \* EngineRankCoordinator

ctlVars == <<ctl, journal, gen, lead>>
engineVars == <<gate, led, closing, drained, owner, co>>
placementVars == <<poolVars, ctlVars, ack, lpc, snap, reopen, halted, up, fault,
                   esnap, engineVars>>

Actors == Helpers \cup Ranks
NoMap == [e \in Experts |-> Nothing]
NoSnap == [state |-> "NONE"]
NoBitmap == [epoch |-> 0, map |-> NoMap, event |-> "none"]
Order == [ACTIVE |-> 0, PROPOSED |-> 1, RESERVING |-> 2, COPYING |-> 3,
          PREPARED |-> 4, QUIESCING |-> 5, COMMIT |-> 6, RETIRING |-> 7]
AckOf == [RESERVING |-> "RESERVED", COPYING |-> "READY", QUIESCING |-> "QUIESCED",
          COMMIT |-> "COMMITTED", RETIRING |-> "RETIRED"]
Committed(c) == Order[c.state] >= Order["COMMIT"]
Quiescing(c) == Order[c.state] >= Order["QUIESCING"]

\* pending_epoch and pending_slot; the pending map is c.cand.
PendEpoch(c) == IF Committed(c) THEN c.epoch ELSE c.epoch + 1
PendSlot(c) == IF Committed(c) THEN c.slot ELSE 1 - c.slot

NoAck == [phase |-> "NONE", txn |-> 0, epoch |-> 0, map |-> NoMap, slot |-> 0,
          fault |-> FALSE]
PhaseAck(c, phase, bad) ==
  [phase |-> phase, txn |-> c.txn, epoch |-> PendEpoch(c), map |-> c.cand,
   slot |-> PendSlot(c), fault |-> bad]
ClosingAck(c, phase, bad) ==
  [phase |-> phase, txn |-> c.txn, epoch |-> c.epoch, map |-> c.map,
   slot |-> c.slot, fault |-> bad]

\* publish_ack keeps an acknowledgement of the same transaction and phase.
Kept(a, new) == IF ack[a].txn = new.txn /\ ack[a].phase = new.phase THEN ack[a] ELSE new
Publish(a, new) == ack' = [ack EXCEPT ![a] = new]
PublishAll(S, new) == ack' = [a \in Actors |-> IF a \in S THEN new ELSE ack[a]]
KeepAll(S, new) ==
  ack' = [a \in Actors |-> IF a \in S THEN Kept(a, new) ELSE ack[a]]

NoRecord == [txn |-> 0, epoch |-> 0, old |-> 0, from |-> NoMap, to |-> NoMap,
             fault |-> FALSE, committed |-> FALSE, cleanup |-> FALSE]
Record(c) == journal[c.jix]

PlacementInit ==
  /\ PoolInit
  /\ ctl = [state |-> "ACTIVE", txn |-> 0, epoch |-> 1, slot |-> 0,
            map |-> InitialOwners, cand |-> NoMap, jix |-> 1, fault |-> FALSE]
  /\ journal = [i \in 0 .. 1 |-> NoRecord]
  /\ gen = [g \in Generations |->
              IF g = 0 THEN [epoch |-> 1, map |-> InitialOwners, state |-> "ACTIVE"]
              ELSE [epoch |-> 0, map |-> NoMap, state |-> "EMPTY"]]
  /\ ack = [a \in Actors |-> NoAck]
  /\ lead = [await |-> 0, committed |-> FALSE, last |-> 2, failed |-> FALSE]
  /\ lpc = "idle"
  /\ snap = [h \in Helpers |-> NoSnap]
  /\ reopen = [h \in Helpers |-> 0]
  /\ halted = {} /\ up = Helpers /\ fault = FALSE
  /\ gate = "open" /\ led = [epoch |-> 1, slot |-> 0]
  /\ esnap = NoSnap /\ closing = FALSE /\ drained = {}
  /\ owner = [r \in Ranks |-> [g \in Generations |->
                IF g = 0 THEN [epoch |-> 1, map |-> InitialOwners, event |-> "done"]
                ELSE NoBitmap]]
  /\ co = [uploaded |-> 0, closed |-> 0, oldEpoch |-> 0,
           issued |-> {}, ready |-> {}, committed |-> {}, badAbort |-> 0]

\* placement_candidate_valid: the snapshot against the live journal and headers.
CandidateValid(c) ==
  LET j == Record(c)
      o == gen[j.old]
      n == gen[1 - j.old]
  IN /\ j.txn = c.txn /\ j.to = c.cand
     /\ IF Committed(c)
        THEN c.slot = 1 - j.old /\ c.epoch = j.epoch + 1 /\ c.map = j.to
        ELSE c.slot = j.old /\ c.epoch = j.epoch /\ c.map = j.from
     /\ o.epoch = j.epoch /\ o.map = j.from /\ o.state = "ACTIVE"
     /\ n.epoch = j.epoch + 1 /\ n.map = j.to
     /\ n.state \in {"STAGING", "READY", "ACTIVE"}
     /\ n.state = "ACTIVE" => Committed(c)
     /\ c.state = "RETIRING" => n.state = "ACTIVE"

\* The last transaction, as c names it, was aborted before COMMIT.
Aborted(c) ==
  c.txn # 0 /\ Record(c).txn = c.txn /\ Record(c).fault /\ ~Record(c).committed

\* Mutant: ACTIVE alone counts as the reopen.
ReopenedByActive(c, txn) == c.state = "ACTIVE" /\ c.txn = txn /\ ~c.fault

ReopenedExactly(c, txn) ==
  /\ ack[FirstRank] = ClosingAck(c, "REOPENED", FALSE)
  /\ c.state = "ACTIVE" /\ c.txn = txn /\ ~c.fault

-----------------------------------------------------------------------------
(* Controller, the operations of helper zero on the shared control.        *)

CloseAck(a, phase) ==
  ack[a] = [ClosingAck(ctl, phase, FALSE) EXCEPT !.txn = lead.await]

\* Mutant: the helpers' part is not awaited.
ClosedByEngine ==
  \/ lead.await = 0
  \/ IF lead.committed THEN CloseAck(FirstRank, "REOPENED")
     ELSE \A r \in Ranks : CloseAck(r, "CLEANED")

\* previous_closed: all actors finished the transaction before.
PreviousClosed ==
  \/ lead.await = 0
  \/ /\ IF lead.committed THEN CloseAck(FirstRank, "REOPENED")
        ELSE \A r \in Ranks : CloseAck(r, "CLEANED")
     /\ \A h \in Helpers : CloseAck(h, "CLEANED")

CanPropose == ~lead.failed /\ ~ctl.fault /\ ctl.state = "ACTIVE" /\ PreviousClosed

\* Mutant: no first transaction.
NextIndexUnseeded == 1 - lead.last

NextIndex == IF lead.last < 2 THEN 1 - lead.last ELSE 0

\* stage_same_map_generation with the candidate written over the copy, then
\* Controller::propose, or begin_epoch_cycle when the map is unchanged.
Propose(m) ==
  /\ CanPropose /\ ctl.txn < MaxTxn
  /\ gen' = [gen EXCEPT ![1 - ctl.slot] =
               [epoch |-> ctl.epoch + 1, map |-> m, state |-> "STAGING"]]
  /\ ctl' = [ctl EXCEPT !.state = "PROPOSED", !.txn = @ + 1, !.cand = m,
                        !.jix = NextIndex]
  /\ journal' = [journal EXCEPT ![NextIndex] =
       [NoRecord EXCEPT !.txn = ctl.txn + 1, !.epoch = ctl.epoch,
                        !.old = ctl.slot, !.from = ctl.map, !.to = m]]
  /\ UNCHANGED lead

\* reject_staging: a transaction that only leaves a journal record.
RejectStaging ==
  /\ CanPropose /\ ctl.txn < MaxTxn
  /\ ctl' = [ctl EXCEPT !.txn = @ + 1, !.jix = NextIndex]
  /\ journal' = [journal EXCEPT ![NextIndex] =
       [NoRecord EXCEPT !.txn = ctl.txn + 1, !.epoch = ctl.epoch,
                        !.from = ctl.map, !.fault = TRUE]]
  /\ lead' = [lead EXCEPT !.await = ctl.txn + 1, !.committed = FALSE]
  /\ UNCHANGED gen

\* enter: publish the next state of the transaction.
Enter(state) == ctl' = [ctl EXCEPT !.state = state]

\* Controller::fail: before QUIESCING the old placement stays in force and the
\* transaction is cleaned up; later the controller fails closed.
Fail ==
  /\ journal' = [journal EXCEPT ![ctl.jix].fault = TRUE]
  /\ ctl' = IF Committed(ctl) THEN [ctl EXCEPT !.fault = TRUE]
            ELSE [ctl EXCEPT !.state = "ACTIVE", !.cand = NoMap,
                             !.fault = Quiescing(ctl)]
  /\ lead' = IF Quiescing(ctl) THEN [lead EXCEPT !.failed = TRUE]
             ELSE [lead EXCEPT !.await = ctl.txn, !.committed = FALSE]
  /\ UNCHANGED gen

\* stop_placement_after_cleanup: terminal for placement, not for serving.
StopPlacement ==
  /\ journal' = [journal EXCEPT ![ctl.jix].fault = TRUE, ![ctl.jix].cleanup = TRUE]
  /\ lead' = [lead EXCEPT !.failed = TRUE]
  /\ UNCHANGED <<ctl, gen>>

\* collect / check_phase_faults for the current phase.
Exact(a) == ack[a] = PhaseAck(ctl, AckOf[ctl.state], FALSE)
\* Mutant: a fault code is not looked at.
PhaseMismatch(a) ==
  /\ ack[a].txn = ctl.txn /\ ack[a].phase = AckOf[ctl.state]
  /\ ack[a] # PhaseAck(ctl, AckOf[ctl.state], ack[a].fault)

PhaseFault(a) ==
  /\ ack[a].txn = ctl.txn /\ ack[a].phase = AckOf[ctl.state]
  /\ ack[a] # PhaseAck(ctl, AckOf[ctl.state], FALSE)
\* Mutant: the ranks are not collected.
HelpersExact == \A h \in Helpers : Exact(h)

AllExact == \A a \in Actors : Exact(a)

-----------------------------------------------------------------------------
(* EpochCycle::tick.  A tick that returns false stops the helper and       *)
(* raises the fault every process sees.                                    *)

StopHelper(h) == up' = up \ {h} /\ fault' = TRUE
Running == UNCHANGED <<up, fault>>

\* The end of a participant's part of the tick.  Helper zero goes on to the
\* controller's part, with the control it read.
EndTick(h, next) ==
  /\ snap' = [snap EXCEPT ![h] = IF next = "idle" THEN NoSnap ELSE @]
  /\ lpc' = IF h = Leader THEN next ELSE lpc
OnlyTick(h) == EndTick(h, IF h = Leader THEN "poll" ELSE "idle")

Ticking(h) == h \in up /\ snap[h] # NoSnap /\ (h = Leader => lpc = "tick")
Snapshot(h) ==
  /\ h \in up /\ h \notin halted /\ ~fault /\ snap[h] = NoSnap
  /\ snap' = [snap EXCEPT ![h] = ctl]
  /\ lpc' = IF h = Leader THEN "tick" ELSE lpc
  /\ UNCHANGED <<poolVars, ctlVars, ack, reopen, halted, up, fault, esnap, engineVars>>

\* A tick that finds helper_fault set, or the published fault of the control.
TickFaulted(h) ==
  /\ \/ h \in up /\ fault /\ snap[h] = NoSnap
     \/ Ticking(h) /\ snap[h].fault
  /\ StopHelper(h) /\ EndTick(h, "idle")
  /\ UNCHANGED <<poolVars, ctlVars, ack, reopen, halted, esnap, engineVars>>

TickInvalid(h) ==
  LET c == snap[h]
  IN /\ Ticking(h) /\ ~c.fault /\ c.state # "ACTIVE" /\ ~CandidateValid(c)
     /\ IF Quiescing(c) THEN StopHelper(h) /\ UNCHANGED ctlVars
        ELSE Running /\ IF h = Leader THEN Fail ELSE UNCHANGED ctlVars
     /\ EndTick(h, "idle")
     /\ UNCHANGED <<poolVars, ack, reopen, halted, esnap, engineVars>>

\* A tick in the given state whose snapshot passed validation.
TickIn(h, state) ==
  /\ Ticking(h) /\ snap[h].state = state /\ ~snap[h].fault
  /\ state # "ACTIVE" => CandidateValid(snap[h])

TickReserving(h) ==
  LET c == snap[h]
      bad == part'[h].fault \/ part'[h].txn # c.txn
  IN /\ TickIn(h, "RESERVING")
     /\ IF part[h].txn = 0
        THEN ReserveSlots(h, c.txn, PendEpoch(c), c.slot, PendSlot(c), c.map, c.cand)
        ELSE UNCHANGED poolVars
     /\ Publish(h, IF bad THEN PhaseAck(c, "RESERVED", TRUE)
                   ELSE Kept(h, PhaseAck(c, "RESERVED", FALSE)))
     /\ Running /\ OnlyTick(h)
     /\ UNCHANGED <<ctlVars, reopen, halted, esnap, engineVars>>

TickCopying(h) ==
  LET c == snap[h]
  IN /\ TickIn(h, "COPYING")
     /\ \/ /\ part[h].built /\ UNCHANGED poolVars          \* already READY
           /\ Publish(h, Kept(h, PhaseAck(c, "READY", FALSE)))
        \/ copy[h] = "busy" /\ UNCHANGED <<poolVars, ack>>  \* WAITING
        \/ StartUpload(h) /\ UNCHANGED ack
        \/ /\ BuildBank(h)
           /\ Publish(h, Kept(h, PhaseAck(c, "READY", FALSE)))
        \/ /\ CopyBroken(h) /\ UNCHANGED poolVars           \* FAILED
           /\ Publish(h, PhaseAck(c, "READY", TRUE))
        \/ /\ "upload" \in Failures /\ UploadRefused(h)
           /\ Publish(h, PhaseAck(c, "READY", TRUE))
     /\ Running /\ OnlyTick(h)
     /\ UNCHANGED <<ctlVars, reopen, halted, esnap, engineVars>>

\* PROPOSED and PREPARED ask nothing of a participant.
TickIdle(h) ==
  /\ TickIn(h, "PROPOSED") \/ TickIn(h, "PREPARED")
  /\ OnlyTick(h)
  /\ UNCHANGED <<poolVars, ctlVars, ack, reopen, halted, up, fault, esnap, engineVars>>

TickQuiescing(h) ==
  /\ TickIn(h, "QUIESCING")
  /\ IF h \in drained THEN Publish(h, Kept(h, PhaseAck(snap[h], "QUIESCED", FALSE)))
     ELSE UNCHANGED ack
  /\ Running /\ OnlyTick(h)
  /\ UNCHANGED <<poolVars, ctlVars, reopen, halted, esnap, engineVars>>

\* The ack of c's transaction that h published last.
LastAck(h, c, phase) == ack[h].txn = c.txn /\ ack[h].phase = phase

TickCommit(h) ==
  LET c == snap[h]
  IN /\ TickIn(h, "COMMIT")
     /\ IF ~MayCommit(h, c.txn, c.epoch, c.slot)
        THEN StopHelper(h) /\ EndTick(h, "idle") /\ UNCHANGED <<poolVars, ack>>
        ELSE /\ IF part[h].committed THEN UNCHANGED poolVars ELSE CommitSlots(h)
             /\ IF h \in drained /\ LastAck(h, c, "QUIESCED")
                THEN Publish(h, PhaseAck(c, "COMMITTED", FALSE)) ELSE UNCHANGED ack
             /\ Running /\ OnlyTick(h)
     /\ UNCHANGED <<ctlVars, reopen, halted, esnap, engineVars>>

TickRetiring(h) ==
  LET c == snap[h]
  IN /\ TickIn(h, "RETIRING")
     /\ IF h \in drained /\ LastAck(h, c, "COMMITTED")
        THEN /\ Publish(h, PhaseAck(c, "RETIRED", FALSE))
             /\ reopen' = [reopen EXCEPT ![h] = c.txn]
        ELSE UNCHANGED <<ack, reopen>>
     /\ Running /\ OnlyTick(h)
     /\ UNCHANGED <<poolVars, ctlVars, halted, esnap, engineVars>>

-----------------------------------------------------------------------------
(* The ACTIVE part of the tick: cleanup after an abort, reclaim after a    *)
(* reopen, and for helper zero the cleanup deadline and the next proposal. *)

CleanupHalt(h) ==
  LET c == snap[h]
  IN /\ TickIn(h, "ACTIVE")
     /\ c.txn # 0 /\ Record(c).txn = c.txn /\ Record(c).cleanup
     /\ halted' = halted \cup {h} /\ EndTick(h, "idle")
     /\ UNCHANGED <<poolVars, ctlVars, ack, reopen, up, fault, esnap, engineVars>>

NotHalted(c) == ~(c.txn # 0 /\ Record(c).txn = c.txn /\ Record(c).cleanup)

\* publish_cleanup_ack, when c's transaction was aborted.
AbortAck(h, c) ==
  IF Aborted(c) THEN Publish(h, ClosingAck(c, "CLEANED", FALSE)) ELSE UNCHANGED ack

\* Nothing awaits a reopen: cancel an aborted move, then acknowledge.
TickCleanup(h) ==
  LET c == snap[h]
  IN /\ TickIn(h, "ACTIVE") /\ NotHalted(c) /\ reopen[h] = 0
     /\ \/ /\ part[h].txn = 0 /\ UNCHANGED poolVars
           /\ AbortAck(h, c) /\ Running /\ OnlyTick(h)
        \/ /\ AbortMove(h)
           /\ AbortAck(h, c) /\ Running /\ OnlyTick(h)
        \/ \* abort() refuses: the move is committed, or its stream in error
           /\ part[h].committed \/ copy[h] = "failed"
           /\ UNCHANGED <<poolVars, ack>>
           /\ IF Aborted(c) THEN Running /\ OnlyTick(h)
              ELSE StopHelper(h) /\ EndTick(h, "idle")
     /\ UNCHANGED <<ctlVars, reopen, halted, esnap, engineVars>>

TickReopened(h) ==
  LET c == snap[h]
  IN /\ TickIn(h, "ACTIVE") /\ NotHalted(c) /\ reopen[h] # 0
     /\ ReopenedExactly(c, reopen[h])
     /\ ReclaimSlots(h)
     /\ Publish(h, ClosingAck(c, "CLEANED", FALSE))
     /\ reopen' = [reopen EXCEPT ![h] = 0]
     /\ OnlyTick(h)
     /\ UNCHANGED <<ctlVars, halted, up, fault, esnap, engineVars>>

\* REOPENED has not come: go on waiting, or past the deadline stop placement
\* and keep both generations resident.
TickAwaitsReopen(h) ==
  LET c == snap[h]
  IN /\ TickIn(h, "ACTIVE") /\ NotHalted(c) /\ reopen[h] # 0
     /\ ~ReopenedExactly(c, reopen[h])
     /\ \/ UNCHANGED <<ctlVars, halted>>
        \/ /\ "deadline" \in Failures
           /\ halted' = halted \cup {h}
           /\ IF h = Leader /\ lead.committed THEN StopPlacement
              ELSE UNCHANGED ctlVars
     /\ EndTick(h, "idle")
     /\ UNCHANGED <<poolVars, ack, reopen, up, fault, esnap, engineVars>>

-----------------------------------------------------------------------------
(* The controller's part of helper zero's tick.                            *)

Polling == Leader \in up /\ lpc = "poll"
PollEnds(next) ==
  /\ lpc' = next
  /\ snap' = [snap EXCEPT ![Leader] = IF next = "idle" THEN NoSnap ELSE @]

\* poll_cleanup: an actor's cleanup fault, or the deadline, stops placement.
CleanupFault ==
  /\ lead.await # 0 /\ ~lead.committed
  /\ \E r \in Ranks : ack[r] =
       [ClosingAck(ctl, "CLEANED", TRUE) EXCEPT !.txn = lead.await]

CleanupStops ==
  /\ Polling /\ ctl.state = "ACTIVE" /\ ~lead.failed
  /\ StopPlacement /\ halted' = halted \cup {Leader}
  /\ PollEnds("idle")
  /\ UNCHANGED <<poolVars, ack, reopen, up, fault, esnap, engineVars>>

CleanupFails == CleanupFault /\ CleanupStops
\* Mutant: an abort has no cleanup deadline.
CommittedExpires ==
  /\ "cleanup" \in Failures /\ lead.committed
  /\ ~CleanupFault /\ ~PreviousClosed /\ CleanupStops

CleanupExpires ==
  "cleanup" \in Failures /\ ~CleanupFault /\ ~PreviousClosed /\ CleanupStops

\* Otherwise a proposal, when the transaction before is closed, or nothing.
PollActive ==
  /\ Polling /\ ctl.state = "ACTIVE" /\ ~CleanupFault
  /\ \/ UNCHANGED ctlVars
     \/ \E m \in Candidates : Propose(m)
     \/ "reject" \in Failures /\ RejectStaging
  /\ PollEnds("idle")
  /\ UNCHANGED <<poolVars, ack, reopen, halted, up, fault, esnap, engineVars>>

\* start_reserving, and the READY header with begin_quiesce.
PollAdvances ==
  /\ Polling
  /\ \/ ctl.state = "PROPOSED" /\ Enter("RESERVING") /\ UNCHANGED gen
     \/ /\ ctl.state = "PREPARED" /\ Enter("QUIESCING")
        /\ gen' = [gen EXCEPT ![PendSlot(ctl)].state = "READY"]
  /\ PollEnds("idle")
  /\ UNCHANGED <<poolVars, journal, lead, ack, reopen, halted, up, fault, esnap, engineVars>>

\* Before COMMITTED is collected the new header is marked ACTIVE.
Headers ==
  IF ctl.state = "COMMIT" THEN [gen EXCEPT ![ctl.slot].state = "ACTIVE"] ELSE gen

Collecting == Polling /\ ctl.state \in DOMAIN AckOf

PollWaits ==
  /\ Collecting /\ ~AllExact /\ ~\E a \in Actors : PhaseFault(a)
  /\ gen' = Headers
  /\ PollEnds("idle")
  /\ UNCHANGED <<poolVars, ctl, journal, lead, ack, reopen, halted, up, fault,
                 esnap, engineVars>>

PollFails ==
  /\ Collecting
  /\ "deadline" \in Failures \/ \E a \in Actors : PhaseFault(a)
  /\ Fail
  /\ IF Quiescing(ctl) THEN StopHelper(Leader) ELSE Running
  /\ PollEnds("idle")
  /\ UNCHANGED <<poolVars, ack, reopen, halted, esnap, engineVars>>

\* All acknowledged: the next state, or COMMIT, which makes the candidate the
\* active generation, or ACTIVE, after which the old header is RETIRED.
PollCollects ==
  /\ Collecting /\ AllExact /\ ~\E a \in Actors : PhaseFault(a)
  /\ \/ /\ ctl.state = "RESERVING" /\ Enter("COPYING")
        /\ UNCHANGED <<journal, lead, gen>> /\ PollEnds("idle")
     \/ /\ ctl.state = "COPYING" /\ Enter("PREPARED")
        /\ UNCHANGED <<journal, lead, gen>> /\ PollEnds("idle")
     \/ /\ ctl.state = "QUIESCING"
        /\ ctl' = [ctl EXCEPT !.state = "COMMIT", !.epoch = PendEpoch(ctl),
                              !.slot = PendSlot(ctl), !.map = ctl.cand]
        /\ journal' = [journal EXCEPT ![ctl.jix].committed = TRUE]
        /\ UNCHANGED <<lead, gen>> /\ PollEnds("idle")
     \/ /\ ctl.state = "COMMIT" /\ Enter("RETIRING")
        /\ gen' = Headers /\ UNCHANGED <<journal, lead>> /\ PollEnds("idle")
     \/ /\ ctl.state = "RETIRING"
        /\ ctl' = [ctl EXCEPT !.state = "ACTIVE", !.cand = NoMap]
        /\ lead' = [lead EXCEPT !.await = ctl.txn, !.committed = TRUE, !.last = ctl.jix]
        /\ UNCHANGED <<journal, gen>> /\ PollEnds("retire")
  /\ UNCHANGED <<poolVars, ack, reopen, halted, up, fault, esnap, engineVars>>

\* Mutant: the old header stays ACTIVE.
HeaderStays ==
  /\ Leader \in up /\ lpc = "retire"
  /\ reopen' = [reopen EXCEPT ![Leader] = ctl.txn]
  /\ PollEnds("idle")
  /\ UNCHANGED <<poolVars, ctlVars, ack, halted, up, fault, esnap, engineVars>>

RetireHeader ==
  /\ Leader \in up /\ lpc = "retire"
  /\ gen' = [gen EXCEPT ![1 - ctl.slot].state = "RETIRED"]
  /\ reopen' = [reopen EXCEPT ![Leader] = ctl.txn]
  /\ PollEnds("idle")
  /\ UNCHANGED <<poolVars, ctl, journal, lead, ack, halted, up, fault, esnap, engineVars>>

-----------------------------------------------------------------------------
(* The engine: placement_loop and EngineRankCoordinator::step.             *)

Stopped == gate = "faulted" \/ fault
Fatal == gate' = "faulted" /\ fault' = TRUE
EndStep == esnap' = NoSnap
HelpersKeep == UNCHANGED <<poolVars, ctlVars, lpc, snap, reopen, halted, up>>

EngineLooks ==
  /\ ~Stopped /\ esnap = NoSnap /\ ~closing
  /\ esnap' = ctl
  /\ UNCHANGED <<poolVars, ctlVars, ack, lpc, snap, reopen, halted, up, fault, engineVars>>

\* The loop ends, and admission with it, on a published fault or helper_fault.
EngineStops ==
  /\ gate # "faulted" /\ (fault \/ (esnap # NoSnap /\ esnap.fault))
  /\ ~closing
  /\ gate' = "faulted" /\ EndStep
  /\ HelpersKeep /\ UNCHANGED <<ack, fault, led, closing, drained, owner, co>>

Stepping(state) ==
  esnap # NoSnap /\ ~closing /\ ~Stopped /\ ~esnap.fault /\ esnap.state = state

EngineReserving ==
  LET c == esnap
  IN /\ Stepping("RESERVING")
     /\ IF co.closed # 0 \/ ~CandidateValid(c)
        THEN PublishAll(Ranks, PhaseAck(c, "RESERVED", TRUE))
        ELSE KeepAll(Ranks, PhaseAck(c, "RESERVED", FALSE))
     /\ EndStep /\ HelpersKeep
     /\ UNCHANGED <<fault, engineVars>>

\* build_bitmap: the live control still names c's candidate.
Pending(c) == ctl.txn = c.txn /\ ctl.state \in {"COPYING", "PREPARED"}

\* r3_moe_owner_generation_upload: the slot is not the ledger's and no earlier
\* copy into the bank is pending.
MayUpload(r, c) ==
  /\ PendSlot(c) # led.slot /\ Pending(c)
  /\ owner[r][PendSlot(c)].event \in {"none", "done"}

Issued(c) == IF co.uploaded = c.txn THEN co.issued ELSE {}
ReadyRanks(c) == IF co.uploaded = c.txn THEN co.ready ELSE {}

EngineCopying ==
  LET c == esnap
      s == PendSlot(c)
      todo == Ranks \ Issued(c)
      queued == [epoch |-> PendEpoch(c), map |-> c.cand, event |-> "busy"]
      upload(done, lost) == [r \in Ranks |->
        IF r \in done THEN [owner[r] EXCEPT ![s] = queued]
        ELSE IF r \in lost THEN [owner[r] EXCEPT ![s] = NoBitmap] ELSE owner[r]]
      landed == {r \in Issued(c) : owner[r][s].event = "done" /\ Pending(c)}
      usable == /\ co.closed = 0 /\ CandidateValid(c)
                /\ \A r \in Issued(c) : owner[r][s].event # "failed"
      seen == [co EXCEPT !.uploaded = c.txn, !.issued = Issued(c),
                         !.ready = ReadyRanks(c),
                         !.committed = IF co.uploaded = c.txn THEN @ ELSE {}]
      refused == PublishAll(Ranks, PhaseAck(c, "READY", TRUE))
  IN /\ Stepping("COPYING")
     /\ \/ ~usable /\ refused /\ co' = seen /\ UNCHANGED owner
        \/ /\ usable /\ \A r \in todo : MayUpload(r, c)
           /\ owner' = upload(todo, {})
           /\ co' = [seen EXCEPT !.issued = Ranks, !.ready = @ \cup landed]
           /\ KeepAll(landed \ ReadyRanks(c), PhaseAck(c, "READY", FALSE))
        \/ \* a rank cannot queue its upload; ranks before it may have
           /\ usable /\ refused
           /\ \E bad \in todo, q \in SUBSET {r \in todo : MayUpload(r, c)} :
                /\ bad \notin q
                /\ "bitmap" \in Failures \/ ~MayUpload(bad, c)
                /\ owner' = upload(q, {bad} \cap {r \in todo : MayUpload(r, c)})
                /\ co' = [seen EXCEPT !.issued = @ \cup q]
     /\ EndStep /\ HelpersKeep
     /\ UNCHANGED <<fault, gate, led, closing, drained>>

BitmapLands(r, g) ==
  /\ owner[r][g].event = "busy"
  /\ \/ owner' = [owner EXCEPT ![r][g].event = "done"]
     \/ "bitmap" \in Failures /\ owner' = [owner EXCEPT ![r][g].event = "failed"]
  /\ HelpersKeep /\ UNCHANGED <<ack, fault, esnap, gate, led, closing, drained, co>>

\* QUIESCING, first part: close admission and ask the lanes to drain.
EngineCloses ==
  LET c == esnap
  IN /\ Stepping("QUIESCING") /\ co.closed # c.txn
     /\ IF co.uploaded = c.txn /\ co.ready = Ranks /\ CandidateValid(c)
        THEN gate' = "closed" /\ closing' = TRUE /\ UNCHANGED <<fault, esnap>>
        ELSE Fatal /\ EndStep /\ UNCHANGED closing
     /\ HelpersKeep /\ UNCHANGED <<ack, led, drained, owner, co>>

\* The lanes of h are idle and have acknowledged (module LaneBurst).
LanesDrain(h) ==
  /\ closing /\ h \in up /\ h \notin drained
  /\ drained' = drained \cup {h}
  /\ HelpersKeep /\ UNCHANGED <<ack, fault, esnap, gate, led, closing, owner, co>>

\* Second part: close_and_wait returns, with the proof or without it.
EngineDrained ==
  LET c == esnap
  IN /\ closing /\ closing' = FALSE /\ EndStep
     /\ \/ /\ drained = Helpers /\ ~Stopped
           /\ co' = [co EXCEPT !.closed = c.txn, !.oldEpoch = led.epoch]
           /\ PublishAll(Ranks, PhaseAck(c, "QUIESCED", FALSE))
           /\ UNCHANGED <<gate, fault>>
        \/ /\ Stopped \/ "deadline" \in Failures
           /\ Fatal /\ UNCHANGED <<ack, co>>
     /\ HelpersKeep /\ UNCHANGED <<led, drained, owner>>

\* What COMMIT and RETIRING ask of the engine.
CommitProved(c) ==
  CandidateValid(c) /\ co.oldEpoch + 1 = c.epoch /\ co.ready = Ranks
RetirementProved(c) ==
  /\ co.oldEpoch + 1 = c.epoch /\ drained = Helpers
  /\ co.ready = Ranks /\ co.committed = Ranks

\* A snapshot that asks nothing of the engine, or not yet.
EngineIdles ==
  LET c == esnap
  IN /\ \E state \in DOMAIN Order \ {"RESERVING", "COPYING"} : Stepping(state)
     /\ c.state = "QUIESCING" => co.closed = c.txn
     /\ c.state = "COMMIT" /\ co.closed = c.txn =>
          CommitProved(c) /\ gen[c.slot].state # "ACTIVE"
     /\ c.state = "RETIRING" /\ co.closed = c.txn =>
          CandidateValid(c) /\ ~RetirementProved(c)
     /\ c.state = "ACTIVE" =>
          IF co.closed # 0 THEN gen[1 - c.slot].state # "RETIRED" ELSE ~Aborted(c)
     /\ EndStep /\ HelpersKeep /\ UNCHANGED <<ack, fault, engineVars>>

EngineCommits ==
  LET c == esnap
  IN /\ Stepping("COMMIT") /\ co.closed = c.txn
     /\ CommitProved(c) => gen[c.slot].state = "ACTIVE"
     /\ IF CommitProved(c)
        THEN /\ KeepAll(Ranks, PhaseAck(c, "COMMITTED", FALSE))
             /\ co' = [co EXCEPT !.committed = Ranks]
             /\ UNCHANGED <<gate, fault>>
        ELSE Fatal /\ UNCHANGED <<ack, co>>
     /\ EndStep /\ HelpersKeep /\ UNCHANGED <<led, closing, drained, owner>>

\* RETIRED needs the sealed closure, and a ledger still on the old generation;
\* a candidate that is no longer valid is fatal.
EngineRetires ==
  LET c == esnap
  IN /\ Stepping("RETIRING") /\ co.closed = c.txn
     /\ CandidateValid(c) => RetirementProved(c)
     /\ IF CandidateValid(c) /\ led.slot = 1 - c.slot
        THEN KeepAll(Ranks, PhaseAck(c, "RETIRED", FALSE)) /\ UNCHANGED <<gate, fault>>
        ELSE Fatal /\ UNCHANGED ack
     /\ EndStep /\ HelpersKeep /\ UNCHANGED <<led, closing, drained, owner, co>>

\* ACTIVE after a committed move: r3_moe_reopen_admission clears the drain
\* requests and reopens the ledger on the new epoch and slot.
EngineReopens ==
  LET c == esnap
      proved == /\ c.txn = co.closed /\ c.epoch = co.oldEpoch + 1
                /\ co.ready = Ranks /\ co.committed = Ranks
                /\ \A r \in Ranks : owner[r][c.slot] =
                     [epoch |-> c.epoch, map |-> c.map, event |-> "done"]
                /\ ctl.state = "ACTIVE" /\ ctl.epoch = c.epoch /\ ctl.slot = c.slot
  IN /\ Stepping("ACTIVE") /\ co.closed # 0 /\ gen[1 - c.slot].state = "RETIRED"
     /\ drained' = {}
     /\ \/ /\ proved
           /\ gate' = "open" /\ led' = [epoch |-> c.epoch, slot |-> c.slot]
           /\ Publish(FirstRank, ClosingAck(c, "REOPENED", FALSE))
           /\ co' = [co EXCEPT !.closed = 0, !.oldEpoch = 0]
           /\ UNCHANGED fault
        \/ /\ ~proved \/ "deadline" \in Failures    \* parks that never return
           /\ Fatal /\ UNCHANGED <<led, ack, co>>
     /\ EndStep /\ HelpersKeep /\ UNCHANGED <<closing, owner>>

\* ACTIVE after an abort: certify the inactive bank once its uploads ended.
EngineCleans ==
  LET c == esnap
      j == Record(c)
      mine == Issued(c)
      broken == {r \in mine : owner[r][1 - j.old].event = "failed"}
  IN /\ Stepping("ACTIVE") /\ co.closed = 0 /\ Aborted(c)
     /\ \/ /\ co.badAbort = c.txn /\ UNCHANGED <<ack, co>>
        \/ /\ co.badAbort # c.txn /\ broken # {}
           /\ co' = [co EXCEPT !.badAbort = c.txn]
           /\ \E r \in broken : Publish(r, ClosingAck(c, "CLEANED", TRUE))
        \/ /\ co.badAbort # c.txn /\ broken = {}
           /\ IF \A r \in mine : owner[r][1 - j.old].event = "done"
              THEN /\ PublishAll(Ranks, ClosingAck(c, "CLEANED", FALSE))
                   /\ co' = [co EXCEPT !.issued = {}, !.ready = {}, !.committed = {},
                                       !.uploaded = 0]
              ELSE UNCHANGED <<ack, co>>
     /\ EndStep /\ HelpersKeep
     /\ UNCHANGED <<fault, gate, led, closing, drained, owner>>

-----------------------------------------------------------------------------
(* The environment: copy streams, and helper processes that are killed,    *)
(* whose watcher raises the fault (moe_helper_watch.h).                    *)

StreamStep(h) ==
  /\ UploadLands(h) \/ ("upload" \in Failures /\ UploadErrs(h))
  /\ UNCHANGED <<ctlVars, ack, lpc, snap, reopen, halted, up, fault, esnap, engineVars>>

HelperDies(h) ==
  /\ "death" \in Failures /\ up = Helpers /\ ~fault
  /\ up' = up \ {h} /\ snap' = [snap EXCEPT ![h] = NoSnap]
  /\ lpc' = IF h = Leader THEN "idle" ELSE lpc
  /\ UNCHANGED <<poolVars, ctlVars, ack, reopen, halted, fault, esnap, engineVars>>

WatchRaises ==
  /\ up # Helpers /\ ~fault /\ fault' = TRUE
  /\ UNCHANGED <<poolVars, ctlVars, ack, lpc, snap, reopen, halted, up, esnap, engineVars>>

Tick(h) ==
  \/ TickFaulted(h) \/ TickInvalid(h) \/ TickIdle(h)
  \/ TickReserving(h) \/ TickCopying(h) \/ TickQuiescing(h) \/ TickCommit(h)
  \/ TickRetiring(h) \/ CleanupHalt(h) \/ TickCleanup(h) \/ TickReopened(h)
  \/ TickAwaitsReopen(h)

ControllerStep ==
  \/ CleanupFails \/ CleanupExpires \/ PollActive
  \/ PollAdvances \/ PollWaits \/ PollFails \/ PollCollects \/ RetireHeader

EngineStep ==
  \/ EngineStops \/ EngineReserving \/ EngineCopying \/ EngineCloses \/ EngineDrained
  \/ EngineIdles \/ EngineCommits \/ EngineRetires \/ EngineReopens \/ EngineCleans

\* Every process has stopped; nothing restarts one.
Ended == up = {} /\ gate = "faulted" /\ UNCHANGED placementVars

PlacementNext ==
  \/ \E h \in Helpers : Snapshot(h) \/ Tick(h) \/ StreamStep(h) \/ LanesDrain(h)
                        \/ HelperDies(h)
  \/ ControllerStep \/ EngineLooks \/ EngineStep \/ WatchRaises
  \/ \E r \in Ranks, g \in Generations : BitmapLands(r, g)
  \/ Ended

PlacementSpec == PlacementInit /\ [][PlacementNext]_placementVars

\* Each helper and the engine is a loop that keeps running, copies and lanes
\* make progress, a dead helper is noticed, and time passes: a cleanup that
\* never ends finds its deadline expired.
HelperLoop(h) == Snapshot(h) \/ Tick(h) \/ (h = Leader /\ ControllerStep)
EngineLoop == EngineLooks \/ EngineStep
Devices ==
  \/ \E h \in Helpers : StreamStep(h) \/ LanesDrain(h)
  \/ \E r \in Ranks, g \in Generations : BitmapLands(r, g)

Fairness ==
  /\ \A h \in Helpers : WF_placementVars(HelperLoop(h))
  /\ WF_placementVars(EngineLoop) /\ WF_placementVars(Devices)
  /\ WF_placementVars(WatchRaises) /\ SF_placementVars(CleanupExpires)

LivePlacementSpec == PlacementSpec /\ Fairness

-----------------------------------------------------------------------------
(* Properties.                                                             *)

Controls ==
  [state : DOMAIN Order, txn : 0 .. MaxTxn, epoch : 1 .. MaxTxn + 1,
   slot : Generations, map : OwnerMaps, cand : OwnerMaps \cup {NoMap},
   jix : 0 .. 1, fault : BOOLEAN]
Acks ==
  [phase : {AckOf[s] : s \in DOMAIN AckOf} \cup {"NONE", "CLEANED", "REOPENED"},
   txn : 0 .. MaxTxn, epoch : 0 .. MaxTxn + 1, map : OwnerMaps \cup {NoMap},
   slot : Generations, fault : BOOLEAN]

\* The shared records and the processes' private state have the fields and
\* ranges their structures declare.
PlacementTypeOK ==
  /\ PoolTypeOK
  /\ ctl \in Controls
  /\ \A a \in Actors : ack[a] \in Acks
  /\ \A h \in Helpers : snap[h] \in Controls \cup {NoSnap}
  /\ esnap \in Controls \cup {NoSnap}
  /\ lpc \in {"idle", "tick", "poll", "retire"}
  /\ up \subseteq Helpers /\ halted \subseteq Helpers /\ drained \subseteq Helpers
  /\ gate \in {"open", "closed", "faulted"} /\ led.slot \in Generations
  /\ \A r \in Ranks, g \in Generations :
       owner[r][g].event \in {"none", "busy", "done", "failed"}

\* While parents may be in flight, from admission to the proof of the drain,
\* every rank's owner bitmap of the generation in use is complete and each
\* expert it routes to a helper is in that helper's pointer table and in the
\* slot the table names: a move never takes weights from under a request.
RoutedExpertsResident ==
  gate = "open" \/ closing =>
    \A r \in Ranks, e \in Experts :
      LET b == owner[r][led.slot]
          i == bank[b.map[e]][led.slot][e]
      IN b.event = "done" /\ i # Nothing /\ weights[b.map[e]][i] = e

\* "No new proposal may overwrite a generation or its ACK identity until
\* engine reopen and every helper reclaim (or all aborts) have completed":
\* a proposal finds admission open on the generation it keeps, no participant
\* in a transaction, and no copy into what it will overwrite.
ProposalsFindAllIdle ==
  ctl.state = "PROPOSED" /\ ~fault =>
    /\ gate = "open" /\ led.slot = ctl.slot /\ led.epoch = ctl.epoch
    /\ \A h \in Helpers : part[h].txn = 0 /\ copy[h] # "busy"
    /\ \A r \in Ranks : owner[r][PendSlot(ctl)].event # "busy"

\* From the collection of READY to the end of the transaction all ranks and
\* helpers are prepared for the same map: no actor commits to a map that
\* another one has not got.
CommitIsUnanimous ==
  Order[ctl.state] >= Order["PREPARED"] /\ ~fault =>
    /\ \A h \in Helpers : /\ part[h].txn = ctl.txn /\ part[h].built
                          /\ \A e \in Owned(h, ctl.cand) :
                               bank[h][PendSlot(ctl)][e] # Nothing
    /\ \A r \in Ranks : owner[r][PendSlot(ctl)] =
         [epoch |-> PendEpoch(ctl), map |-> ctl.cand, event |-> "done"]

\* The engine sees one owner map at a time, always covered by resident
\* weights, exchanged only across a closed and drained admission.
Routing == INSTANCE OwnerSwitch WITH
  FirstMap <- InitialOwners,
  epoch <- led.epoch,
  owners <- owner[FirstRank][led.slot].map,
  admitting <- gate,
  held <- [h \in Helpers |-> {e \in Experts : \E i \in Ids(h) : weights[h][i] = e}]
RefinesOwnerSwitch == Routing!SwitchSpec

\* A transaction ends: every state from PROPOSED on leads back to ACTIVE, with
\* the new map or with the old one, or to the fault that stops the helpers.
TransactionEnds == ctl.state # "ACTIVE" ~> ctl.state = "ACTIVE" \/ fault

\* Closed admission reopens or fails: requests never wait at the gate for ever.
GateReopens == gate = "closed" ~> gate # "closed"

\* After a transaction, and after an abort, the actors clean up and the next
\* proposal may follow, or placement stops for good.
CleanupEnds == lead.await # 0 ~> PreviousClosed \/ lead.failed \/ fault

\* Where nothing fails no process raises the fault: the fault-free cycles of
\* moe_remote_epoch_test.cpp expect every tick and every step to succeed.
FaultsHaveACause == Failures = {} => ~fault
=============================================================================
