--------------------------- MODULE AdmissionProofs ---------------------------
(***************************************************************************)
(* The real clients of the admission ledger use it as AdmissionLedger      *)
(* allows: every step of Admission is a step of the ledger or leaves it    *)
(* alone, so the ledger's invariants hold of the whole engine, for every   *)
(* ring size, number of ranks, passes, epochs and kind of failure.         *)
(***************************************************************************)
EXTENDS Admission, AdmissionLedgerProofs

(* Between the closing of the gate and its opening the snapshot names the  *)
(* active epoch, which is not the last one, and no upload is in flight.    *)
GateHeld == {"draining", "quiescing", "drained", "committed"}

PlaceInv ==
  /\ binding \in [Ranks -> [Slots -> 0..MaxEpoch]]
  /\ copying \subseteq Ranks
  /\ activeEpoch \in 1..MaxEpoch
  /\ activeSlot \in Slots
  /\ \A r \in copying : binding[r][1 - activeSlot] = 0 /\ activeEpoch < MaxEpoch
  /\ phase \in GateHeld => /\ copying = {}
                           /\ snap.epoch = activeEpoch
                           /\ activeEpoch < MaxEpoch

AdmissionInv == LedgerInv /\ PlaceInv

SameEpoch == UNCHANGED <<activeEpoch, activeSlot>>

-----------------------------------------------------------------------------

LEMMA InitAdmissionInv == AdmissionInit => AdmissionInv
<1> SUFFICES ASSUME AdmissionInit PROVE AdmissionInv
  OBVIOUS
<1>1. NoEntry \in Entry /\ NoEntry.id = 0
  BY LedgerAssumption DEF NoEntry, Entry, Slots
<1>2. ring \in [Indices -> Entry] /\ \A i \in Indices : ring[i] = NoEntry
  BY <1>1 DEF AdmissionInit
<1>3. TypeOK
  <2>1. /\ capacity \in {0, Capacity} /\ count \in 0..Capacity
        /\ lastId \in 0..MaxTicket /\ count <= lastId
        /\ activeEpoch \in 0..MaxEpoch /\ activeSlot \in Slots
    BY LedgerAssumption DEF AdmissionInit, Slots
  <2>2. closed \in BOOLEAN /\ interrupted \in BOOLEAN /\ fault \in BOOLEAN
    BY DEF AdmissionInit
  <2> QED
    BY <1>2, <2>1, <2>2 DEF TypeOK
<1>4. Live = {}
  BY DEF AdmissionInit, Live
<1>5. LedgerInv
  BY <1>2, <1>3, <1>4 DEF LedgerInv, RingOwned, EpochPure, AdmissionInit
<1>6. PlaceInv
  BY LedgerAssumption DEF AdmissionInit, PlaceInv, GateHeld, Slots
<1> QED
  BY <1>5, <1>6 DEF AdmissionInv

(* The completion query answers Pending, Proven or Fault. *)
LEMMA AnswersTyped == Answers \in [Live \X Ranks -> Proofs]
<1>1. \A id, r : Prove(id, r) \in Proofs
  BY DEF Prove, Proofs
<1> QED
  BY <1>1 DEF Answers

LEMMA PollIsLedgerStep ==
  ASSUME PollTickets
  PROVE  [Next]_ledgerVars /\ SameEpoch
<1>1. CASE helperFault
  BY <1>1 DEF PollTickets, FaultBecause, Next, RaiseFault, SameEpoch
<1>2. CASE ~helperFault /\ Stopped
  BY <1>2 DEF PollTickets, ledgerVars, SameEpoch
<1>3. CASE ~helperFault /\ ~Stopped
  <2>1. Poll(Answers)
    BY <1>3 DEF PollTickets
  <2>2. Next
    BY <2>1, AnswersTyped DEF Next
  <2> QED
    BY <2>1, <2>2 DEF Poll, SameEpoch
<1> QED
  BY <1>1, <1>2, <1>3

(* An outstanding id is a ticket. *)
LEMMA LiveAreTickets == TypeOK => Live \subseteq Tickets
  BY LedgerAssumption DEF TypeOK, Live, Tickets

LEMMA TicketCallsAreLedgerSteps ==
  ASSUME LedgerInv, NEW id
  PROVE  /\ Bind(id) => Next /\ SameEpoch
         /\ Cancel(id) => Next /\ SameEpoch
         /\ CancelRejected(id) => Next /\ SameEpoch
         /\ HostComplete(id) => Next /\ SameEpoch
         /\ Allocate => Next /\ SameEpoch
         /\ Interrupt => Next /\ SameEpoch
         /\ RaiseFault => Next /\ SameEpoch
         /\ CloseAdmission => Next /\ SameEpoch
<1>1. id \in Live => id \in Tickets
  BY LiveAreTickets DEF LedgerInv
<1>2. Bind(id) => Next /\ SameEpoch
  BY <1>1 DEF Next, Bind, SameEpoch
<1>3. Cancel(id) => Next /\ SameEpoch
  <2> SUFFICES ASSUME Cancel(id) PROVE Next /\ SameEpoch
    OBVIOUS
  <2>1. count # 0 /\ At(lastId).id = id
    BY DEF Cancel, Cancellable
  <2>2. lastId \in Live
    BY <2>1 DEF LedgerInv, TypeOK, Live
  <2>3. id \in Tickets
    BY <1>1, <2>1, <2>2 DEF LedgerInv, RingOwned
  <2> QED
    BY <2>3 DEF Next, Cancel, SameEpoch
<1>4. HostComplete(id) => Next /\ SameEpoch
  BY <1>1 DEF Next, HostComplete, SameEpoch
<1>5. Allocate => Next /\ SameEpoch
  BY DEF Next, Allocate, SameEpoch
<1>6. RaiseFault => Next /\ SameEpoch
  BY DEF Next, RaiseFault, SameEpoch
<1>7. CancelRejected(id) => Next /\ SameEpoch
  BY <1>6 DEF CancelRejected
<1>8. Interrupt => Next /\ SameEpoch
  BY DEF Next, Interrupt, SameEpoch
<1>9. CloseAdmission => Next /\ SameEpoch
  BY DEF Next, CloseAdmission, SameEpoch
<1> QED
  BY <1>2, <1>3, <1>4, <1>5, <1>6, <1>7, <1>8, <1>9

(* What leaves the ledger alone is a stutter of it. *)
LEMMA LedgerStutter ==
  ASSUME UNCHANGED ledgerVars
  PROVE  [Next]_ledgerVars /\ SameEpoch
  BY DEF ledgerVars, SameEpoch

-----------------------------------------------------------------------------
(* The scheduler bridge and the GPUs: ledger steps that leave the placement*)
(* thread's state and the epoch alone.                                     *)

LEMMA BridgeIsLedgerStep ==
  ASSUME AdmissionInv, Bridge
  PROVE  [Next]_ledgerVars /\ SameEpoch /\ UNCHANGED placeVars
<1>0. LedgerInv
  BY DEF AdmissionInv
<1>1. CASE BeginStep
  BY <1>1, LedgerStutter DEF BeginStep
<1>2. CASE FailLoop
  BY <1>0, <1>2, TicketCallsAreLedgerSteps DEF FailLoop
<1>3. CASE PollBeforeAdmit
  BY <1>3, PollIsLedgerStep DEF PollBeforeAdmit
<1>4. CASE Admit
  BY <1>0, <1>4, TicketCallsAreLedgerSteps DEF Admit, FaultBecause
<1>5. CASE DecideStep
  BY <1>0, <1>5, TicketCallsAreLedgerSteps DEF DecideStep
<1>6. CASE \E r \in Ranks : LaunchPass(r)
  BY <1>6, LedgerStutter DEF LaunchPass
<1>7. CASE PassRefused
  BY <1>7, LedgerStutter DEF PassRefused
<1>8. CASE SealParent
  BY <1>0, <1>8, LedgerStutter, TicketCallsAreLedgerSteps DEF SealParent, FaultBecause
<1>9. CASE PollBeforeAhead
  BY <1>9, LedgerStutter, PollIsLedgerStep DEF PollBeforeAhead
<1>10. CASE TryAhead
  BY <1>0, <1>10, LedgerStutter, TicketCallsAreLedgerSteps DEF TryAhead, FaultBecause
<1>11. CASE DecideAhead
  BY <1>0, <1>11, TicketCallsAreLedgerSteps DEF DecideAhead
<1>12. CASE HostDone
  BY <1>0, <1>12, LedgerStutter, TicketCallsAreLedgerSteps DEF HostDone
<1>13. CASE PollAfterHostDone
  BY <1>13, PollIsLedgerStep DEF PollAfterHostDone
<1> QED
  BY <1>1, <1>2, <1>3, <1>4, <1>5, <1>6, <1>7, <1>8, <1>9, <1>10, <1>11,
     <1>12, <1>13 DEF Bridge

(* A step that leaves the placement thread's state and the epoch alone     *)
(* keeps its invariant.                                                    *)
LEMMA SamePlaceInv ==
  ASSUME PlaceInv, SameEpoch, UNCHANGED placeVars
  PROVE  PlaceInv'
  BY DEF PlaceInv, SameEpoch, placeVars

-----------------------------------------------------------------------------
(* The placement thread.                                                   *)

LEMMA FatalStep ==
  ASSUME AdmissionInv, NEW why, Fatal(why)
  PROVE  [Next]_ledgerVars /\ PlaceInv'
<1>1. RaiseFault /\ phase' = "ended" /\ UNCHANGED <<binding, copying, snap>>
  BY DEF Fatal, FaultBecause
<1>2. Next /\ SameEpoch
  BY <1>1, TicketCallsAreLedgerSteps DEF AdmissionInv
<1> QED
  BY <1>1, <1>2 DEF AdmissionInv, PlaceInv, GateHeld, SameEpoch

LEMMA UploadStep ==
  ASSUME AdmissionInv, NEW r \in Ranks, UploadGeneration(r) \/ UploadDone(r)
  PROVE  [Next]_ledgerVars /\ PlaceInv'
<1>1. /\ [Next]_ledgerVars /\ SameEpoch
      /\ UNCHANGED <<phase, snap>>
  BY LedgerStutter DEF UploadGeneration, UploadDone
<1> DEFINE other == 1 - activeSlot
<1>2. /\ other \in Slots /\ PlaceInv /\ activeEpoch \in Int /\ MaxEpoch \in Int
      /\ activeEpoch' = activeEpoch /\ activeSlot' = activeSlot
  BY <1>1, LedgerAssumption DEF AdmissionInv, PlaceInv, Slots, SameEpoch
<1>3. CASE UploadGeneration(r)
  <2>1. /\ binding' = [binding EXCEPT ![r] = [binding[r] EXCEPT ![other] = 0]]
        /\ copying' = copying \cup {r}
        /\ activeEpoch < MaxEpoch /\ phase \notin GateHeld
    BY <1>3 DEF UploadGeneration, GateHeld
  <2>2. [binding[r] EXCEPT ![other] = 0] \in [Slots -> 0..MaxEpoch]
    BY <1>2, LedgerAssumption DEF PlaceInv
  <2>3. binding' \in [Ranks -> [Slots -> 0..MaxEpoch]] /\ copying' \subseteq Ranks
    BY <1>2, <2>1, <2>2 DEF PlaceInv
  <2>4. \A q \in copying' : binding'[q][other] = 0
    BY <1>2, <2>1 DEF PlaceInv
  <2> QED
    BY <1>1, <1>2, <2>1, <2>3, <2>4 DEF PlaceInv
<1>4. CASE UploadDone(r)
  <2>1. /\ binding' = [binding EXCEPT ![r] =
                         [binding[r] EXCEPT ![other] = activeEpoch + 1]]
        /\ copying' = copying \ {r} /\ r \in copying
    BY <1>4 DEF UploadDone
  <2>2. activeEpoch < MaxEpoch /\ phase \notin GateHeld
    BY <1>2, <2>1 DEF PlaceInv
  <2>3. [binding[r] EXCEPT ![other] = activeEpoch + 1] \in [Slots -> 0..MaxEpoch]
    BY <1>2, <2>2 DEF PlaceInv
  <2>4. binding' \in [Ranks -> [Slots -> 0..MaxEpoch]] /\ copying' \subseteq Ranks
    BY <1>2, <2>1, <2>3 DEF PlaceInv
  <2>5. \A q \in copying' : binding'[q][other] = 0
    BY <1>2, <2>1 DEF PlaceInv
  <2> QED
    BY <1>1, <1>2, <2>2, <2>4, <2>5 DEF PlaceInv
<1> QED
  BY <1>1, <1>3, <1>4

LEMMA CloseGateStep ==
  ASSUME AdmissionInv, CloseGate
  PROVE  [Next]_ledgerVars /\ PlaceInv'
<1>1. Next /\ SameEpoch
  BY TicketCallsAreLedgerSteps DEF AdmissionInv, CloseGate
<1>2. 0 \in Ranks /\ 1 - activeSlot \in Slots
  BY LedgerAssumption DEF Ranks, AdmissionInv, PlaceInv, Slots
<1>3. activeEpoch + 1 \in 0..MaxEpoch
  BY <1>2 DEF CloseGate, Staged, AdmissionInv, PlaceInv
<1>4. copying = {}
  BY DEF CloseGate, Staged, AdmissionInv, PlaceInv
<1>5. snap'.epoch = activeEpoch /\ UNCHANGED <<binding, copying>>
  BY DEF CloseGate
<1> QED
  BY <1>1, <1>3, <1>4, <1>5, LedgerAssumption DEF AdmissionInv, PlaceInv, SameEpoch

LEMMA ReopenGateStep ==
  ASSUME AdmissionInv, ReopenGate
  PROVE  [Next]_ledgerVars /\ PlaceInv'
<1>1. CASE Fatal("helper")
  BY <1>1, FatalStep
<1>2. CASE ~Fatal("helper")
  <2>1. /\ Reopen(snap.epoch + 1, 1 - activeSlot)
        /\ phase' = "serving" /\ UNCHANGED <<binding, copying, snap>>
    BY <1>2 DEF ReopenGate
  <2>2. /\ copying = {} /\ snap.epoch = activeEpoch
        /\ activeEpoch < MaxEpoch /\ activeEpoch \in 1..MaxEpoch
        /\ activeSlot \in Slots
    BY DEF ReopenGate, AdmissionInv, PlaceInv, GateHeld
  <2>3. snap.epoch + 1 \in Epochs /\ 1 - activeSlot \in Slots
    BY <2>2, LedgerAssumption DEF Epochs, Slots
  <2>4. Next
    BY <2>1, <2>3 DEF Next
  <2>5. activeEpoch' \in 1..MaxEpoch /\ activeSlot' \in Slots
    BY <2>1, <2>3 DEF Reopen, Epochs
  <2> QED
    BY <2>1, <2>2, <2>4, <2>5 DEF AdmissionInv, PlaceInv, GateHeld
<1> QED
  BY <1>1, <1>2

LEMMA PlacementStep ==
  ASSUME AdmissionInv, PlacementThread
  PROVE  [Next]_ledgerVars /\ PlaceInv'
<1>1. CASE \E r \in Ranks : UploadGeneration(r) \/ UploadDone(r)
  BY <1>1, UploadStep
<1>2. CASE CloseGate
  BY <1>2, CloseGateStep
<1>3. CASE DrainProgress
  <2>1. [Next]_ledgerVars /\ SameEpoch
    BY <1>3, LedgerStutter, PollIsLedgerStep DEF DrainProgress
  <2>2. phase \in GateHeld /\ UNCHANGED <<binding, copying, snap>>
    BY <1>3 DEF DrainProgress, GateHeld
  <2> QED
    BY <2>1, <2>2 DEF AdmissionInv, PlaceInv, SameEpoch
<1>4. CASE HelpersQuiesce \/ CommitPlacement \/ PlacementStops
  <2>1. [Next]_ledgerVars /\ SameEpoch
    BY <1>4, LedgerStutter DEF HelpersQuiesce, CommitPlacement, PlacementStops
  <2>2. /\ UNCHANGED <<binding, copying, snap>>
        /\ phase' \in GateHeld => phase \in GateHeld
    BY <1>4 DEF HelpersQuiesce, CommitPlacement, PlacementStops, GateHeld
  <2> QED
    BY <2>1, <2>2 DEF AdmissionInv, PlaceInv, SameEpoch
<1>5. CASE DrainFails
  BY <1>5, FatalStep DEF DrainFails
<1>6. CASE ReopenGate
  BY <1>6, ReopenGateStep
<1> QED
  BY <1>1, <1>2, <1>3, <1>4, <1>5, <1>6 DEF PlacementThread

-----------------------------------------------------------------------------

LEMMA AdmissionStep ==
  ASSUME AdmissionInv, [AdmissionNext]_vars
  PROVE  [Next]_ledgerVars /\ AdmissionInv'
<1>1. [Next]_ledgerVars /\ PlaceInv'
  <2>1. CASE Bridge
    BY <2>1, BridgeIsLedgerStep, SamePlaceInv DEF AdmissionInv
  <2>2. CASE (\E r \in Ranks : Exec(r)) \/ HelperFails \/ UNCHANGED vars
    <3>1. UNCHANGED ledgerVars /\ UNCHANGED placeVars
      BY <2>2 DEF Exec, HelperFails, vars
    <3> QED
      BY <3>1, LedgerStutter, SamePlaceInv DEF AdmissionInv
  <2>3. CASE PlacementThread
    BY <2>3, PlacementStep
  <2>4. CASE Shutdown
    BY <2>4, TicketCallsAreLedgerSteps, SamePlaceInv DEF AdmissionInv, Shutdown
  <2> QED
    BY <2>1, <2>2, <2>3, <2>4 DEF AdmissionNext
<1>2. LedgerInv'
  BY <1>1, NextLedgerInv DEF AdmissionInv
<1> QED
  BY <1>1, <1>2 DEF AdmissionInv

LEMMA AdmissionInvariant == AdmissionSpec => []AdmissionInv
<1>1. AdmissionInv /\ [AdmissionNext]_vars => AdmissionInv'
  BY AdmissionStep
<1> QED
  BY <1>1, InitAdmissionInv, PTL DEF AdmissionSpec

(* Scheduler, GPUs and placement thread together only ever take steps the  *)
(* ledger's own specification allows.                                      *)
THEOREM AdmissionLedgerSteps == AdmissionSpec => LedgerSteps
<1>1. AdmissionInv /\ [AdmissionNext]_vars => [Next]_ledgerVars
  BY AdmissionStep
<1> QED
  BY <1>1, AdmissionInvariant, PTL DEF AdmissionSpec, LedgerSteps

(* With the real clients too, two outstanding parents never share a ring   *)
(* slot and no outstanding parent is of another epoch or generation than   *)
(* the active one, however admissions and placement moves interleave.      *)
THEOREM AdmissionEpochPure == AdmissionSpec => [](RingOwned /\ EpochPure)
<1>1. AdmissionInv => RingOwned /\ EpochPure
  BY DEF AdmissionInv, LedgerInv
<1> QED
  BY <1>1, AdmissionInvariant, PTL

=============================================================================
