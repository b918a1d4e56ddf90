--------------------------- MODULE AdmissionLedger ---------------------------
(***************************************************************************)
(* The admission ledger of the remote-MoE engine hook                      *)
(* (engines/radiance/components/moe-remote/admission_ledger.h).            *)
(*                                                                         *)
(* The engine admits every scheduler parent step before it touches a GPU.  *)
(* An admitted parent owns a ticket (id, placement epoch, generation slot) *)
(* and an entry of a fixed ring indexed by id % Capacity.  A parent retires*)
(* in admission order, after its host completion and after every engine    *)
(* rank has proved that it consumed everything the parent published.  A    *)
(* placement move closes the gate, waits for the ring to drain and reopens *)
(* it with the next epoch and the other generation slot.                   *)
(*                                                                         *)
(* Every method of Ledger holds mu_ for its whole body, so each one is one *)
(* atomic step here.  Spec lets any client call any method at any time,    *)
(* with any answer of the completion query: it is what the ledger promises *)
(* whatever the engine, the GPU and the placement protocol do.  Admission  *)
(* composes it with the real clients.                                      *)
(***************************************************************************)
EXTENDS Integers

CONSTANTS
  Capacity,    \* ring size: RouteSlot banks + issue-ahead depth in the engine
  NRanks,      \* engine ranks of the running world
  MaxTicket,   \* the last ticket id (UINT64_MAX in the code)
  MaxEpoch     \* the last placement epoch a client may ask for

ASSUME LedgerAssumption ==
  /\ Capacity \in Nat \ {0}
  /\ NRanks \in Nat \ {0}
  /\ MaxTicket \in Nat
  /\ MaxEpoch \in Nat \ {0}

Ranks   == 0..(NRanks - 1)
Indices == 0..(Capacity - 1)
Epochs  == 1..MaxEpoch
Slots   == {0, 1}
Tickets == 1..MaxTicket

VARIABLES
  capacity,      \* 0 until configure() sized the ring, then Capacity
  ring,          \* the entries, indexed by ticket id modulo Capacity
  count,         \* outstanding parents
  lastId,        \* the youngest admitted id
  activeEpoch,   \* 0 until initialize()
  activeSlot,
  closed, interrupted, fault

ledgerVars == <<capacity, ring, count, lastId, activeEpoch, activeSlot,
                closed, interrupted, fault>>

Entry == [id: 0..MaxTicket, epoch: 0..MaxEpoch, slot: Slots,
          bound: BOOLEAN, hostDone: BOOLEAN, proven: SUBSET Ranks]

NoEntry == [id |-> 0, epoch |-> 0, slot |-> 0,
            bound |-> FALSE, hostDone |-> FALSE, proven |-> {}]

Init ==
  /\ capacity = 0
  /\ ring = [i \in Indices |-> NoEntry]
  /\ count = 0
  /\ lastId = 0
  /\ activeEpoch = 0
  /\ activeSlot = 0
  /\ closed = FALSE
  /\ interrupted = FALSE
  /\ fault = FALSE

-----------------------------------------------------------------------------
(* What the methods read.                                                  *)

Index(id) == id % Capacity

At(id) == ring[Index(id)]

(* Live ids are exactly (last_id_ - count_, last_id_]. *)
Live == (lastId - count + 1)..lastId

Stopped == interrupted \/ fault

ReferencesSlot(s) == \E id \in Live : At(id).slot = s

CanReplaceGeneration(s) ==
  /\ capacity # 0 /\ ~Stopped /\ activeEpoch # 0
  /\ s # activeSlot
  /\ ~ReferencesSlot(s)

(* An entry of the epoch being drained that was admitted before the cutoff *)
Pending(epoch, cutoff) ==
  \E id \in Live : At(id).id <= cutoff /\ At(id).epoch = epoch

AllRanksConsumed(epoch, cutoff) ==
  /\ ~Stopped /\ closed
  /\ activeEpoch = epoch /\ epoch # 0
  /\ cutoff >= lastId /\ count = 0

(* The ticket a rank was handed is still the live, bound one. *)
Valid(t) ==
  /\ t.id \in Live
  /\ At(t.id).bound
  /\ At(t.id).id = t.id /\ At(t.id).epoch = t.epoch /\ At(t.id).slot = t.slot

-----------------------------------------------------------------------------
(* Start-up.                                                               *)

Configure ==
  /\ capacity = 0 /\ ~Stopped
  /\ capacity' = Capacity
  /\ UNCHANGED <<ring, count, lastId, activeEpoch, activeSlot,
                 closed, interrupted, fault>>

Initialize(epoch, slot) ==
  /\ activeEpoch = 0
  /\ activeEpoch' = epoch
  /\ activeSlot' = slot
  /\ UNCHANGED <<capacity, ring, count, lastId, closed, interrupted, fault>>

Interrupt ==
  /\ interrupted' = TRUE
  /\ UNCHANGED <<capacity, ring, count, lastId, activeEpoch, activeSlot,
                 closed, fault>>

RaiseFault ==
  /\ fault' = TRUE
  /\ UNCHANGED <<capacity, ring, count, lastId, activeEpoch, activeSlot,
                 closed, interrupted>>

-----------------------------------------------------------------------------
(* Admission.                                                              *)

(* Mutant: the ring-full test admits one parent too many. *)
AllocateResultOffByOne ==
  IF interrupted THEN "Interrupted" ELSE IF fault THEN "Fault"
  ELSE IF closed THEN "Closed"
  ELSE IF capacity = 0 \/ activeEpoch = 0 THEN "Invalid"
  ELSE IF lastId = MaxTicket THEN "Fault"
  ELSE IF count > capacity THEN "Full" ELSE "Ok"

(* Mutant: the gate is not looked at. *)
AllocateResultUngated ==
  IF interrupted THEN "Interrupted" ELSE IF fault THEN "Fault"
  ELSE IF capacity = 0 \/ activeEpoch = 0 THEN "Invalid"
  ELSE IF lastId = MaxTicket THEN "Fault"
  ELSE IF count >= capacity THEN "Full" ELSE "Ok"

(* What allocate() answers.  admit() does not ask it while the gate is     *)
(* closed: it waits.                                                       *)
AllocateResult ==
  IF interrupted THEN "Interrupted" ELSE IF fault THEN "Fault"
  ELSE IF closed THEN "Closed"
  ELSE IF capacity = 0 \/ activeEpoch = 0 THEN "Invalid"
  ELSE IF lastId = MaxTicket THEN "Fault"
  ELSE IF count >= capacity THEN "Full" ELSE "Ok"

NewTicket == [id |-> lastId + 1, epoch |-> activeEpoch, slot |-> activeSlot]

Allocate ==
  /\ AllocateResult = "Ok"
  /\ ring' = [ring EXCEPT ![Index(lastId + 1)] =
                [id |-> lastId + 1, epoch |-> activeEpoch, slot |-> activeSlot,
                 bound |-> FALSE, hostDone |-> FALSE, proven |-> {}]]
  /\ lastId' = lastId + 1
  /\ count' = count + 1
  /\ UNCHANGED <<capacity, activeEpoch, activeSlot, closed, interrupted, fault>>

Bind(id) ==
  /\ id \in Live
  /\ ~At(id).bound
  /\ ring' = [ring EXCEPT ![Index(id)].bound = TRUE]
  /\ UNCHANGED <<capacity, count, lastId, activeEpoch, activeSlot,
                 closed, interrupted, fault>>

(* Only the unbound tail reservation can be returned, with its id. *)
Cancellable(id) == count # 0 /\ ~At(lastId).bound /\ At(lastId).id = id

(* Mutant: the cancelled reservation's id is not given back. *)
CancelKeepsId(id) ==
  /\ Cancellable(id)
  /\ ring' = [ring EXCEPT ![Index(lastId)] = NoEntry]
  /\ count' = count - 1
  /\ UNCHANGED <<capacity, lastId, activeEpoch, activeSlot,
                 closed, interrupted, fault>>

Cancel(id) ==
  /\ Cancellable(id)
  /\ ring' = [ring EXCEPT ![Index(lastId)] = NoEntry]
  /\ count' = count - 1
  /\ lastId' = lastId - 1
  /\ UNCHANGED <<capacity, activeEpoch, activeSlot, closed, interrupted, fault>>

(* Any other cancel means the bridge lost track of a reservation. *)
CancelRejected(id) == ~Cancellable(id) /\ RaiseFault

-----------------------------------------------------------------------------
(* Completion and retirement.                                              *)

(* Mutant: host completion alone retires a parent. *)
CompleteUnproven(e) == e.hostDone

Complete(e) == e.hostDone /\ e.proven = Ranks

(* retire_locked() over the entries rg: the longest complete prefix of the *)
(* outstanding parents leaves, and no more.                                *)
Retire(rg) ==
  \E k \in 0..count :
    LET first == lastId - count + 1 IN
    /\ \A id \in first..(first + k - 1) : Complete(rg[Index(id)])
    /\ k < count => ~Complete(rg[Index(first + k)])
    /\ ring' = [i \in Indices |->
                  IF \E id \in first..(first + k - 1) : Index(id) = i
                  THEN NoEntry ELSE rg[i]]
    /\ count' = count - k

HostComplete(id) ==
  /\ id \in Live
  /\ At(id).bound
  /\ Retire([ring EXCEPT ![Index(id)].hostDone = TRUE])
  /\ UNCHANGED <<capacity, lastId, activeEpoch, activeSlot,
                 closed, interrupted, fault>>

(* poll(prove): the pairs <<id, rank>> it asks about, given the answers    *)
(* prove.  Parents are scanned oldest first and ranks in order; a rank that*)
(* is pending for one parent is not asked for a younger one.               *)
Unproven(id, r) == At(id).hostDone /\ r \notin At(id).proven

Asked(prove) ==
  {p \in Live \X Ranks :
     /\ Unproven(p[1], p[2])
     /\ \A id \in Live : (id < p[1] /\ Unproven(id, p[2]))
                            => prove[<<id, p[2]>>] # "Pending"}

Precedes(p, q) ==
  \/ p[1] < q[1]
  \/ /\ p[1] = q[1]
     /\ p[2] < q[2]

FaultAnswers(prove) == {p \in Asked(prove) : prove[p] = "Fault"}

(* The scan stops at the first faulting answer and keeps what it proved    *)
(* before it.                                                              *)
NewlyProven(prove) ==
  {p \in Asked(prove) : /\ prove[p] = "Proven"
                        /\ \A q \in FaultAnswers(prove) : Precedes(p, q)}

Marked(prove) ==
  [i \in Indices |->
     [ring[i] EXCEPT !.proven =
        @ \cup {r \in Ranks : <<ring[i].id, r>> \in NewlyProven(prove)}]]

Proofs == {"Pending", "Proven", "Fault"}

Poll(prove) ==
  /\ ~Stopped
  /\ \/ /\ FaultAnswers(prove) # {}
        /\ ring' = Marked(prove)
        /\ fault' = TRUE
        /\ UNCHANGED count
     \/ /\ FaultAnswers(prove) = {}
        /\ Retire(Marked(prove))
        /\ UNCHANGED fault
  /\ UNCHANGED <<capacity, lastId, activeEpoch, activeSlot, closed, interrupted>>

-----------------------------------------------------------------------------
(* The placement gate.                                                     *)

CloseAdmission ==
  /\ closed' = TRUE
  /\ UNCHANGED <<capacity, ring, count, lastId, activeEpoch, activeSlot,
                 interrupted, fault>>

(* Mutant: the gate reopens over outstanding parents. *)
ReopenUndrained(epoch, slot) ==
  /\ ~Stopped /\ closed
  /\ epoch >= activeEpoch
  /\ epoch = activeEpoch => slot = activeSlot
  /\ activeEpoch' = epoch
  /\ activeSlot' = slot
  /\ closed' = FALSE
  /\ UNCHANGED <<capacity, ring, count, lastId, interrupted, fault>>

(* Mutant: a faulted ledger can be reopened. *)
ReopenStopped(epoch, slot) ==
  /\ closed /\ count = 0
  /\ epoch >= activeEpoch
  /\ epoch = activeEpoch => slot = activeSlot
  /\ activeEpoch' = epoch
  /\ activeSlot' = slot
  /\ closed' = FALSE
  /\ UNCHANGED <<capacity, ring, count, lastId, interrupted, fault>>

Reopen(epoch, slot) ==
  /\ ~Stopped /\ closed /\ count = 0
  /\ epoch >= activeEpoch
  /\ epoch = activeEpoch => slot = activeSlot
  /\ activeEpoch' = epoch
  /\ activeSlot' = slot
  /\ closed' = FALSE
  /\ UNCHANGED <<capacity, ring, count, lastId, interrupted, fault>>

(* wait_drained() past its deadline; before it, it changes nothing. *)
DrainTimeout(epoch, cutoff) ==
  /\ ~Stopped
  /\ Pending(epoch, cutoff)
  /\ RaiseFault

-----------------------------------------------------------------------------

Next ==
  \/ Configure
  \/ \E e \in Epochs, s \in Slots : Initialize(e, s)
  \/ Interrupt
  \/ RaiseFault
  \/ Allocate
  \/ \E id \in Tickets :
       \/ Bind(id)
       \/ Cancel(id)
       \/ CancelRejected(id)
       \/ HostComplete(id)
  \/ \E prove \in [Live \X Ranks -> Proofs] : Poll(prove)
  \/ CloseAdmission
  \/ \E e \in Epochs, s \in Slots : Reopen(e, s)
  \/ \E e \in Epochs, c \in Tickets : DrainTimeout(e, c)

Spec == Init /\ [][Next]_ledgerVars

-----------------------------------------------------------------------------
(* Properties.                                                             *)

(* The fields keep their types: a ring of entries, at most Capacity of     *)
(* them outstanding, ids from 1 to the last id.                            *)
TypeOK ==
  /\ capacity \in {0, Capacity}
  /\ ring \in [Indices -> Entry]
  /\ count \in 0..Capacity
  /\ lastId \in 0..MaxTicket
  /\ count <= lastId
  /\ activeEpoch \in 0..MaxEpoch
  /\ activeSlot \in Slots
  /\ closed \in BOOLEAN
  /\ interrupted \in BOOLEAN
  /\ fault \in BOOLEAN

(* Every outstanding id finds its own entry at id % Capacity, and every    *)
(* other ring slot is empty, whatever sequence of admissions, cancelled    *)
(* reservations (which give their id back) and retirements led here: two   *)
(* outstanding parents never share a slot of the ledger ring or of the     *)
(* consumption rings that use the same modulus.                            *)
RingOwned ==
  /\ \A id \in Live : At(id).id = id
  /\ \A i \in Indices :
       \/ ring[i] = NoEntry
       \/ /\ ring[i].id \in Live
          /\ Index(ring[i].id) = i

(* No parent spans an epoch flip: every outstanding ticket carries the     *)
(* active epoch and the active generation slot, so the other slot may be   *)
(* staged over.                                                            *)
EpochPure ==
  \A id \in Live : At(id).epoch = activeEpoch /\ At(id).slot = activeSlot

(* Once interrupted or faulted, the ledger admits nothing more, never      *)
(* reopens a closed gate and never moves to another epoch.                 *)
StopIsFinalStep ==
  Stopped =>
    /\ Stopped'
    /\ Live' \subseteq Live
    /\ (closed => closed')
    /\ (activeEpoch # 0 => (activeEpoch' = activeEpoch /\ activeSlot' = activeSlot))

StopIsFinal == [][StopIsFinalStep]_ledgerVars

(* Behind a closed gate the outstanding set only shrinks, and the gate     *)
(* opens again only over an empty ring.                                    *)
ClosedOnlyDrainsStep ==
  closed =>
    /\ Live' \subseteq Live
    /\ (~closed' => Live = {})

ClosedOnlyDrains == [][ClosedOnlyDrainsStep]_ledgerVars

=============================================================================
