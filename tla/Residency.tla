------------------------------ MODULE Residency ------------------------------
(***************************************************************************)
(* Expert weights on the helpers of moe-remote: the slot pool of one       *)
(* helper (worker_slot_pool.h), the ledger that charges its slots          *)
(* (worker_residency.h) and the migration participant that moves experts   *)
(* through it (worker_move_slots.h).                                       *)
(*                                                                         *)
(* A pool has Budget[h] expert slots and one staging slot, all of the same *)
(* stride, so byte counts are slot counts.  Each action is one call of the *)
(* participant; its caller, the epoch driver, is in module Placement.  The *)
(* device pointers kept per expert (Runner::experts_) are `weights': what  *)
(* a slot is known to hold, Nothing from the moment an upload into it is   *)
(* queued until its event completes, and again once the expert is          *)
(* forgotten.                                                              *)
(***************************************************************************)
EXTENDS Integers, FiniteSets

CONSTANTS
  Helpers,     \* the helper processes
  Experts,     \* the experts owned by helpers, as indices 0 .. n
  Budget,      \* Budget[h]: expert slots h may hold between transactions
  InitialOwners  \* the bootstrap owner map

ASSUME ExpertsAreIndices == Experts \subseteq Nat /\ IsFiniteSet(Experts)
ASSUME BudgetAssumption == Budget \in [Helpers -> Nat]
ASSUME OwnersAssumption == InitialOwners \in [Experts -> Helpers]

VARIABLES
  slot,     \* slot[h][i]: the ledger's entry of physical slot i
  weights,  \* weights[h][i]: the expert whose weights slot i holds
  phys,     \* phys[h][g]: physical_[g], expert to slot in generation g
  bank,     \* bank[h][g]: the pointer table the lanes use in generation g
  part,     \* part[h]: the transaction the participant is in
  copy      \* copy[h]: the event of the upload in flight

poolVars == <<slot, weights, phys, bank, part, copy>>

Nothing == -1
Generations == 0 .. 1
OwnerMaps == [Experts -> Helpers]
Ids(h) == 0 .. Budget[h]

FreeSlot == [expert |-> Nothing, epoch |-> 0, state |-> "FREE"]
NoTable == [e \in Experts |-> Nothing]
NoPart == [txn |-> 0, epoch |-> 0, cand |-> Nothing, old |-> Nothing,
           gained |-> {}, lost |-> {}, built |-> FALSE, committed |-> FALSE,
           fault |-> FALSE]

Owned(h, m) == {e \in Experts : m[e] = h}
\* Pool::bootstrap refuses a resident that would take the staging slot.
ASSUME BootstrapFits ==
  \A h \in Helpers : Cardinality(Owned(h, InitialOwners)) <= Budget[h]

Free(h) == {i \in Ids(h) : slot[h][i].state = "FREE"}
Charged(h) == Ids(h) \ Free(h)
Below(S, x) == Cardinality({y \in S : y < x})

\* The slots of a pool are taken lowest first, for experts in index order.
Taken(experts, free) == {e \in experts : Below(experts, e) < Cardinality(free)}
\* Mutant: the slot is not marked before the next is chosen.
TakenLowest(experts, free, e) == CHOOSE i \in free : \A j \in free : i <= j
TakenBy(experts, free, e) ==
  CHOOSE i \in free : Below(free, i) = Below(experts, e)

-----------------------------------------------------------------------------
(* Bootstrap: Pool::bootstrap for every resident, Participant::initialize. *)

FirstTable(h) ==
  [e \in Experts |->
     IF InitialOwners[e] = h THEN Below(Owned(h, InitialOwners), e) ELSE Nothing]

PoolInit ==
  /\ phys = [h \in Helpers |-> [g \in Generations |->
               IF g = 0 THEN FirstTable(h) ELSE NoTable]]
  /\ bank = phys
  /\ weights = [h \in Helpers |-> [i \in Ids(h) |->
                  IF \E e \in Experts : FirstTable(h)[e] = i
                  THEN CHOOSE e \in Experts : FirstTable(h)[e] = i
                  ELSE Nothing]]
  /\ slot = [h \in Helpers |-> [i \in Ids(h) |->
               IF weights[h][i] = Nothing THEN FreeSlot
               ELSE [expert |-> weights[h][i], epoch |-> 1, state |-> "ACTIVE"]]]
  /\ part = [h \in Helpers |-> NoPart]
  /\ copy = [h \in Helpers |-> "idle"]

\* Slots of h that hold one of the experts E in generation g.
SlotsOf(h, g, E) == {phys[h][g][e] : e \in E} \ {Nothing}

-----------------------------------------------------------------------------
(* Participant::reserve for a transaction it has not seen.  Retained       *)
(* experts keep their slots; the committed budget is checked with the      *)
(* departures subtracted, the physical slots with nothing subtracted.      *)

OverBudget(h, gained, lost) ==
  Cardinality(Charged(h)) - Cardinality(lost) + Cardinality(gained) > Budget[h]

ReserveSlots(h, txn, epoch, old, cand, from, to) ==
  LET gained == Owned(h, to) \ Owned(h, from)
      lost   == Owned(h, from) \ Owned(h, to)
      over   == OverBudget(h, gained, lost)
      got    == IF over THEN {} ELSE Taken(gained, Free(h))
      at(e)  == TakenBy(gained, Free(h), e)
  IN /\ part[h].txn = 0
     /\ part' = [part EXCEPT ![h] =
          [NoPart EXCEPT !.txn = txn, !.epoch = epoch, !.cand = cand,
                         !.old = old, !.gained = gained, !.lost = lost,
                         !.fault = over \/ got # gained]]
     /\ phys' = [phys EXCEPT ![h][cand] = [e \in Experts |->
          IF e \in Owned(h, from) \cap Owned(h, to) THEN phys[h][old][e]
          ELSE IF e \in got THEN at(e) ELSE Nothing]]
     /\ slot' = [slot EXCEPT ![h] = [i \in Ids(h) |->
          IF \E e \in got : at(e) = i
          THEN [expert |-> CHOOSE e \in got : at(e) = i,
                epoch |-> epoch, state |-> "RESERVED"]
          ELSE slot[h][i]]]
     /\ UNCHANGED <<weights, bank, copy>>

-----------------------------------------------------------------------------
(* Participant::copy.  At most one upload is in flight; the call that      *)
(* finds its event complete marks the slot READY, then queues the next     *)
(* upload or, when none is left, builds the candidate's pointer table.     *)

Waiting(h) == {e \in part[h].gained : slot[h][phys[h][part[h].cand][e]].state = "RESERVED"}
Loading(h) == {i \in Ids(h) : slot[h][i].state = "COPYING"}

\* Ledger::plane_complete for every plane, then Ledger::ready.
Settled(h) ==
  [i \in Ids(h) |-> IF copy[h] = "done" /\ slot[h][i].state = "COPYING"
                    THEN [slot[h][i] EXCEPT !.state = "READY"] ELSE slot[h][i]]

\* Mutant: the event is not awaited.
CopyUnawaited(h) == part[h].txn # 0 /\ ~part[h].committed /\ ~part[h].built

CopyMayProceed(h) ==
  /\ part[h].txn # 0 /\ ~part[h].committed /\ ~part[h].built
  /\ copy[h] = "done" \/ (copy[h] = "idle" /\ Loading(h) = {})

StartUpload(h) ==
  LET e == CHOOSE x \in Waiting(h) : \A y \in Waiting(h) : x <= y
      i == phys[h][part[h].cand][e]
  IN /\ CopyMayProceed(h) /\ Waiting(h) # {}
     /\ slot' = [slot EXCEPT ![h] = [Settled(h) EXCEPT ![i].state = "COPYING"]]
     /\ weights' = [weights EXCEPT ![h][i] = Nothing]
     /\ copy' = [copy EXCEPT ![h] = "busy"]
     /\ UNCHANGED <<phys, bank, part>>

\* start_upload refused the copy: the ledger already says COPYING.
UploadRefused(h) ==
  LET e == CHOOSE x \in Waiting(h) : \A y \in Waiting(h) : x <= y
  IN /\ CopyMayProceed(h) /\ Waiting(h) # {}
     /\ slot' = [slot EXCEPT ![h] =
          [Settled(h) EXCEPT ![phys[h][part[h].cand][e]].state = "COPYING"]]
     /\ copy' = [copy EXCEPT ![h] = "idle"]
     /\ UNCHANGED <<weights, phys, bank, part>>

BuildBank(h) ==
  /\ CopyMayProceed(h) /\ Waiting(h) = {}
  /\ slot' = [slot EXCEPT ![h] = Settled(h)]
  /\ bank' = [bank EXCEPT ![h][part[h].cand] = phys[h][part[h].cand]]
  /\ part' = [part EXCEPT ![h].built = TRUE]
  /\ copy' = [copy EXCEPT ![h] = "idle"]
  /\ UNCHANGED <<weights, phys>>

\* copy() answers FAILED without changing anything.
CopyBroken(h) ==
  /\ ~part[h].built
  /\ copy[h] = "failed" \/ (copy[h] = "idle" /\ Loading(h) # {})

\* The private copy stream, outside the participant.
UploadLands(h) ==
  /\ copy[h] = "busy"
  /\ copy' = [copy EXCEPT ![h] = "done"]
  /\ weights' = [weights EXCEPT ![h] = [i \in Ids(h) |->
       IF i \in Loading(h) THEN slot[h][i].expert ELSE weights[h][i]]]
  /\ UNCHANGED <<slot, phys, bank, part>>

UploadErrs(h) ==
  /\ copy[h] = "busy"
  /\ copy' = [copy EXCEPT ![h] = "failed"]
  /\ UNCHANGED <<slot, weights, phys, bank, part>>

-----------------------------------------------------------------------------
(* Participant::commit, reclaim and abort.                                 *)

MayCommit(h, txn, epoch, g) ==
  /\ part[h].txn = txn /\ txn # 0 /\ part[h].built
  /\ part[h].cand = g /\ part[h].epoch = epoch

CommitSlots(h) ==
  LET arrived  == SlotsOf(h, part[h].cand, part[h].gained)
      departed == SlotsOf(h, part[h].old, part[h].lost)
  IN /\ slot' = [slot EXCEPT ![h] = [i \in Ids(h) |->
          IF i \in arrived THEN [slot[h][i] EXCEPT !.state = "ACTIVE"]
          ELSE IF i \in departed THEN [slot[h][i] EXCEPT !.state = "RETIRING"]
          ELSE slot[h][i]]]
     /\ part' = [part EXCEPT ![h].committed = TRUE]
     /\ UNCHANGED <<weights, phys, bank, copy>>

\* Free the slots S of h and forget generation g: the common end of reclaim
\* and abort.
Release(h, S, g) ==
  /\ slot' = [slot EXCEPT ![h] = [i \in Ids(h) |->
                IF i \in S THEN FreeSlot ELSE slot[h][i]]]
  /\ weights' = [weights EXCEPT ![h] = [i \in Ids(h) |->
                   IF i \in S THEN Nothing ELSE weights[h][i]]]
  /\ phys' = [phys EXCEPT ![h][g] = NoTable]
  /\ part' = [part EXCEPT ![h] = NoPart]

\* Mutant: the slots of the experts that left stay charged.
ReclaimNothing(h) ==
  part[h].committed /\ Release(h, {}, part[h].old) /\ UNCHANGED <<bank, copy>>

ReclaimSlots(h) ==
  /\ part[h].committed
  /\ Release(h, SlotsOf(h, part[h].old, part[h].lost), part[h].old)
  /\ UNCHANGED <<bank, copy>>

\* drain_upload synchronises the copy stream first, so nothing is in flight.
AbortMove(h) ==
  /\ part[h].txn # 0 /\ ~part[h].committed
  /\ Release(h, SlotsOf(h, part[h].cand, part[h].gained), part[h].cand)
  /\ copy' = [copy EXCEPT ![h] = "idle"]
  /\ UNCHANGED bank

-----------------------------------------------------------------------------
(* Properties of the pools.                                                *)

SlotStates == {"FREE", "RESERVED", "COPYING", "READY", "ACTIVE", "RETIRING"}

\* The pool's state is what the ledger and the participant declare.
PoolTypeOK ==
  /\ \A h \in Helpers :
       /\ slot[h] \in [Ids(h) -> [expert : Experts \cup {Nothing},
                                  epoch : Nat, state : SlotStates]]
       /\ weights[h] \in [Ids(h) -> Experts \cup {Nothing}]
       /\ phys[h] \in [Generations -> [Experts -> Ids(h) \cup {Nothing}]]
       /\ bank[h] \in [Generations -> [Experts -> Ids(h) \cup {Nothing}]]
  /\ part \in [Helpers -> [txn : Nat, epoch : Nat,
                           cand : Generations \cup {Nothing},
                           old : Generations \cup {Nothing},
                           gained : SUBSET Experts, lost : SUBSET Experts,
                           built : BOOLEAN, committed : BOOLEAN,
                           fault : BOOLEAN]]
  /\ copy \in [Helpers -> {"idle", "busy", "done", "failed"}]

\* A helper between transactions holds no more experts than its budget: the
\* staging slot a move borrows (worker_move_slots.h, "never steady-state
\* capacity") is back whenever the participant is idle, after a reclaim and
\* after every kind of abort.
StagingIsReturned ==
  \A h \in Helpers : part[h].txn = 0 =>
     /\ Cardinality(Charged(h)) <= Budget[h]
     /\ \A i \in Charged(h) : slot[h][i].state = "ACTIVE"

\* No expert is charged to two slots of a helper, and no two experts of a
\* generation share a slot, whatever the order of reserve, upload, commit,
\* reclaim and abort.
SlotsAreExclusive ==
  \A h \in Helpers :
    /\ \A i, j \in Charged(h) : slot[h][i].expert = slot[h][j].expert => i = j
    /\ \A g \in Generations : \A d, e \in Experts :
         phys[h][g][d] = phys[h][g][e] /\ d # e => phys[h][g][d] = Nothing
=============================================================================
