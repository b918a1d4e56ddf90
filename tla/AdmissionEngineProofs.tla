------------------------ MODULE AdmissionEngineProofs ------------------------
(***************************************************************************)
(* The engine around the ledger: what the scheduler bridge, the GPU streams*)
(* and the placement thread keep between them, for every ring size, number *)
(* of ranks, passes and requests, and every failure.                       *)
(*                                                                         *)
(* EngineInv ties a rank's stream to the ledger.  Everything queued is for *)
(* a bound, outstanding parent; once a parent is recorded its event is the *)
(* last thing queued for it; so a parent whose event has passed has nothing*)
(* left in the stream, and only such a parent is ever proven and retired.  *)
(***************************************************************************)
EXTENDS AdmissionProofs

-----------------------------------------------------------------------------
(* The scheduler bridge.                                                   *)

Pcs == {"idle", "poll", "admit", "decide", "run", "ahead", "tryAhead",
        "decideAhead", "host", "hostPoll", "failing", "failed"}

(* A parent the bridge runs: bound and not yet host-complete. *)
Held(t) == Valid(t) /\ ~At(t.id).hostDone

(* A parent the bridge has reserved and may still cancel: the youngest. *)
Reserved(t) ==
  /\ t.id = lastId /\ t.id \in Live
  /\ ~At(t.id).bound /\ ~At(t.id).hostDone
  /\ At(t.id).epoch = t.epoch /\ At(t.id).slot = t.slot

(* Passes may be launched, now or after the loop comes round. *)
Issuing == \/ pc = "run"
           \/ ahead # NoTicket /\ pc \in {"host", "hostPoll", "idle"}

BridgeTypes ==
  /\ pc \in Pcs
  /\ current \in Ticket /\ ahead \in Ticket /\ issued \in Ticket
  /\ passes \in [Ranks -> 0..MaxPasses]

BridgeInv ==
  /\ BridgeTypes
  /\ ahead # NoTicket => pc \in {"decideAhead", "host", "hostPoll", "idle", "failing", "failed"}
  /\ pc = "run" => issued = current
  /\ ahead # NoTicket /\ pc \in {"host", "hostPoll", "idle"} => issued = ahead
  /\ Issuing => Held(issued)
  /\ pc \in {"ahead", "tryAhead", "decideAhead", "host"} => Held(current)
  /\ pc = "host" => ahead.id # current.id
  /\ pc = "decide" => Reserved(current)
  /\ pc = "decideAhead" => Reserved(ahead)
  /\ pc \in {"poll", "admit", "tryAhead"} => lastId < MaxTicket
  /\ pc = "failing" /\ ~Stopped => helperFault

(* The gate: the active generation is resident on every rank, and the next *)
(* one is staged from the closing of the gate to its opening.              *)
GateInv ==
  /\ capacity = Capacity
  /\ phase \in Phases
  /\ \A r \in Ranks : binding[r][activeSlot] = activeEpoch
  /\ phase \in GateHeld => Staged
  /\ phase \in GateHeld /\ ~Stopped => closed
  /\ phase \in {"drained", "committed"} /\ ~Stopped => count = 0

(* Ranks are asked about host-complete parents only. *)
ParentInv == \A x \in Live : At(x).proven # {} => At(x).hostDone

-----------------------------------------------------------------------------
(* One rank's GPU.                                                         *)

Stamps == [id : 0..MaxTicket, epoch : 0..MaxEpoch, slot : Slots, published : Nat, consumed : Nat]

Gpus == [stream : Seq(Op), requests : 0..MaxRequests,
         dev : [Indices -> Stamps], host : [Indices -> Stamps],
         armed : [Indices -> Nat], recorded : [Indices -> Nat],
         trap : {"none", "helper"}]

Queue(r)       == 1..Len(gpu[r].stream)
Of(r, k)       == gpu[r].stream[k].ticket
IsOp(r, k, op) == gpu[r].stream[k].op = op
None(r, x)     == \A k \in Queue(r) : Of(r, k).id # x
Recorded(r, x) == gpu[r].recorded[Index(x)] = x

(* What is queued is for bound, outstanding parents. *)
StreamOK(r) == \A k \in Queue(r) : Valid(Of(r, k))

(* A publish has its finish right behind it. *)
PairOK(r) ==
  \A k \in Queue(r) :
    /\ IsOp(r, k, "publish") =>
         k + 1 \in Queue(r) /\ IsOp(r, k + 1, "finish") /\ Of(r, k + 1) = Of(r, k)
    /\ IsOp(r, k, "finish") /\ k > 1 => IsOp(r, k - 1, "publish")

(* Between two passes every count is even; inside one the difference is    *)
(* what the pass published.                                                *)
Between(r) == gpu[r].stream = <<>> \/ ~IsOp(r, 1, "finish")

BalanceOK(r) ==
  /\ \A i \in Indices :
       Between(r) \/ i # Index(Of(r, 1).id)
         => gpu[r].dev[i].published = gpu[r].dev[i].consumed
  /\ ~Between(r) =>
       LET s == gpu[r].dev[Index(Of(r, 1).id)] IN s.published = s.consumed + gpu[r].requests
  /\ Between(r) => gpu[r].requests = 0

(* A pass of parent x has armed the counting slot, or is queued before k. *)
Counts(r, x, k) ==
  \/ gpu[r].dev[Index(x)].id = x
  \/ \E m \in Queue(r) : m < k /\ IsOp(r, m, "publish") /\ Of(r, m).id = x

SealOK(r) == \A k \in Queue(r) : IsOp(r, k, "seal") => Counts(r, Of(r, k).id, k)

(* Whatever is queued for a recorded parent is before its event. *)
EventOK(r) ==
  \A k \in Queue(r) : Recorded(r, Of(r, k).id) =>
    \E m \in Queue(r) : m >= k /\ IsOp(r, m, "event") /\ Of(r, m).id = Of(r, k).id

(* What is written about parents is about admitted ones, and about bound   *)
(* ones while they are outstanding: a cancelled id leaves no trace.        *)
MarkOK(r) ==
  \A i \in Indices :
    /\ gpu[r].recorded[i] <= lastId
    /\ gpu[r].recorded[i] \in Live => At(gpu[r].recorded[i]).bound
    /\ gpu[r].dev[i].id <= lastId
    /\ gpu[r].dev[i].id \in Live => Valid(gpu[r].dev[i])

(* A recorded parent is armed, and its seal is queued or has matched. *)
SealedOK(r) ==
  \A x \in Live : Recorded(r, x) =>
    /\ gpu[r].armed[Index(x)] = x
    /\ \/ \E k \in Queue(r) : IsOp(r, k, "seal") /\ Of(r, k).id = x
       \/ SealMatches(gpu[r].host[Index(x)], At(x))

(* A rank that is proven has nothing queued. *)
ProvenOK(r) == \A x \in Live : r \in At(x).proven => None(r, x)

(* The parent being issued is not recorded yet, and is counted once a pass *)
(* was launched.                                                           *)
PassOK(r) ==
  Issuing =>
    /\ ~Recorded(r, issued.id)
    /\ passes[r] > 0 => /\ gpu[r].armed[Index(issued.id)] = issued.id
                        /\ Counts(r, issued.id, Len(gpu[r].stream) + 1)

(* The passes of a parent can be numbered: what it has published so far    *)
(* fits into the passes before the queued ones.                            *)
Room(n) == n * MaxRequests

Done(r, x) == IF gpu[r].dev[Index(x)].id = x THEN gpu[r].dev[Index(x)].published ELSE 0

Numbers(r, no) ==
  /\ no \in [Queue(r) -> 1..MaxPasses]
  /\ \A k \in Queue(r) : IsOp(r, k, "publish") =>
       /\ Done(r, Of(r, k).id) <= Room(no[k] - 1)
       /\ Issuing /\ Of(r, k).id = issued.id => no[k] <= passes[r]
       /\ \A m \in Queue(r) :
            k < m /\ IsOp(r, m, "publish") /\ Of(r, m).id = Of(r, k).id => no[k] < no[m]

Bounded(s) == s.published <= Room(MaxPasses) /\ s.consumed <= Room(MaxPasses)

CountOK(r) ==
  /\ \A i \in Indices : Bounded(gpu[r].dev[i]) /\ Bounded(gpu[r].host[i])
  /\ Issuing => Done(r, issued.id) <= Room(passes[r])
  /\ \E no : Numbers(r, no)

RankInv(r) ==
  /\ StreamOK(r) /\ PairOK(r) /\ BalanceOK(r) /\ SealOK(r) /\ EventOK(r)
  /\ MarkOK(r) /\ SealedOK(r) /\ ProvenOK(r) /\ PassOK(r) /\ CountOK(r)

GpuInv ==
  /\ gpu \in [Ranks -> Gpus]
  /\ \A r \in Ranks : RankInv(r)

EngineInv ==
  /\ AdmissionInv
  /\ BridgeInv
  /\ GateInv
  /\ ParentInv
  /\ GpuInv
  /\ FaultsAreExternal

-----------------------------------------------------------------------------
(* What the ledger's calls do to the parents.                              *)

(* Parent x stays outstanding with its ticket. *)
Survives(x) ==
  /\ x \in Live'
  /\ At(x)'.epoch = At(x).epoch /\ At(x)'.slot = At(x).slot
  /\ At(x).bound => At(x)'.bound

(* No outstanding parent but a new one appears. *)
ParentsKept == \A x \in Live' : x <= lastId => x \in Live /\ Survives(x)

(* Unfinished parents other than x stay as they are. *)
UnfinishedKept(x) ==
  \A y \in Live : y # x /\ ~At(y).hostDone =>
    Survives(y) /\ At(y)'.bound = At(y).bound /\ ~At(y)'.hostDone

(* An id is given back only unbound. *)
LastKept ==
  \/ lastId <= lastId'
  \/ lastId' = lastId - 1 /\ lastId \in Live /\ ~At(lastId).bound

(* A bound parent that leaves has nothing queued on any rank. *)
LeaversDrained ==
  \A x \in Live : At(x).bound /\ x \notin Live' => \A r \in Ranks : None(r, x)

(* What is proven after the step has nothing queued. *)
ProvenDrained ==
  \A x \in Live' : \A r \in Ranks : r \in At(x)'.proven => None(r, x)

LedgerMoves == ParentsKept /\ LastKept /\ LeaversDrained /\ ProvenDrained /\ ParentInv'

(* An outstanding parent's entry. *)
LEMMA LiveEntries ==
  ASSUME LedgerInv
  PROVE  /\ lastId \in Nat /\ count \in Nat /\ lastId <= MaxTicket
         /\ \A x \in Live : /\ x \in Nat /\ x # 0 /\ x <= lastId
                            /\ Index(x) \in Indices
                            /\ At(x) \in Entry /\ At(x).id = x
                            /\ At(x).epoch = activeEpoch /\ At(x).slot = activeSlot
         /\ \A x, y \in Live : Index(x) = Index(y) => x = y
         /\ count # 0 => lastId \in Live
         /\ count = 0 => Live = {}
<1>1. TypeOK /\ RingOwned /\ EpochPure
  BY DEF LedgerInv
<1>2. lastId \in Nat /\ count \in Nat /\ lastId <= MaxTicket /\ count <= lastId
  BY <1>1, LedgerAssumption DEF TypeOK
<1>3. ASSUME NEW x \in Live
      PROVE  /\ x \in Nat /\ x # 0 /\ x <= lastId /\ Index(x) \in Indices
             /\ At(x) \in Entry /\ At(x).id = x
             /\ At(x).epoch = activeEpoch /\ At(x).slot = activeSlot
  <2>1. x \in Nat /\ x # 0 /\ x <= lastId /\ Index(x) \in Indices
    BY <1>1, LiveIds
  <2> QED BY <1>1, <2>1 DEF At, TypeOK, RingOwned, EpochPure
<1>4. \A x, y \in Live : Index(x) = Index(y) => x = y
  BY <1>1, LiveIds
<1>5. /\ count # 0 => lastId \in Live
      /\ count = 0 => Live = {}
  BY <1>2 DEF Live
<1> QED BY <1>2, <1>3, <1>4, <1>5

(* What LiveEntries says, as one formula. *)
OwnEntries ==
  /\ lastId \in Nat /\ count \in Nat
  /\ count # 0 => lastId \in Live
  /\ \A x \in Live : /\ x \in Nat /\ x # 0 /\ x <= lastId /\ Index(x) \in Indices
                     /\ At(x) \in Entry /\ At(x).id = x
                     /\ At(x).epoch = activeEpoch /\ At(x).slot = activeSlot

(* The entries of the next state are the live parents' own as well. *)
LEMMA LiveLater == LedgerInv' => OwnEntries'
<1>1. LedgerInv => OwnEntries
  BY LiveEntries DEF OwnEntries
<1> QED BY <1>1, PTL

(* A ledger step that leaves the ring alone. *)
LEMMA RingAlone ==
  ASSUME EngineInv, UNCHANGED <<ring, count, lastId>>
  PROVE  LedgerMoves /\ UnfinishedKept(0)
<1>1. Live' = Live /\ \A x : At(x)' = At(x)
  BY DEF Live, At
<1>2. ProvenDrained
  BY <1>1 DEF EngineInv, GpuInv, RankInv, ProvenOK, ProvenDrained
<1>3. ParentInv'
  BY <1>1 DEF EngineInv, ParentInv
<1>4. ParentsKept /\ LastKept /\ LeaversDrained /\ UnfinishedKept(0)
  <2>1. lastId \in Nat BY LiveEntries DEF EngineInv, AdmissionInv
  <2> QED BY <1>1, <2>1 DEF ParentsKept, LastKept, LeaversDrained, UnfinishedKept, Survives
<1> QED BY <1>2, <1>3, <1>4 DEF LedgerMoves

(* admit(): a new parent. *)
LEMMA AllocateMoves ==
  ASSUME EngineInv, Allocate
  PROVE  /\ LedgerMoves /\ UnfinishedKept(0)
         /\ lastId' = lastId + 1 /\ ~closed /\ ~Stopped
         /\ \A t : t = NewTicket => Reserved(t)'
<1> DEFINE new == [id |-> lastId + 1, epoch |-> activeEpoch, slot |-> activeSlot,
                   bound |-> FALSE, hostDone |-> FALSE, proven |-> {}]
<1>p. PICK x : x = lastId + 1
  OBVIOUS
<1>n. PICK e : e = new
  OBVIOUS
<1>0. LedgerInv /\ TypeOK
  BY DEF EngineInv, AdmissionInv, LedgerInv
<1>1. /\ capacity = Capacity /\ count < Capacity /\ ~closed /\ ~Stopped
      /\ ring' = [ring EXCEPT ![Index(x)] = e]
      /\ lastId' = lastId + 1 /\ count' = count + 1
  BY <1>0, <1>p, <1>n, LedgerAssumption DEF Allocate, AllocateResult, TypeOK, Stopped
<1>2. x \in Nat /\ Index(x) \in Indices /\ lastId \in Nat /\ count \in Nat
  BY <1>0, <1>p, LiveEntries, IndexInRing
<1>3. Live' = Live \cup {x}
  BY <1>0, <1>1, <1>2, <1>p DEF Live, TypeOK
<1>4. \A y \in Live : Index(y) # Index(x)
  <2> SUFFICES ASSUME NEW y \in Live, Index(y) = Index(x) PROVE FALSE
    OBVIOUS
  <2>1. y \in Nat /\ y <= lastId /\ x - y < Capacity /\ y - x < Capacity
    BY <1>0, <1>1, <1>2, <1>p, LedgerAssumption DEF Live, TypeOK
  <2> QED
    BY <1>2, <1>p, <2>1, IndexInjective
<1>5. At(x)' = e /\ \A y \in Live : At(y)' = At(y)
  BY <1>0, <1>1, <1>2, <1>4, LiveEntries DEF At, TypeOK
<1>6. e.proven = {} /\ ~e.bound /\ ~e.hostDone /\ e.epoch = activeEpoch /\ e.slot = activeSlot
  BY <1>n
<1> HIDE DEF new
<1>7. ParentsKept /\ LastKept /\ LeaversDrained /\ UnfinishedKept(0)
  BY <1>1, <1>2, <1>3, <1>5, <1>p DEF ParentsKept, LastKept, LeaversDrained, UnfinishedKept, Survives
<1>8. ProvenDrained
  BY <1>3, <1>5, <1>6 DEF EngineInv, GpuInv, RankInv, ProvenOK, ProvenDrained
<1>9. ParentInv'
  BY <1>3, <1>5, <1>6 DEF EngineInv, ParentInv
<1>10. ASSUME NEW t, t = NewTicket PROVE Reserved(t)'
  <2>1. t.id = x /\ t.epoch = activeEpoch /\ t.slot = activeSlot
    BY <1>10, <1>p DEF NewTicket
  <2> QED BY <1>1, <1>3, <1>5, <1>6, <1>p, <2>1 DEF Reserved
<1> QED BY <1>1, <1>7, <1>8, <1>9, <1>10 DEF LedgerMoves

(* bind(): a reservation becomes a parent that runs. *)
LEMMA BindMoves ==
  ASSUME EngineInv, NEW id, Bind(id)
  PROVE  /\ LedgerMoves /\ UnfinishedKept(id) /\ UNCHANGED <<lastId, count>>
         /\ Survives(id) /\ At(id)'.bound /\ At(id)'.hostDone = At(id).hostDone
<1>0. LedgerInv /\ TypeOK
  BY DEF EngineInv, AdmissionInv, LedgerInv
<1> DEFINE f == [ring[Index(id)] EXCEPT !.bound = TRUE]
<1>1. id \in Live /\ ring' = [ring EXCEPT ![Index(id)] = f] /\ UNCHANGED <<lastId, count>>
  BY DEF Bind
<1>2. Index(id) \in Indices /\ ring[Index(id)] \in Entry /\ At(id) = ring[Index(id)]
  BY <1>0, <1>1, LiveEntries DEF At
<1>3. /\ f.epoch = At(id).epoch /\ f.slot = At(id).slot /\ f.bound /\ f.hostDone = At(id).hostDone
      /\ f.proven = At(id).proven
  BY <1>2 DEF Entry
<1> HIDE DEF f
<1>4. Live' = Live /\ lastId \in Nat
  BY <1>0, <1>1, LiveEntries DEF Live
<1>5. At(id)' = f /\ \A y \in Live : y # id => At(y)' = At(y)
  BY <1>0, <1>1, <1>2, LiveEntries DEF At, TypeOK
<1>6. ParentsKept /\ LastKept /\ LeaversDrained /\ UnfinishedKept(id)
  BY <1>1, <1>3, <1>4, <1>5 DEF ParentsKept, LastKept, LeaversDrained, UnfinishedKept, Survives
<1>7. ASSUME NEW y \in Live PROVE At(y)'.proven = At(y).proven /\ At(y)'.hostDone = At(y).hostDone
  BY <1>3, <1>5
<1>8. ProvenDrained
  BY <1>4, <1>7 DEF EngineInv, GpuInv, RankInv, ProvenOK, ProvenDrained
<1>9. ParentInv'
  BY <1>4, <1>7 DEF EngineInv, ParentInv
<1> QED BY <1>1, <1>3, <1>4, <1>5, <1>6, <1>8, <1>9 DEF LedgerMoves, Survives

(* cancel(): the reservation's id is given back. *)
LEMMA CancelMoves ==
  ASSUME EngineInv, NEW id, Cancel(id)
  PROVE  LedgerMoves /\ UnfinishedKept(id)
<1>0. LedgerInv /\ TypeOK
  BY DEF EngineInv, AdmissionInv, LedgerInv
<1>1. /\ count # 0 /\ ~At(lastId).bound /\ At(lastId).id = id
      /\ ring' = [ring EXCEPT ![Index(lastId)] = NoEntry]
      /\ count' = count - 1 /\ lastId' = lastId - 1
  BY DEF Cancel, Cancellable
<1>2. lastId \in Live /\ id = lastId /\ lastId \in Nat /\ count \in Nat
  BY <1>0, <1>1, LiveEntries
<1>3. Live' = Live \ {lastId}
  BY <1>1, <1>2 DEF Live
<1>4. \A y \in Live' : At(y)' = At(y)
  BY <1>0, <1>1, <1>2, <1>3, LiveEntries DEF At, TypeOK
<1>5. ParentsKept /\ LastKept /\ LeaversDrained /\ UnfinishedKept(id)
  BY <1>1, <1>2, <1>3, <1>4 DEF ParentsKept, LastKept, LeaversDrained, UnfinishedKept, Survives
<1>6. ProvenDrained
  BY <1>3, <1>4 DEF EngineInv, GpuInv, RankInv, ProvenOK, ProvenDrained
<1>7. ParentInv'
  BY <1>3, <1>4 DEF EngineInv, ParentInv
<1> QED BY <1>5, <1>6, <1>7 DEF LedgerMoves

-----------------------------------------------------------------------------
(* Retirement never overtakes the GPU.                                     *)

(* A recorded parent whose event has passed has nothing queued, and its    *)
(* seal has matched.                                                       *)
LEMMA PassedEvent ==
  ASSUME EngineInv, NEW r \in Ranks, NEW x \in Live, Recorded(r, x), ~EventPending(r, Index(x))
  PROVE  /\ None(r, x) /\ gpu[r].armed[Index(x)] = x
         /\ SealMatches(gpu[r].host[Index(x)], At(x))
<1>1. gpu[r].stream \in Seq(Op) /\ RankInv(r)
  BY DEF EngineInv, GpuInv, Gpus
<1>2. DOMAIN gpu[r].stream = Queue(r)
  BY <1>1 DEF Queue
<1>3. None(r, x)
  <2> SUFFICES ASSUME NEW k \in Queue(r), Of(r, k).id = x PROVE FALSE
    BY DEF None
  <2>1. PICK m \in Queue(r) : IsOp(r, m, "event") /\ Of(r, m).id = x
    BY <1>1 DEF RankInv, EventOK
  <2> QED BY <1>2, <2>1 DEF EventPending, IsOp, Of
<1> QED BY <1>1, <1>3 DEF RankInv, SealedOK, None

(* The completion query proves only what is done, and faults only over a   *)
(* kernel that trapped.                                                    *)
LEMMA AnswersAreRight ==
  ASSUME EngineInv, NEW r \in Ranks, NEW x \in Live
  PROVE  /\ Prove(x, r) = "Proven" => None(r, x)
         /\ Prove(x, r) = "Fault" => gpu[r].trap = "helper"
<1>1. CASE Recorded(r, x) /\ ~EventPending(r, Index(x))
  BY <1>1, PassedEvent DEF Prove, Recorded
<1>2. CASE Recorded(r, x) /\ EventPending(r, Index(x))
  <2>1. gpu[r].trap \in {"none", "helper"}
    BY DEF EngineInv, GpuInv, Gpus
  <2> QED BY <1>2, <2>1 DEF Prove, Recorded
<1>3. CASE ~Recorded(r, x)
  BY <1>3 DEF Prove, Recorded
<1> QED BY <1>1, <1>2, <1>3

(* retire_locked(): who leaves was complete, who stays is untouched. *)
LEMMA RetireMoves ==
  ASSUME LedgerInv, NEW rg, SameTickets(rg), Retire(rg), lastId' = lastId
  PROVE  /\ Live' \subseteq Live
         /\ \A x \in Live' : At(x)' = rg[Index(x)]
         /\ \A x \in Live \ Live' : Complete(rg[Index(x)])
<1>p. PICK first : first = lastId - count + 1
  OBVIOUS
<1>1. PICK k \in 0..count :
        /\ \A id \in first..(first + k - 1) : Complete(rg[Index(id)])
        /\ ring' = [i \in Indices |->
                      IF \E id \in first..(first + k - 1) : Index(id) = i
                      THEN NoEntry ELSE rg[i]]
        /\ count' = count - k
  BY <1>p DEF Retire
<1>2. /\ count \in Nat /\ lastId \in Nat /\ k \in Nat /\ k <= count /\ count <= lastId /\ first \in Nat
  BY <1>p, LedgerAssumption DEF LedgerInv, TypeOK
<1>3. Live' = (first + k)..lastId /\ Live = first..lastId
  BY <1>1, <1>2, <1>p DEF Live
<1>4. Live' \subseteq Live
  BY <1>2, <1>3
<1>5. ASSUME NEW x \in Live' PROVE At(x)' = rg[Index(x)]
  <2>1. x \in Live /\ Index(x) \in Indices
    BY <1>4, LiveEntries
  <2>2. \A j \in first..(first + k - 1) : j \in Live /\ j # x
    BY <1>2, <1>3
  <2>3. \A j \in first..(first + k - 1) : Index(j) # Index(x)
    BY <2>1, <2>2, LiveEntries
  <2> QED BY <1>1, <2>1, <2>3 DEF At
<1>6. ASSUME NEW x \in Live \ Live' PROVE Complete(rg[Index(x)])
  <2>1. x \in first..(first + k - 1)
    BY <1>2, <1>3
  <2> QED BY <1>1, <2>1
<1> QED BY <1>4, <1>5, <1>6

(* A ring with the same tickets whose proofs are right. *)
Faithful(rg, x) ==
  \A y \in Live :
    LET e == rg[Index(y)] IN
    /\ e.epoch = At(y).epoch /\ e.slot = At(y).slot /\ e.bound = At(y).bound
    /\ y # x => e.hostDone = At(y).hostDone
    /\ e.proven # {} => e.hostDone
    /\ \A r \in Ranks : r \in e.proven => None(r, y)

(* Marking and retiring. *)
LEMMA FaithfulRetire ==
  ASSUME EngineInv, NEW rg, NEW x, SameTickets(rg), Faithful(rg, x), lastId' = lastId,
         Retire(rg) \/ (ring' = rg /\ count' = count)
  PROVE  LedgerMoves /\ UnfinishedKept(x) /\ Live' \subseteq Live
<1>0. LedgerInv /\ lastId \in Nat
  BY LiveEntries DEF EngineInv, AdmissionInv
<1>1. /\ Live' \subseteq Live
      /\ \A y \in Live' : At(y)' = rg[Index(y)]
      /\ \A y \in Live \ Live' : Complete(rg[Index(y)])
  <2>1. CASE Retire(rg)
    BY <1>0, <2>1, RetireMoves
  <2>2. CASE ring' = rg /\ count' = count
    BY <2>2 DEF Live, At
  <2> QED BY <2>1, <2>2
<1>2. ParentsKept
  BY <1>1 DEF ParentsKept, Survives, Faithful
<1>3. LastKept
  BY <1>0 DEF LastKept
<1>4. LeaversDrained
  <2> SUFFICES ASSUME NEW y \in Live, y \notin Live', NEW r \in Ranks PROVE None(r, y)
    BY DEF LeaversDrained
  <2>1. r \in rg[Index(y)].proven
    BY <1>1 DEF Complete
  <2> QED BY <2>1 DEF Faithful
<1>5. ProvenDrained
  BY <1>1 DEF ProvenDrained, Faithful
<1>6. ParentInv'
  BY <1>1 DEF ParentInv, Faithful
<1>7. UnfinishedKept(x)
  <2> SUFFICES ASSUME NEW y \in Live, y # x, ~At(y).hostDone
               PROVE  Survives(y) /\ At(y)'.bound = At(y).bound /\ ~At(y)'.hostDone
    BY DEF UnfinishedKept
  <2>1. ~rg[Index(y)].hostDone
    BY DEF Faithful
  <2>2. y \in Live'
    BY <1>1, <2>1 DEF Complete
  <2> QED BY <1>1, <2>1, <2>2 DEF Survives, Faithful
<1> QED BY <1>1, <1>2, <1>3, <1>4, <1>5, <1>6, <1>7 DEF LedgerMoves

(* host_complete(): the parent is finished on the host. *)
LEMMA HostCompleteMoves ==
  ASSUME EngineInv, NEW id, HostComplete(id)
  PROVE  LedgerMoves /\ UnfinishedKept(id) /\ Live' \subseteq Live
<1>0. LedgerInv /\ TypeOK
  BY DEF EngineInv, AdmissionInv, LedgerInv
<1>1. /\ id \in Live /\ Index(id) \in Indices /\ id # 0 /\ ring[Index(id)] \in Entry
      /\ ring[Index(id)].id = id /\ At(id) = ring[Index(id)]
  BY <1>0, LiveEntries DEF HostComplete, At
<1> DEFINE f == [ring[Index(id)] EXCEPT !.hostDone = TRUE]
           rg == [ring EXCEPT ![Index(id)] = f]
<1>2. Retire(rg) /\ lastId' = lastId
  BY DEF HostComplete
<1>3. /\ f \in Entry /\ f.id = At(id).id /\ f.epoch = At(id).epoch /\ f.slot = At(id).slot
      /\ f.bound = At(id).bound /\ f.hostDone /\ f.proven = At(id).proven
  BY <1>1 DEF Entry
<1> HIDE DEF f
<1>4. SameTickets(rg)
  BY <1>0, <1>1, <1>3, OneEntrySameTickets
<1>5. rg[Index(id)] = f /\ \A y \in Live : y # id => rg[Index(y)] = At(y)
  BY <1>0, <1>1, LiveEntries DEF At, TypeOK
<1> HIDE DEF rg
<1>6. Faithful(rg, id)
  <2> SUFFICES ASSUME NEW y \in Live
               PROVE  /\ rg[Index(y)].epoch = At(y).epoch /\ rg[Index(y)].slot = At(y).slot
                      /\ rg[Index(y)].bound = At(y).bound
                      /\ y # id => rg[Index(y)].hostDone = At(y).hostDone
                      /\ rg[Index(y)].proven # {} => rg[Index(y)].hostDone
                      /\ \A r \in Ranks : r \in rg[Index(y)].proven => None(r, y)
    BY DEF Faithful
  <2>1. rg[Index(y)].proven = At(y).proven
    BY <1>3, <1>5
  <2>2. \A r \in Ranks : r \in At(y).proven => None(r, y)
    BY DEF EngineInv, GpuInv, RankInv, ProvenOK
  <2>3. At(y).proven # {} => At(y).hostDone
    BY DEF EngineInv, ParentInv
  <2> QED BY <1>3, <1>5, <2>1, <2>2, <2>3
<1> QED BY <1>2, <1>4, <1>6, FaithfulRetire

(* The proofs a poll records are right. *)
LEMMA MarkedFaithful ==
  ASSUME EngineInv
  PROVE  Faithful(Marked(Answers), 0)
<1>0. LedgerInv /\ TypeOK
  BY DEF EngineInv, AdmissionInv, LedgerInv
<1> SUFFICES ASSUME NEW y \in Live
             PROVE  /\ Marked(Answers)[Index(y)].epoch = At(y).epoch
                    /\ Marked(Answers)[Index(y)].slot = At(y).slot
                    /\ Marked(Answers)[Index(y)].bound = At(y).bound
                    /\ Marked(Answers)[Index(y)].hostDone = At(y).hostDone
                    /\ Marked(Answers)[Index(y)].proven # {} => Marked(Answers)[Index(y)].hostDone
                    /\ \A r \in Ranks : r \in Marked(Answers)[Index(y)].proven => None(r, y)
  BY DEF Faithful
<1> DEFINE new == {r \in Ranks : <<y, r>> \in NewlyProven(Answers)}
           e == [At(y) EXCEPT !.proven = @ \cup new]
<1>1. Index(y) \in Indices /\ At(y) \in Entry /\ At(y) = ring[Index(y)] /\ ring[Index(y)].id = y
  BY <1>0, LiveEntries DEF At
<1>2. Marked(Answers)[Index(y)] = e
  BY <1>1 DEF Marked
<1>3. /\ e.epoch = At(y).epoch /\ e.slot = At(y).slot /\ e.bound = At(y).bound
      /\ e.hostDone = At(y).hostDone /\ e.proven = At(y).proven \cup new
  BY <1>1 DEF Entry
<1>4. ASSUME NEW r \in new PROVE r \in Ranks /\ At(y).hostDone /\ None(r, y)
  <2>1. r \in Ranks /\ <<y, r>> \in Asked(Answers) /\ Answers[<<y, r>>] = "Proven"
    BY <1>4 DEF NewlyProven
  <2>2. At(y).hostDone
    BY <2>1 DEF Asked, Unproven
  <2>3. Prove(y, r) = "Proven"
    BY <2>1 DEF Answers
  <2> QED BY <2>1, <2>2, <2>3, AnswersAreRight
<1> HIDE DEF new, e
<1>5. \A r \in Ranks : r \in At(y).proven => None(r, y)
  BY DEF EngineInv, GpuInv, RankInv, ProvenOK
<1>6. At(y).proven # {} => At(y).hostDone
  BY DEF EngineInv, ParentInv
<1> QED BY <1>2, <1>3, <1>4, <1>5, <1>6

(* poll_tickets(). *)
LEMMA PollMoves ==
  ASSUME EngineInv, PollTickets
  PROVE  /\ LedgerMoves /\ UnfinishedKept(0) /\ Live' \subseteq Live
         /\ lastId' = lastId /\ capacity' = capacity /\ closed' = closed
         /\ Stopped => Stopped'
<1>0. LedgerInv
  BY DEF EngineInv, AdmissionInv
<1>1. CASE helperFault \/ Stopped
  <2>1. UNCHANGED <<ring, count, lastId, capacity, closed, interrupted>> /\ (fault => fault')
    BY <1>1 DEF PollTickets, FaultBecause, RaiseFault, ledgerVars
  <2>2. Live' = Live
    BY <2>1 DEF Live
  <2> QED BY <2>1, <2>2, RingAlone DEF Stopped
<1>2. CASE ~helperFault /\ ~Stopped
  <2>1. Poll(Answers)
    BY <1>2 DEF PollTickets
  <2>2. Retire(Marked(Answers)) \/ (ring' = Marked(Answers) /\ count' = count)
    BY <2>1 DEF Poll
  <2>3. UNCHANGED <<lastId, capacity, closed>>
    BY <2>1 DEF Poll
  <2> QED BY <1>0, <1>2, <2>2, <2>3, MarkedSameTickets, MarkedFaithful, FaithfulRetire
<1> QED BY <1>1, <1>2

(* A poll faults only over a kernel that trapped at a dead helper. *)
LEMMA PollBlames ==
  ASSUME EngineInv, PollTickets
  PROVE  \/ cause' = cause
         \/ cause' = "helper"
         \/ cause' = "proof" /\ \E r \in Ranks : gpu[r].trap = "helper"
<1>1. CASE helperFault
  BY <1>1 DEF PollTickets, FaultBecause, Blame
<1>2. CASE ~helperFault /\ Stopped
  BY <1>2 DEF PollTickets
<1>3. CASE ~helperFault /\ ~Stopped
  <2>1. Poll(Answers) /\ cause' = IF fault' THEN "proof" ELSE cause
    BY <1>3 DEF PollTickets
  <2>2. CASE FaultAnswers(Answers) = {}
    BY <1>3, <2>1, <2>2 DEF Poll, Stopped
  <2>3. CASE FaultAnswers(Answers) # {}
    <3>1. PICK p \in Live \X Ranks : Answers[p] = "Fault"
      BY <2>3 DEF FaultAnswers, Asked
    <3>2. p[1] \in Live /\ p[2] \in Ranks /\ Prove(p[1], p[2]) = "Fault"
      BY <3>1 DEF Answers
    <3>3. gpu[p[2]].trap = "helper"
      BY <3>2, AnswersAreRight
    <3> QED BY <2>1, <3>2, <3>3
  <2> QED BY <2>2, <2>3
<1> QED BY <1>1, <1>2, <1>3

-----------------------------------------------------------------------------
(* What a step leaves alone.                                               *)

(* The parent being issued stays, or is one just bound. *)
IssueKept ==
  Issuing' =>
    \/ Issuing /\ issued' = issued /\ passes' = passes
    \/ /\ issued'.id \in Live /\ ~At(issued'.id).bound
       /\ \A r \in Ranks : passes'[r] = 0

(* A rank's GPU that does nothing, under any step of the ledger. *)
LEMMA RankAlone ==
  ASSUME EngineInv, LedgerInv', LedgerMoves, IssueKept, NEW r \in Ranks, gpu' = gpu
  PROVE  RankInv(r)'
<1>0. LedgerInv /\ RankInv(r) /\ gpu[r] \in Gpus
  BY DEF EngineInv, AdmissionInv, GpuInv
<1>g. /\ \A i \in Indices : gpu[r].recorded[i] \in Nat /\ gpu[r].dev[i].id \in Nat
      /\ lastId \in Nat /\ lastId' \in Nat
  <2>1. \A i \in Indices : gpu[r].dev[i] \in Stamps /\ gpu[r].recorded[i] \in Nat
    BY <1>0 DEF Gpus
  <2>2. \A i \in Indices : gpu[r].dev[i].id \in Nat
    BY <2>1, LedgerAssumption DEF Stamps
  <2> QED BY <1>0, <2>1, <2>2, LiveEntries, LiveLater DEF OwnEntries
<1>1. ASSUME NEW t, Valid(t), t.id \in Live', t.id <= lastId PROVE Valid(t)'
  <2>1. Survives(t.id)
    BY <1>1 DEF LedgerMoves, ParentsKept
  <2>2. At(t.id)'.id = t.id
    BY <1>1, LiveLater DEF OwnEntries
  <2> QED BY <1>1, <2>1, <2>2 DEF Valid, Survives
<1>2. StreamOK(r)'
  <2> SUFFICES ASSUME NEW k \in Queue(r) PROVE Valid(Of(r, k))'
    BY DEF StreamOK, Queue
  <2>p. PICK t : t = Of(r, k)
    OBVIOUS
  <2>1. Valid(t)
    BY <1>0, <2>p DEF RankInv, StreamOK
  <2>2. t.id \in Live /\ At(t.id).bound /\ t.id <= lastId
    BY <1>0, <2>1, LiveEntries DEF Valid
  <2>3. ~None(r, t.id)
    BY <2>p DEF None
  <2>4. t.id \in Live'
    BY <2>2, <2>3 DEF LedgerMoves, LeaversDrained
  <2>5. Valid(t)'
    BY <1>1, <2>1, <2>2, <2>4
  <2> QED BY <2>5, <2>p DEF Of
<1>3. PairOK(r)' /\ BalanceOK(r)' /\ SealOK(r)' /\ EventOK(r)'
  <2>1. PairOK(r)'
    BY <1>0 DEF RankInv, PairOK, Queue, IsOp, Of
  <2>2. BalanceOK(r)'
    BY <1>0 DEF RankInv, BalanceOK, Between, IsOp, Of
  <2>3. SealOK(r)'
    BY <1>0 DEF RankInv, SealOK, Counts, Queue, IsOp, Of
  <2>4. EventOK(r)'
    BY <1>0 DEF RankInv, EventOK, Recorded, Queue, IsOp, Of
  <2> QED BY <2>1, <2>2, <2>3, <2>4
<1>4. MarkOK(r)'
  <2> SUFFICES ASSUME NEW i \in Indices
               PROVE  /\ gpu[r].recorded[i] <= lastId'
                      /\ gpu[r].recorded[i] \in Live' => At(gpu[r].recorded[i])'.bound
                      /\ gpu[r].dev[i].id <= lastId'
                      /\ gpu[r].dev[i].id \in Live' => Valid(gpu[r].dev[i])'
    BY DEF MarkOK
  <2>p. PICK x, d : x = gpu[r].recorded[i] /\ d = gpu[r].dev[i]
    OBVIOUS
  <2>1. /\ x <= lastId /\ (x \in Live => At(x).bound) /\ x \in Nat
        /\ d.id <= lastId /\ (d.id \in Live => Valid(d)) /\ d.id \in Nat
    BY <1>0, <1>g, <2>p DEF RankInv, MarkOK
  <2>2. x <= lastId' /\ d.id <= lastId'
    BY <1>g, <2>1 DEF LedgerMoves, LastKept, Valid
  <2>3. x \in Live' => At(x)'.bound
    BY <2>1 DEF LedgerMoves, ParentsKept, Survives
  <2>4. d.id \in Live' => Valid(d)'
    <3>1. d.id \in Live' => d.id \in Live
      BY <2>1 DEF LedgerMoves, ParentsKept
    <3> QED BY <1>1, <2>1, <3>1
  <2> QED BY <2>2, <2>3, <2>4, <2>p
<1>5. SealedOK(r)'
  <2> SUFFICES ASSUME NEW x \in Live', Recorded(r, x)
               PROVE  /\ gpu[r].armed[Index(x)] = x
                      /\ \/ \E k \in Queue(r) : IsOp(r, k, "seal") /\ Of(r, k).id = x
                         \/ SealMatches(gpu[r].host[Index(x)], At(x)')
    BY DEF SealedOK, Recorded, Queue, IsOp, Of, SealMatches
  <2>1. Index(x) \in Indices /\ At(x)'.id = x
    BY LiveLater DEF OwnEntries
  <2>2. x <= lastId
    BY <1>0, <2>1 DEF RankInv, MarkOK, Recorded
  <2>3. x \in Live /\ Survives(x)
    BY <2>2 DEF LedgerMoves, ParentsKept
  <2>4. At(x).id = x
    BY <1>0, <2>3, LiveEntries
  <2>5. SealMatches(gpu[r].host[Index(x)], At(x)) => SealMatches(gpu[r].host[Index(x)], At(x)')
    BY <2>1, <2>3, <2>4 DEF SealMatches, Survives
  <2> QED BY <1>0, <2>3, <2>5 DEF RankInv, SealedOK
<1>6. ProvenOK(r)'
  BY DEF ProvenOK, LedgerMoves, ProvenDrained, None, Queue, Of
<1>7. PassOK(r)'
  <2> SUFFICES ASSUME Issuing' PROVE PassOK(r)'
    BY DEF PassOK
  <2>1. CASE Issuing /\ issued' = issued /\ passes' = passes
    BY <1>0, <2>1 DEF RankInv, PassOK, Recorded, Counts, Queue, IsOp, Of
  <2>2. CASE /\ issued'.id \in Live /\ ~At(issued'.id).bound
             /\ \A q \in Ranks : passes'[q] = 0
    <3>p. PICK x : x = issued'.id
      OBVIOUS
    <3>1. Index(x) \in Indices
      BY <1>0, <2>2, <3>p, LiveEntries
    <3>2. ~Recorded(r, x)
      BY <1>0, <2>2, <3>1, <3>p DEF RankInv, MarkOK, Recorded
    <3> QED BY <2>2, <3>2, <3>p DEF PassOK, Recorded
  <2> QED BY <2>1, <2>2 DEF IssueKept
<1>8. CountOK(r)'
  <2>p. PICK x : x = issued'.id
    OBVIOUS
  <2>q. /\ Queue(r)' = Queue(r) /\ (\A k : Of(r, k)' = Of(r, k)) /\ (\A y : Done(r, y)' = Done(r, y))
        /\ \A k, op : IsOp(r, k, op)' <=> IsOp(r, k, op)
    BY DEF Queue, Of, IsOp, Done
  <2>1. CASE Issuing' => Issuing /\ issued' = issued /\ passes' = passes
    BY <1>0, <2>1, <2>q DEF RankInv, CountOK, Numbers
  <2>2. CASE Issuing' /\ x \in Live /\ ~At(x).bound /\ \A q \in Ranks : passes'[q] = 0
    <3>1. Done(r, x) = 0
      BY <1>0, <2>2, LiveEntries DEF RankInv, MarkOK, Valid, Done
    <3>2. \A k \in Queue(r) : Of(r, k).id # x
      BY <1>0, <2>2 DEF RankInv, StreamOK, Valid
    <3>3. Done(r, issued.id)' <= Room(passes[r])'
      BY <2>2, <2>p, <2>q, <3>1, AdmissionAssumption DEF Room, Done
    <3>4. PICK no : Numbers(r, no)
      BY <1>0 DEF RankInv, CountOK
    <3>5. Numbers(r, no)'
      BY <2>p, <2>q, <3>2, <3>4 DEF Numbers
    <3> QED BY <1>0, <3>3, <3>5 DEF RankInv, CountOK
  <2> QED BY <2>1, <2>2, <2>p DEF IssueKept
<1> QED BY <1>2, <1>3, <1>4, <1>5, <1>6, <1>7, <1>8 DEF RankInv

(* All GPUs do nothing. *)
LEMMA GpuAlone ==
  ASSUME EngineInv, LedgerInv', LedgerMoves, IssueKept, gpu' = gpu
  PROVE  GpuInv'
<1>1. \A r \in Ranks : RankInv(r)'
  BY RankAlone
<1> QED BY <1>1 DEF EngineInv, GpuInv

(* A parent the bridge runs or has reserved stays its own. *)
LEMMA HeldStays ==
  ASSUME LedgerInv, LedgerInv', NEW x, UnfinishedKept(x), NEW t, t.id # x
  PROVE  /\ Held(t) => Held(t)'
         /\ Reserved(t) /\ lastId' = lastId => Reserved(t)'
<1>1. ASSUME t.id \in Live, ~At(t.id).hostDone
      PROVE  /\ Survives(t.id) /\ At(t.id)'.bound = At(t.id).bound /\ ~At(t.id)'.hostDone
             /\ At(t.id)'.id = t.id
  <2>1. Survives(t.id) /\ At(t.id)'.bound = At(t.id).bound /\ ~At(t.id)'.hostDone
    BY <1>1 DEF UnfinishedKept
  <2> QED BY <2>1, LiveLater DEF Survives, OwnEntries
<1>2. Held(t) => Held(t)'
  BY <1>1 DEF Held, Valid, Survives
<1>3. Reserved(t) /\ lastId' = lastId => Reserved(t)'
  BY <1>1 DEF Reserved, Survives
<1> QED BY <1>2, <1>3

(* No outstanding parent has id 0. *)
LEMMA LiveNotZero == LedgerInv => \A x \in Live : x # 0
BY LiveEntries

(* Another thread's step, as the bridge sees it. *)
LEMMA BridgeAlone ==
  ASSUME EngineInv, LedgerInv', UNCHANGED bridgeVars, UnfinishedKept(0), lastId' = lastId,
         Stopped => Stopped', helperFault => helperFault'
  PROVE  BridgeInv' /\ IssueKept
<1>0. LedgerInv /\ BridgeInv
  BY DEF EngineInv, AdmissionInv
<1>1. UNCHANGED <<pc, current, ahead, issued, passes>>
  BY DEF bridgeVars
<1>2. ASSUME NEW t PROVE (Held(t) => Held(t)') /\ (Reserved(t) => Reserved(t)')
  <2>1. Held(t) \/ Reserved(t) => t.id # 0
    BY <1>0, LiveNotZero DEF Held, Valid, Reserved
  <2> QED BY <1>0, <2>1, HeldStays
<1>p. PICK cc, aa, ii : cc = current /\ aa = ahead /\ ii = issued
  OBVIOUS
<1>3. /\ Held(cc) => Held(cc)'
      /\ Held(ii) => Held(ii)'
      /\ Reserved(cc) => Reserved(cc)'
      /\ Reserved(aa) => Reserved(aa)'
  BY <1>2
<1>4. Held(current)' <=> Held(cc)'
  BY <1>1, <1>p DEF Held, Valid
<1>5. Held(issued)' <=> Held(ii)'
  BY <1>1, <1>p DEF Held, Valid
<1>6. (Reserved(current)' <=> Reserved(cc)') /\ (Reserved(ahead)' <=> Reserved(aa)')
  BY <1>1, <1>p DEF Reserved
<1>7. Issuing' <=> Issuing
  BY <1>1 DEF Issuing
<1>8. BridgeTypes'
  BY <1>0, <1>1 DEF BridgeInv, BridgeTypes
<1>9. BridgeInv'
  BY <1>0, <1>1, <1>3, <1>4, <1>5, <1>6, <1>7, <1>8, <1>p DEF BridgeInv
<1> QED BY <1>1, <1>7, <1>9 DEF IssueKept

(* A step of the bridge or the GPUs, as the placement thread sees it. *)
LEMMA GateAlone ==
  ASSUME EngineInv, UNCHANGED placeVars, SameEpoch, capacity' = capacity, closed' = closed,
         Stopped => Stopped', closed /\ count = 0 /\ ~Stopped => count' = 0
  PROVE  GateInv'
<1>1. UNCHANGED <<binding, phase, activeEpoch, activeSlot>>
  BY DEF placeVars, SameEpoch
<1>2. GateInv
  BY DEF EngineInv
<1>3. phase \in {"drained", "committed"} => phase \in GateHeld
  BY DEF GateHeld
<1>4. Staged' <=> Staged
  BY <1>1 DEF Staged
<1> QED BY <1>1, <1>2, <1>3, <1>4 DEF GateInv

(* The reasons a step may give. *)
LEMMA CauseAlone ==
  ASSUME EngineInv, helperFault => helperFault',
         \A r \in Ranks : gpu[r].trap = "helper" => gpu'[r].trap = "helper",
         \/ cause' = cause
         \/ cause' \in {"helper", "deadline", "Full"}
         \/ cause' = "proof" /\ \E r \in Ranks : gpu[r].trap = "helper"
         \/ cause' = "interrupt" /\ (helperFault \/ "shutdown" \in Failures)
  PROVE  FaultsAreExternal'
<1>1. FaultsAreExternal
  BY DEF EngineInv
<1>2. CASE cause' = cause
  BY <1>1, <1>2 DEF FaultsAreExternal
<1>3. CASE cause' \in {"helper", "deadline", "Full"}
  BY <1>3 DEF FaultsAreExternal
<1>4. CASE cause' = "proof" /\ \E r \in Ranks : gpu[r].trap = "helper"
  BY <1>4 DEF FaultsAreExternal
<1>5. CASE cause' = "interrupt" /\ (helperFault \/ "shutdown" \in Failures)
  BY <1>5 DEF FaultsAreExternal
<1> QED BY <1>2, <1>3, <1>4, <1>5

-----------------------------------------------------------------------------
(* The steps of the scheduler bridge.                                      *)

(* A ledger step that leaves the gate alone. *)
GateQuiet ==
  /\ SameEpoch /\ capacity' = capacity /\ closed' = closed
  /\ Stopped => Stopped'
  /\ closed /\ count = 0 /\ ~Stopped => count' = 0

(* The reason of a step is one from outside the protocol. *)
Blameless ==
  \/ cause' = cause
  \/ cause' \in {"helper", "deadline", "Full"}
  \/ cause' = "proof" /\ \E r \in Ranks : gpu[r].trap = "helper"
  \/ cause' = "interrupt" /\ (helperFault \/ "shutdown" \in Failures)

(* A step of the bridge that queues nothing. *)
LEMMA BridgeMoves ==
  ASSUME EngineInv, AdmissionInv', UNCHANGED <<gpu, placeVars, helperFault>>, GateQuiet,
         LedgerMoves, BridgeInv', IssueKept, Blameless
  PROVE  EngineInv'
<1>1. LedgerInv'
  BY DEF AdmissionInv
<1>2. GpuInv'
  BY <1>1, GpuAlone
<1>3. GateInv'
  BY GateAlone DEF GateQuiet
<1>4. FaultsAreExternal'
  BY CauseAlone DEF Blameless
<1> QED BY <1>2, <1>3, <1>4 DEF EngineInv, LedgerMoves

(* Nothing, an interrupt or a fault. *)
LEMMA StopMoves ==
  ASSUME EngineInv, UNCHANGED ledgerVars \/ Interrupt \/ RaiseFault
  PROVE  LedgerMoves /\ UnfinishedKept(0) /\ GateQuiet /\ lastId' = lastId
<1>1. /\ UNCHANGED <<ring, count, lastId, capacity, activeEpoch, activeSlot, closed>>
      /\ Stopped => Stopped'
  BY DEF ledgerVars, Interrupt, RaiseFault, Stopped
<1> QED BY <1>1, RingAlone DEF GateQuiet, SameEpoch

(* A fault is raised: the first reason stays. *)
LEMMA FaultMoves ==
  ASSUME EngineInv, NEW why, FaultBecause(why)
  PROVE  /\ LedgerMoves /\ UnfinishedKept(0) /\ GateQuiet /\ lastId' = lastId /\ Stopped'
         /\ cause' = IF Stopped THEN cause ELSE why
<1>1. RaiseFault
  BY DEF FaultBecause
<1> QED BY <1>1, StopMoves DEF FaultBecause, Blame, RaiseFault, Stopped

(* The other calls leave the gate alone. *)
LEMMA CallsQuiet ==
  ASSUME EngineInv, AdmissionInv', NEW id,
         Allocate \/ Bind(id) \/ Cancel(id) \/ HostComplete(id) \/ PollTickets
  PROVE  GateQuiet
<1>0. LedgerInv /\ LedgerInv'
  BY DEF EngineInv, AdmissionInv
<1>1. CASE Allocate
  BY <1>1 DEF Allocate, AllocateResult, GateQuiet, SameEpoch, Stopped
<1>2. CASE Bind(id)
  BY <1>2 DEF Bind, GateQuiet, SameEpoch, Stopped
<1>3. CASE Cancel(id)
  BY <1>3 DEF Cancel, Cancellable, GateQuiet, SameEpoch, Stopped
<1>4. CASE HostComplete(id)
  <2>1. count # 0
    BY <1>0, <1>4, LiveEntries DEF HostComplete
  <2> QED BY <1>4, <2>1 DEF HostComplete, GateQuiet, SameEpoch, Stopped
<1>5. CASE PollTickets
  <2>1. SameEpoch
    BY <1>5, PollIsLedgerStep
  <2>2. count = 0 => count' = 0
    <3>1. count = 0 => Live' = {}
      BY <1>0, <1>5, PollMoves, LiveEntries
    <3> QED BY <1>0, <3>1, LiveLater DEF OwnEntries
  <2> QED BY <1>5, <2>1, <2>2, PollMoves DEF GateQuiet
<1> QED BY <1>1, <1>2, <1>3, <1>4, <1>5

(* An error goes up to the step loop. *)
LEMMA FailBridge ==
  ASSUME EngineInv, Fail, Stopped' \/ helperFault'
  PROVE  BridgeInv' /\ IssueKept
BY DEF EngineInv, BridgeInv, BridgeTypes, Fail, Issuing, IssueKept, Pcs

(* The bridge fails over a fault it has raised. *)
LEMMA FaultFails ==
  ASSUME EngineInv, AdmissionInv', UNCHANGED <<gpu, placeVars, helperFault>>, Fail,
         NEW why, FaultBecause(why), Stopped \/ why \in {"helper", "Full"}
  PROVE  EngineInv'
BY FaultMoves, FailBridge, BridgeMoves DEF Blameless

(* What a poll may blame. *)
LEMMA PollBlameless ==
  ASSUME EngineInv, PollTickets
  PROVE  Blameless
BY PollBlames DEF Blameless

(* No ticket at all. *)
LEMMA NoTicketTyped == NoTicket \in Ticket /\ NoTicket.id = 0
BY LedgerAssumption DEF NoTicket, Ticket, Slots

(* The loop comes round. *)
LEMMA BeginStepInv ==
  ASSUME EngineInv, AdmissionInv', BeginStep
  PROVE  EngineInv'
<1>0. LedgerInv /\ LedgerInv' /\ BridgeInv
  BY DEF EngineInv, AdmissionInv
<1>1. UNCHANGED ledgerVars /\ UNCHANGED <<gpu, placeVars, helperFault, cause, passes>> /\ pc = "idle"
  BY DEF BeginStep
<1>2. LedgerMoves /\ UnfinishedKept(0) /\ GateQuiet /\ lastId' = lastId
  BY <1>1, StopMoves
<1>3. BridgeInv' /\ IssueKept
  <2>1. CASE ahead # NoTicket
    <3>p. PICK t : t = ahead
      OBVIOUS
    <3>1. /\ Issuing /\ issued = t /\ Held(t) /\ current' = t /\ ahead' = NoTicket /\ issued' = t
          /\ pc' = "run" /\ t \in Ticket
      BY <1>0, <1>1, <2>1, <3>p DEF BeginStep, BridgeInv, BridgeTypes, Issuing
    <3>2. Held(t)'
      BY <1>0, <1>2, <3>1, HeldStays, LiveNotZero DEF Held, Valid
    <3>3. Held(issued)'
      BY <3>1, <3>2 DEF Held, Valid
    <3>4. BridgeTypes'
      BY <1>0, <1>1, <3>1, NoTicketTyped DEF BridgeInv, BridgeTypes, Pcs
    <3>5. IssueKept
      BY <1>1, <3>1 DEF IssueKept
    <3> QED BY <3>1, <3>3, <3>4, <3>5 DEF BridgeInv
  <2>2. CASE ahead = NoTicket
    <3>1. lastId < MaxTicket /\ pc' = "poll" /\ UNCHANGED <<current, ahead, issued, passes>>
      BY <2>2 DEF BeginStep
    <3>2. ~Issuing'
      BY <3>1 DEF Issuing
    <3> QED BY <1>0, <1>2, <2>2, <3>1, <3>2 DEF BridgeInv, BridgeTypes, Pcs, IssueKept
  <2> QED BY <2>1, <2>2
<1> QED BY <1>1, <1>2, <1>3, BridgeMoves DEF Blameless

(* fail_loop() interrupts the ledger. *)
LEMMA FailLoopInv ==
  ASSUME EngineInv, AdmissionInv', FailLoop
  PROVE  EngineInv'
<1>0. BridgeInv
  BY DEF EngineInv
<1>1. LedgerMoves /\ GateQuiet
  BY StopMoves DEF FailLoop
<1>2. BridgeInv' /\ IssueKept
  BY <1>0 DEF FailLoop, BridgeInv, BridgeTypes, Pcs, Issuing, IssueKept
<1>3. Blameless
  BY <1>0 DEF FailLoop, Blame, BridgeInv, Blameless
<1> QED BY <1>1, <1>2, <1>3, BridgeMoves DEF FailLoop

(* admit_ticket() polls first. *)
LEMMA PollBeforeAdmitInv ==
  ASSUME EngineInv, AdmissionInv', PollBeforeAdmit
  PROVE  EngineInv'
<1>0. BridgeInv
  BY DEF EngineInv
<1>1. PollTickets /\ pc' = "admit" /\ pc \in {"poll", "admit"}
      /\ UNCHANGED <<current, ahead, issued, passes, gpu, placeVars, helperFault>>
  BY DEF PollBeforeAdmit
<1>2. LedgerMoves /\ lastId' = lastId /\ GateQuiet
  BY <1>1, PollMoves, CallsQuiet
<1>3. BridgeInv' /\ IssueKept
  BY <1>0, <1>1, <1>2 DEF BridgeInv, BridgeTypes, Pcs, Issuing, IssueKept
<1> QED BY <1>1, <1>2, <1>3, PollBlameless, BridgeMoves

(* The ledger is configured and an epoch is active. *)
LEMMA Configured ==
  ASSUME EngineInv
  PROVE  capacity # 0 /\ activeEpoch # 0 /\ activeEpoch \in 0..MaxEpoch /\ activeSlot \in Slots
BY LedgerAssumption DEF EngineInv, GateInv, AdmissionInv, PlaceInv

(* A ticket allocate() hands out. *)
LEMMA NewTicketTyped ==
  ASSUME EngineInv, lastId < MaxTicket
  PROVE  NewTicket \in Ticket /\ NewTicket # NoTicket
<1>1. lastId + 1 \in 0..MaxTicket /\ lastId + 1 # 0
  BY LiveEntries, LedgerAssumption DEF EngineInv, AdmissionInv
<1> QED BY <1>1, Configured DEF NewTicket, Ticket, NoTicket

(* Ledger::admit(). *)
LEMMA AdmitInv ==
  ASSUME EngineInv, AdmissionInv', Admit
  PROVE  EngineInv'
<1>0. BridgeInv /\ LedgerInv /\ pc = "admit" /\ lastId < MaxTicket /\ ahead = NoTicket
  BY DEF EngineInv, AdmissionInv, Admit, BridgeInv
<1>1. UNCHANGED <<gpu, placeVars, helperFault>>
  BY DEF Admit
<1>2. CASE /\ Allocate /\ current' = NewTicket /\ pc' = "decide"
           /\ UNCHANGED <<ahead, issued, passes, cause>>
  <2>p. PICK t : t = NewTicket
    OBVIOUS
  <2>1. LedgerMoves /\ Reserved(t)' /\ GateQuiet
    BY <1>2, <2>p, AllocateMoves, CallsQuiet
  <2>2. t \in Ticket /\ current' = t
    BY <1>0, <1>2, <2>p, NewTicketTyped
  <2>3. Reserved(current)'
    BY <2>1, <2>2 DEF Reserved
  <2>4. BridgeInv' /\ IssueKept
    BY <1>0, <1>2, <2>2, <2>3 DEF BridgeInv, BridgeTypes, Pcs, Issuing, IssueKept
  <2> QED BY <1>1, <1>2, <2>1, <2>4, BridgeMoves DEF Blameless
<1>3. CASE ~Stopped /\ ~closed /\ AllocateResult # "Ok" /\ FaultBecause(AllocateResult) /\ Fail
  <2>1. AllocateResult = "Full"
    BY <1>0, <1>3, Configured, LiveEntries, LedgerAssumption DEF AllocateResult, Stopped
  <2> QED BY <1>1, <1>3, <2>1, FaultFails
<1>4. CASE (Stopped \/ helperFault) /\ FaultBecause(IF Stopped THEN AllocateResult ELSE "helper") /\ Fail
  BY <1>1, <1>4, FaultFails
<1> QED BY <1>2, <1>3, <1>4 DEF Admit

(* A reservation can be cancelled. *)
LEMMA ReservedCancellable ==
  ASSUME LedgerInv, NEW t, Reserved(t)
  PROVE  Cancellable(t.id)
<1>1. count # 0
  BY LiveEntries DEF Reserved
<1> QED BY <1>1, LiveEntries DEF Reserved, Cancellable

(* A bound reservation runs. *)
LEMMA BoundIsHeld ==
  ASSUME EngineInv, LedgerInv', NEW t, Reserved(t), Bind(t.id)
  PROVE  Held(t)'
<1>1. Survives(t.id) /\ At(t.id)'.bound /\ At(t.id)'.hostDone = At(t.id).hostDone
  BY BindMoves
<1>2. At(t.id)'.id = t.id
  BY <1>1, LiveLater DEF Survives, OwnEntries
<1> QED BY <1>1, <1>2 DEF Survives, Held, Valid, Reserved

(* scheduler.step() returned. *)
LEMMA DecideStepInv ==
  ASSUME EngineInv, AdmissionInv', DecideStep
  PROVE  EngineInv'
<1>p. PICK t : t = current
  OBVIOUS
<1>0. BridgeInv /\ LedgerInv /\ LedgerInv' /\ pc = "decide" /\ Reserved(t) /\ ahead = NoTicket /\ t \in Ticket
  BY <1>p DEF EngineInv, AdmissionInv, DecideStep, BridgeInv, BridgeTypes
<1>1. UNCHANGED <<gpu, placeVars, helperFault>>
  BY DEF DecideStep
<1>2. CASE /\ Bind(t.id) /\ issued' = t /\ passes' = [r \in Ranks |-> 0]
           /\ pc' = "run" /\ UNCHANGED <<current, ahead, cause>>
  <2>1. LedgerMoves /\ GateQuiet
    BY <1>2, BindMoves, CallsQuiet
  <2>2. Held(t)'
    BY <1>0, <1>2, BoundIsHeld
  <2>3. Held(issued)'
    BY <1>2, <2>2 DEF Held, Valid
  <2>4. BridgeTypes'
    BY <1>0, <1>2, AdmissionAssumption DEF BridgeInv, BridgeTypes, Pcs
  <2>5. BridgeInv'
    BY <1>0, <1>2, <1>p, <2>3, <2>4 DEF BridgeInv
  <2>6. IssueKept
    BY <1>0, <1>2 DEF IssueKept, Reserved
  <2> QED BY <1>1, <1>2, <2>1, <2>5, <2>6, BridgeMoves DEF Blameless
<1>3. CASE /\ Cancel(t.id) /\ current' = NoTicket /\ issued' = NoTicket
           /\ pc' = "idle" /\ UNCHANGED <<ahead, passes, cause>>
  <2>1. LedgerMoves /\ GateQuiet
    BY <1>3, CancelMoves, CallsQuiet
  <2>3. BridgeInv' /\ IssueKept
    BY <1>0, <1>3, NoTicketTyped DEF BridgeInv, BridgeTypes, Pcs, Issuing, IssueKept
  <2> QED BY <1>1, <1>3, <2>1, <2>3, BridgeMoves DEF Blameless
<1>4. Cancellable(t.id)
  BY <1>0, ReservedCancellable
<1> QED BY <1>2, <1>3, <1>4, <1>p DEF DecideStep

(* before_pass() refuses only over a dead helper. *)
LEMMA PassRefusedInv ==
  ASSUME EngineInv, AdmissionInv', PassRefused
  PROVE  EngineInv'
<1>1. helperFault
  BY DEF PassRefused, EngineInv, BridgeInv, Issuing, Held
<1>2. LedgerMoves /\ GateQuiet
  BY StopMoves DEF PassRefused
<1>3. BridgeInv' /\ IssueKept
  BY <1>1, FailBridge DEF PassRefused
<1> QED BY <1>2, <1>3, BridgeMoves DEF PassRefused, Blameless

(* try_ahead() polls first, or is switched off. *)
LEMMA PollBeforeAheadInv ==
  ASSUME EngineInv, AdmissionInv', PollBeforeAhead
  PROVE  EngineInv'
<1>p. PICK c : c = current
  OBVIOUS
<1>0. BridgeInv /\ LedgerInv /\ LedgerInv' /\ pc = "ahead" /\ Held(c) /\ ahead = NoTicket
  BY <1>p DEF EngineInv, AdmissionInv, PollBeforeAhead, BridgeInv
<1>1. UNCHANGED <<current, ahead, issued, passes, gpu, placeVars, helperFault>>
  BY DEF PollBeforeAhead
<1>2. c.id # 0
  BY <1>0, LiveNotZero DEF Held, Valid
<1>3. CASE pc' = "host" /\ UNCHANGED <<ledgerVars, cause>>
  <2>1. LedgerMoves /\ UnfinishedKept(0) /\ GateQuiet
    BY <1>3, StopMoves
  <2>2. Held(c)'
    BY <1>0, <1>2, <2>1, HeldStays
  <2>3. Held(current)'
    BY <1>1, <1>p, <2>2 DEF Held, Valid
  <2>4. BridgeInv' /\ IssueKept
    BY <1>0, <1>1, <1>2, <1>3, <1>p, <2>3, NoTicketTyped
       DEF BridgeInv, BridgeTypes, Pcs, Issuing, IssueKept
  <2> QED BY <1>1, <1>3, <2>1, <2>4, BridgeMoves DEF Blameless
<1>4. CASE lastId < MaxTicket /\ pc' = "tryAhead" /\ PollTickets
  <2>1. LedgerMoves /\ UnfinishedKept(0) /\ GateQuiet /\ lastId' = lastId
    BY <1>4, PollMoves, CallsQuiet
  <2>2. Held(c)'
    BY <1>0, <1>2, <2>1, HeldStays
  <2>3. Held(current)'
    BY <1>1, <1>p, <2>2 DEF Held, Valid
  <2>4. BridgeInv' /\ IssueKept
    BY <1>0, <1>1, <1>4, <2>1, <2>3 DEF BridgeInv, BridgeTypes, Pcs, Issuing, IssueKept
  <2> QED BY <1>1, <1>4, <2>1, <2>4, PollBlameless, BridgeMoves
<1> QED BY <1>3, <1>4 DEF PollBeforeAhead

(* try_admit() for the parent ahead. *)
LEMMA TryAheadInv ==
  ASSUME EngineInv, AdmissionInv', TryAhead
  PROVE  EngineInv'
<1>p. PICK c : c = current
  OBVIOUS
<1>0. /\ BridgeInv /\ LedgerInv /\ LedgerInv' /\ pc = "tryAhead" /\ Held(c) /\ ahead = NoTicket
      /\ lastId < MaxTicket
  BY <1>p DEF EngineInv, AdmissionInv, TryAhead, BridgeInv
<1>1. UNCHANGED <<gpu, placeVars, helperFault>>
  BY DEF TryAhead
<1>2. c.id # 0
  BY <1>0, LiveNotZero DEF Held, Valid
<1>3. CASE /\ Allocate /\ ahead' = NewTicket /\ pc' = "decideAhead"
           /\ UNCHANGED <<current, issued, passes, cause>>
  <2>p. PICK t : t = NewTicket
    OBVIOUS
  <2>1. LedgerMoves /\ UnfinishedKept(0) /\ Reserved(t)' /\ GateQuiet
    BY <1>3, <2>p, AllocateMoves, CallsQuiet
  <2>2. t \in Ticket /\ ahead' = t
    BY <1>0, <1>3, <2>p, NewTicketTyped
  <2>3. Reserved(ahead)'
    BY <2>1, <2>2 DEF Reserved
  <2>4. Held(c)'
    BY <1>0, <1>2, <2>1, HeldStays
  <2>5. Held(current)'
    BY <1>3, <1>p, <2>4 DEF Held, Valid
  <2>6. BridgeInv' /\ IssueKept
    BY <1>0, <1>3, <2>2, <2>3, <2>5 DEF BridgeInv, BridgeTypes, Pcs, Issuing, IssueKept
  <2> QED BY <1>1, <1>3, <2>1, <2>6, BridgeMoves DEF Blameless
<1>4. CASE pc' = "host" /\ UNCHANGED <<ledgerVars, current, ahead, issued, passes, cause>>
  <2>1. LedgerMoves /\ UnfinishedKept(0) /\ GateQuiet
    BY <1>4, StopMoves
  <2>2. Held(c)'
    BY <1>0, <1>2, <2>1, HeldStays
  <2>3. Held(current)'
    BY <1>4, <1>p, <2>2 DEF Held, Valid
  <2>4. BridgeInv' /\ IssueKept
    BY <1>0, <1>2, <1>4, <1>p, <2>3, NoTicketTyped
       DEF BridgeInv, BridgeTypes, Pcs, Issuing, IssueKept
  <2> QED BY <1>1, <1>4, <2>1, <2>4, BridgeMoves DEF Blameless
<1>5. CASE AllocateResult \in {"Interrupted", "Fault", "Invalid"} /\ FaultBecause(AllocateResult) /\ Fail
  <2>1. Stopped
    BY <1>0, <1>5, Configured, LiveEntries, LedgerAssumption DEF AllocateResult, Stopped
  <2> QED BY <1>1, <1>5, <2>1, FaultFails
<1> QED BY <1>3, <1>4, <1>5 DEF TryAhead

(* bind_ahead(). *)
LEMMA DecideAheadInv ==
  ASSUME EngineInv, AdmissionInv', DecideAhead
  PROVE  EngineInv'
<1>p. PICK c, t : c = current /\ t = ahead
  OBVIOUS
<1>0. /\ BridgeInv /\ LedgerInv /\ LedgerInv' /\ pc = "decideAhead" /\ Held(c) /\ Reserved(t)
      /\ t \in Ticket
  BY <1>p DEF EngineInv, AdmissionInv, DecideAhead, BridgeInv, BridgeTypes
<1>1. UNCHANGED <<gpu, placeVars, helperFault>>
  BY DEF DecideAhead
<1>2. c.id # 0 /\ c.id # t.id
  BY <1>0, LiveNotZero DEF Held, Valid, Reserved
<1>3. CASE /\ Bind(t.id) /\ issued' = t /\ passes' = [r \in Ranks |-> 0]
           /\ pc' = "host" /\ UNCHANGED <<current, ahead, cause>>
  <2>1. LedgerMoves /\ UnfinishedKept(t.id) /\ GateQuiet
    BY <1>3, BindMoves, CallsQuiet
  <2>2. Held(t)' /\ Held(c)'
    BY <1>0, <1>2, <1>3, <2>1, BoundIsHeld, HeldStays
  <2>3. Held(issued)' /\ Held(current)'
    BY <1>3, <1>p, <2>2 DEF Held, Valid
  <2>4. BridgeTypes'
    BY <1>0, <1>3, AdmissionAssumption DEF BridgeInv, BridgeTypes, Pcs
  <2>5. BridgeInv'
    BY <1>0, <1>2, <1>3, <1>p, <2>3, <2>4 DEF BridgeInv
  <2>6. IssueKept
    BY <1>0, <1>3 DEF IssueKept, Reserved
  <2> QED BY <1>1, <1>3, <2>1, <2>5, <2>6, BridgeMoves DEF Blameless
<1>4. CASE /\ Cancel(t.id) /\ ahead' = NoTicket /\ pc' = "host"
           /\ UNCHANGED <<current, issued, passes, cause>>
  <2>1. LedgerMoves /\ UnfinishedKept(t.id) /\ GateQuiet
    BY <1>4, CancelMoves, CallsQuiet
  <2>2. Held(c)'
    BY <1>0, <1>2, <2>1, HeldStays
  <2>3. Held(current)'
    BY <1>4, <1>p, <2>2 DEF Held, Valid
  <2>4. BridgeInv' /\ IssueKept
    BY <1>0, <1>2, <1>4, <1>p, <2>3, NoTicketTyped
       DEF BridgeInv, BridgeTypes, Pcs, Issuing, IssueKept
  <2> QED BY <1>1, <1>4, <2>1, <2>4, BridgeMoves DEF Blameless
<1>5. Cancellable(t.id)
  BY <1>0, ReservedCancellable
<1> QED BY <1>3, <1>4, <1>5, <1>p DEF DecideAhead

(* host_done(). *)
LEMMA HostDoneInv ==
  ASSUME EngineInv, AdmissionInv', HostDone
  PROVE  EngineInv'
<1>p. PICK c, t : c = current /\ t = issued
  OBVIOUS
<1>0. /\ BridgeInv /\ LedgerInv /\ LedgerInv' /\ pc = "host" /\ Held(c) /\ ahead.id # c.id
  BY <1>p DEF EngineInv, AdmissionInv, HostDone, BridgeInv
<1>1. /\ HostComplete(c.id) /\ pc' = "hostPoll"
      /\ UNCHANGED <<current, ahead, issued, passes, gpu, placeVars, helperFault, cause>>
  BY <1>0, <1>p DEF HostDone, Held, Valid
<1>2. LedgerMoves /\ UnfinishedKept(c.id) /\ GateQuiet
  BY <1>1, HostCompleteMoves, CallsQuiet
<1>3. Issuing' <=> Issuing
  BY <1>0, <1>1 DEF Issuing
<1>4. Issuing => Held(t) /\ t.id # c.id /\ issued = ahead
  BY <1>0, <1>p DEF BridgeInv, Issuing
<1>5. Issuing => Held(t)'
  BY <1>0, <1>2, <1>4, HeldStays
<1>6. Issuing' => Held(issued)'
  BY <1>1, <1>3, <1>5, <1>p DEF Held, Valid
<1>7. BridgeInv'
  BY <1>0, <1>1, <1>6 DEF BridgeInv, BridgeTypes, Pcs
<1>8. IssueKept
  BY <1>1, <1>3 DEF IssueKept
<1> QED BY <1>1, <1>2, <1>7, <1>8, BridgeMoves DEF Blameless

(* host_done() polls. *)
LEMMA PollAfterHostDoneInv ==
  ASSUME EngineInv, AdmissionInv', PollAfterHostDone
  PROVE  EngineInv'
<1>p. PICK t : t = issued
  OBVIOUS
<1>0. BridgeInv /\ LedgerInv /\ LedgerInv' /\ pc = "hostPoll"
  BY DEF EngineInv, AdmissionInv, PollAfterHostDone
<1>1. /\ PollTickets /\ pc' = IF Stopped' THEN "failing" ELSE "idle"
      /\ UNCHANGED <<current, ahead, issued, passes, gpu, placeVars, helperFault>>
  BY DEF PollAfterHostDone
<1>2. LedgerMoves /\ UnfinishedKept(0) /\ GateQuiet
  BY <1>1, PollMoves, CallsQuiet
<1>3. Issuing' => Issuing
  BY <1>0, <1>1 DEF Issuing
<1>4. Issuing => Held(t) /\ t.id # 0
  BY <1>0, <1>p, LiveNotZero DEF BridgeInv, Held, Valid
<1>5. Issuing => Held(t)'
  BY <1>0, <1>2, <1>4, HeldStays
<1>6. Issuing' => Held(issued)'
  BY <1>1, <1>3, <1>5, <1>p DEF Held, Valid
<1>7. BridgeInv'
  BY <1>0, <1>1, <1>6 DEF BridgeInv, BridgeTypes, Pcs
<1>8. IssueKept
  BY <1>1, <1>3 DEF IssueKept
<1> QED BY <1>1, <1>2, <1>7, <1>8, PollBlameless, BridgeMoves

-----------------------------------------------------------------------------
(* The steps of the placement thread and of the world outside.             *)

(* A step that touches neither the bridge nor a stream. *)
LEMMA OtherMoves ==
  ASSUME EngineInv, AdmissionInv', UNCHANGED <<bridgeVars, gpu>>, GateInv',
         LedgerMoves, UnfinishedKept(0), lastId' = lastId,
         Stopped => Stopped', helperFault => helperFault', Blameless
  PROVE  EngineInv'
<1>0. LedgerInv'
  BY DEF AdmissionInv
<1>1. BridgeInv' /\ IssueKept
  BY <1>0, BridgeAlone
<1>2. GpuInv'
  BY <1>0, <1>1, GpuAlone
<1>3. FaultsAreExternal'
  BY CauseAlone DEF Blameless
<1> QED BY <1>1, <1>2, <1>3 DEF EngineInv, LedgerMoves

(* An upload writes the other generation. *)
LEMMA UploadInv ==
  ASSUME EngineInv, AdmissionInv', NEW r \in Ranks, UploadGeneration(r) \/ UploadDone(r)
  PROVE  EngineInv'
<1>0. GateInv /\ PlaceInv
  BY DEF EngineInv, AdmissionInv
<1>1. UNCHANGED <<ledgerVars, bridgeVars, gpu, phase, snap, helperFault, cause>>
  BY DEF UploadGeneration, UploadDone
<1>2. UNCHANGED <<capacity, activeEpoch, activeSlot, phase>>
  BY <1>1 DEF ledgerVars
<1>3. phase \notin GateHeld
  BY <1>0 DEF UploadGeneration, UploadDone, PlaceInv, GateHeld
<1>4. \A q \in Ranks : binding'[q][activeSlot] = binding[q][activeSlot]
  <2>1. PICK e : binding' = [binding EXCEPT ![r][1 - activeSlot] = e]
    BY DEF UploadGeneration, UploadDone
  <2>2. activeSlot \in Slots /\ 1 - activeSlot # activeSlot
    BY <1>0 DEF PlaceInv, Slots
  <2> QED BY <1>0, <2>1, <2>2 DEF PlaceInv
<1>5. GateInv'
  BY <1>0, <1>2, <1>3, <1>4 DEF GateInv, GateHeld
<1>6. LedgerMoves /\ UnfinishedKept(0) /\ lastId' = lastId /\ (Stopped => Stopped')
  BY <1>1, StopMoves DEF GateQuiet
<1> QED BY <1>1, <1>5, <1>6, OtherMoves DEF Blameless

(* close_and_wait() closes the gate. *)
LEMMA CloseGateInv ==
  ASSUME EngineInv, AdmissionInv', CloseGate
  PROVE  EngineInv'
<1>0. GateInv
  BY DEF EngineInv
<1>1. /\ UNCHANGED <<bridgeVars, gpu, binding, helperFault, cause>> /\ phase' = "draining" /\ Staged
      /\ UNCHANGED <<ring, count, lastId, capacity, activeEpoch, activeSlot, interrupted, fault>>
      /\ closed'
  BY DEF CloseGate, CloseAdmission
<1>2. Staged'
  BY <1>1 DEF Staged
<1>3. GateInv'
  BY <1>0, <1>1, <1>2 DEF GateInv, Phases
<1> QED BY <1>1, <1>3, RingAlone, OtherMoves DEF Stopped, Blameless

(* The drain wait polls, or is over. *)
LEMMA DrainProgressInv ==
  ASSUME EngineInv, AdmissionInv', DrainProgress
  PROVE  EngineInv'
<1>0. GateInv
  BY DEF EngineInv
<1>1. /\ UNCHANGED <<bridgeVars, gpu, binding, copying, snap, helperFault>>
      /\ phase = "draining" /\ phase' \in {"draining", "quiescing"}
      /\ PollTickets \/ UNCHANGED <<ledgerVars, cause>>
  BY DEF DrainProgress
<1>2. LedgerMoves /\ UnfinishedKept(0) /\ GateQuiet /\ lastId' = lastId /\ Blameless
  BY <1>1, PollMoves, CallsQuiet, PollBlameless, StopMoves DEF Blameless
<1>3. UNCHANGED <<binding, activeEpoch, activeSlot, capacity, closed>> /\ (Stopped => Stopped')
  BY <1>1, <1>2 DEF GateQuiet, SameEpoch
<1>4. Staged' <=> Staged
  BY <1>3 DEF Staged
<1>5. GateInv'
  BY <1>0, <1>1, <1>3, <1>4 DEF GateInv, GateHeld, Phases
<1> QED BY <1>1, <1>2, <1>3, <1>5, OtherMoves

(* The rank coordinator's fatal(). *)
LEMMA FatalInv ==
  ASSUME EngineInv, AdmissionInv', NEW why \in {"helper", "deadline"}, Fatal(why)
  PROVE  EngineInv'
<1>0. GateInv
  BY DEF EngineInv
<1>1. /\ FaultBecause(why) /\ helperFault' /\ phase' = "ended"
      /\ UNCHANGED <<bridgeVars, gpu, binding, copying, snap>>
  BY DEF Fatal
<1>2. /\ LedgerMoves /\ UnfinishedKept(0) /\ GateQuiet /\ lastId' = lastId
      /\ cause' = IF Stopped THEN cause ELSE why
  BY <1>1, FaultMoves
<1>3. GateInv'
  BY <1>0, <1>1, <1>2 DEF GateInv, GateHeld, Phases, GateQuiet, SameEpoch
<1> QED BY <1>1, <1>2, <1>3, OtherMoves DEF GateQuiet, Blameless

(* The thread moves on without a call. *)
LEMMA PhaseInv ==
  ASSUME EngineInv, AdmissionInv', HelpersQuiesce \/ CommitPlacement \/ PlacementStops
  PROVE  EngineInv'
<1>0. GateInv
  BY DEF EngineInv
<1>1. UNCHANGED <<ledgerVars, bridgeVars, gpu, binding, copying, snap, helperFault, cause>>
  BY DEF HelpersQuiesce, CommitPlacement, PlacementStops
<1>2. UNCHANGED <<capacity, count, activeEpoch, activeSlot, closed, interrupted, fault, binding>>
  BY <1>1 DEF ledgerVars
<1>3. /\ phase' \in Phases
      /\ phase' \in GateHeld => phase \in GateHeld
      /\ phase' \in {"drained", "committed"} /\ ~Stopped => count = 0
  BY <1>0 DEF HelpersQuiesce, CommitPlacement, PlacementStops, AllRanksConsumed, GateInv, GateHeld, Phases
<1>4. Staged' <=> Staged
  BY <1>2 DEF Staged
<1>5. GateInv'
  BY <1>0, <1>2, <1>3, <1>4 DEF GateInv, Stopped
<1> QED BY <1>1, <1>5, StopMoves, OtherMoves DEF GateQuiet, Blameless

(* r3_moe_reopen_admission(): the staged generation becomes the active one.*)
LEMMA ReopenGateInv ==
  ASSUME EngineInv, AdmissionInv', ReopenGate
  PROVE  EngineInv'
<1>1. CASE Fatal("helper")
  BY <1>1, FatalInv
<1>2. CASE ~Fatal("helper")
  <2>0. GateInv /\ PlaceInv /\ phase \in GateHeld
    BY DEF EngineInv, AdmissionInv, ReopenGate, GateHeld
  <2>1. /\ Reopen(snap.epoch + 1, 1 - activeSlot) /\ phase' = "serving"
        /\ UNCHANGED <<bridgeVars, gpu, binding, copying, snap, helperFault, cause>>
    BY <1>2 DEF ReopenGate
  <2>2. /\ activeEpoch' = activeEpoch + 1 /\ activeSlot' = 1 - activeSlot
        /\ UNCHANGED <<ring, count, lastId, capacity, interrupted, fault>>
    BY <2>0, <2>1 DEF Reopen, PlaceInv
  <2>3. GateInv'
    BY <2>0, <2>1, <2>2 DEF GateInv, GateHeld, Phases, Staged
  <2> QED BY <2>1, <2>2, <2>3, RingAlone, OtherMoves DEF Stopped, Blameless
<1> QED BY <1>1, <1>2

(* The placement thread. *)
LEMMA PlacementInv ==
  ASSUME EngineInv, AdmissionInv', PlacementThread
  PROVE  EngineInv'
<1>1. CASE DrainFails
  BY <1>1, FatalInv DEF DrainFails
<1> QED
  BY <1>1, UploadInv, CloseGateInv, DrainProgressInv, PhaseInv, ReopenGateInv DEF PlacementThread

(* A helper dies, the engine is shut down, or nothing happens. *)
LEMMA OutsideInv ==
  ASSUME EngineInv, AdmissionInv', HelperFails \/ Shutdown \/ UNCHANGED vars
  PROVE  EngineInv'
<1>1. /\ UNCHANGED <<bridgeVars, gpu, placeVars>>
      /\ UNCHANGED ledgerVars \/ Interrupt
      /\ helperFault => helperFault'
      /\ cause' = cause \/ (cause' = "interrupt" /\ "shutdown" \in Failures)
  BY DEF HelperFails, Shutdown, vars, Blame
<1>2. LedgerMoves /\ UnfinishedKept(0) /\ GateQuiet /\ lastId' = lastId
  BY <1>1, StopMoves
<1>3. GateInv'
  BY <1>1, <1>2, GateAlone DEF GateQuiet
<1> QED BY <1>1, <1>2, <1>3, OtherMoves DEF GateQuiet, Blameless

-----------------------------------------------------------------------------
(* Steps that touch a rank's stream: the ledger stands still.              *)

(* A step that leaves the ledger alone changes neither the live ids nor what is valid. *)
LEMMA StillLedger ==
  ASSUME UNCHANGED ledgerVars
  PROVE  /\ Live' = Live /\ lastId' = lastId
         /\ \A x : At(x)' = At(x)
         /\ \A t : (Valid(t)' <=> Valid(t)) /\ (Held(t)' <=> Held(t)) /\ (Reserved(t)' <=> Reserved(t))
<1>1. Live' = Live /\ lastId' = lastId /\ \A x : At(x)' = At(x)
  BY DEF ledgerVars, Live, At
<1> QED BY <1>1 DEF Valid, Held, Reserved

(* A rank that does nothing while another one moves, or that only traps. *)
SameQueue(r) ==
  /\ gpu'[r].stream = gpu[r].stream /\ gpu'[r].requests = gpu[r].requests
  /\ gpu'[r].dev = gpu[r].dev /\ gpu'[r].host = gpu[r].host
  /\ gpu'[r].armed = gpu[r].armed /\ gpu'[r].recorded = gpu[r].recorded

(* Its invariant survives, unless the bridge issues a parent on it. *)
LEMMA QuietRank ==
  ASSUME NEW r \in Ranks, RankInv(r), UNCHANGED ledgerVars, SameQueue(r),
         Issuing' => Issuing /\ issued' = issued /\ passes'[r] = passes[r]
  PROVE  RankInv(r)'
<1>0. /\ Live' = Live /\ lastId' = lastId /\ (\A x : At(x)' = At(x))
      /\ \A t : Valid(t)' <=> Valid(t)
  BY StillLedger
<1>q. /\ Queue(r)' = Queue(r)
      /\ \A k : Of(r, k)' = Of(r, k)
      /\ \A k, op : IsOp(r, k, op)' <=> IsOp(r, k, op)
      /\ \A x : Recorded(r, x)' <=> Recorded(r, x)
      /\ \A x : None(r, x)' <=> None(r, x)
  BY DEF SameQueue, Queue, Of, IsOp, Recorded, None
<1>c. \A x, k : Counts(r, x, k)' <=> Counts(r, x, k)
  BY <1>q DEF Counts, SameQueue
<1>1. StreamOK(r)'
  <2> SUFFICES ASSUME NEW k \in Queue(r)' PROVE Valid(Of(r, k))'
    BY DEF StreamOK
  <2>p. PICK t : t = Of(r, k)
    OBVIOUS
  <2>1. Valid(t)'
    BY <1>0, <1>q, <2>p DEF RankInv, StreamOK
  <2>2. Of(r, k)' = t
    BY <1>q, <2>p
  <2> QED BY <2>1, <2>2 DEF Valid
<1>2. PairOK(r)'
  BY <1>q DEF RankInv, PairOK
<1>3. BalanceOK(r)'
  BY <1>q DEF RankInv, BalanceOK, Between, SameQueue
<1>4. SealOK(r)'
  BY <1>q, <1>c DEF RankInv, SealOK
<1>5. EventOK(r)'
  BY <1>q DEF RankInv, EventOK
<1>6. MarkOK(r)'
  <2> SUFFICES ASSUME NEW i \in Indices
               PROVE  /\ gpu'[r].recorded[i] <= lastId'
                      /\ gpu'[r].recorded[i] \in Live' => At(gpu[r].recorded[i])'.bound
                      /\ gpu'[r].dev[i].id <= lastId'
                      /\ gpu'[r].dev[i].id \in Live' => Valid(gpu[r].dev[i])'
    BY DEF MarkOK, SameQueue, At
  <2>p. PICK d, x : d = gpu[r].dev[i] /\ x = gpu[r].recorded[i]
    OBVIOUS
  <2>1. /\ x <= lastId /\ (x \in Live => At(x).bound)
        /\ d.id <= lastId /\ (d.id \in Live => Valid(d))
    BY <2>p DEF RankInv, MarkOK
  <2>2. (d.id \in Live' => Valid(d)') /\ (x \in Live' => At(x)'.bound)
    BY <1>0, <2>1
  <2>3. gpu'[r].recorded[i] = x /\ gpu'[r].dev[i] = d
    BY <2>p DEF SameQueue
  <2> QED BY <1>0, <2>1, <2>2, <2>3, <2>p DEF Valid
<1>7. SealedOK(r)'
  BY <1>0, <1>q DEF RankInv, SealedOK, SealMatches, SameQueue
<1>8. ProvenOK(r)'
  BY <1>0, <1>q DEF RankInv, ProvenOK
<1>9. PassOK(r)'
  BY <1>q, <1>c DEF RankInv, PassOK, SameQueue
<1>10. CountOK(r)'
  <2>1. \A x : Done(r, x)' = Done(r, x)
    BY DEF SameQueue, Done
  <2> QED BY <1>q, <2>1 DEF RankInv, CountOK, Numbers, SameQueue
<1> QED BY <1>1, <1>2, <1>3, <1>4, <1>5, <1>6, <1>7, <1>8, <1>9, <1>10 DEF RankInv

(* The head of a stream is gone. *)
Popped(r) ==
  /\ 1 \in Queue(r)
  /\ Len(gpu[r].stream) \in Nat \ {0} /\ Len(gpu'[r].stream) + 1 = Len(gpu[r].stream)
  /\ \A k : k \in Queue(r)' <=> (k \in Nat \ {0} /\ k + 1 \in Queue(r))
  /\ \A k \in Queue(r)' : Of(r, k)' = Of(r, k + 1) /\ \A op : IsOp(r, k, op)' <=> IsOp(r, k + 1, op)
  /\ gpu'[r].armed = gpu[r].armed /\ gpu'[r].recorded = gpu[r].recorded

(* Taking the head off a stream renumbers the rest by one. *)
LEMMA TailPops ==
  ASSUME NEW r \in Ranks, gpu[r].stream \in Seq(Op), gpu[r].stream # <<>>,
         gpu'[r].stream = Tail(gpu[r].stream),
         gpu'[r].armed = gpu[r].armed, gpu'[r].recorded = gpu[r].recorded
  PROVE  Popped(r)
<1>p. PICK s, n : s = gpu[r].stream /\ n = Len(s)
  OBVIOUS
<1>1. n \in Nat \ {0} /\ Len(Tail(s)) = n - 1 /\ \A k \in 1..(n - 1) : Tail(s)[k] = s[k + 1]
  BY <1>p
<1>2. Queue(r) = 1..n /\ Queue(r)' = 1..(n - 1)
  BY <1>1, <1>p DEF Queue
<1>3. \A k \in 1..(n - 1) : Of(r, k)' = Of(r, k + 1) /\ \A op : IsOp(r, k, op)' <=> IsOp(r, k + 1, op)
  BY <1>1, <1>p DEF Of, IsOp
<1>4. \A k : k \in Queue(r)' <=> (k \in Nat \ {0} /\ k + 1 \in Queue(r))
  BY <1>1, <1>2
<1>5. Len(gpu[r].stream) \in Nat \ {0} /\ Len(gpu'[r].stream) + 1 = Len(gpu[r].stream)
  BY <1>1, <1>p
<1> QED BY <1>1, <1>2, <1>3, <1>4, <1>5 DEF Popped

(* What a kernel's stamps must keep: a counted parent stays counted, a     *)
(* publish counts its own, and stamps name live tickets.                   *)
StampsKept(r) ==
  /\ \A x \in Live : gpu[r].dev[Index(x)].id = x => gpu'[r].dev[Index(x)].id = x
  /\ IsOp(r, 1, "publish") => gpu'[r].dev[Index(Of(r, 1).id)].id = Of(r, 1).id
  /\ \A i \in Indices : /\ gpu'[r].dev[i].id <= lastId
                        /\ gpu'[r].dev[i].id \in Live => Valid(gpu'[r].dev[i])

SealsKept(r) ==
  \A x \in Live :
    (IsOp(r, 1, "seal") /\ Of(r, 1).id = x) \/ SealMatches(gpu[r].host[Index(x)], At(x))
      => SealMatches(gpu'[r].host[Index(x)], At(x))

(* A rank keeps its invariant when the head of its stream is executed. *)
LEMMA PopKeeps ==
  ASSUME EngineInv, NEW r \in Ranks, UNCHANGED <<ledgerVars, bridgeVars>>,
         Popped(r), StampsKept(r), SealsKept(r), BalanceOK(r)', CountOK(r)'
  PROVE  RankInv(r)'
<1>0. /\ Live' = Live /\ lastId' = lastId /\ (\A x : At(x)' = At(x))
      /\ \A t : Valid(t)' <=> Valid(t)
  BY StillLedger
<1>r. RankInv(r) /\ LedgerInv /\ UNCHANGED <<pc, ahead, issued, passes>>
  BY DEF EngineInv, GpuInv, AdmissionInv, bridgeVars
<1>q. /\ \A k \in Queue(r)' : k \in Nat \ {0} /\ k + 1 \in Queue(r) /\ Of(r, k)' = Of(r, k + 1)
      /\ \A k \in Queue(r)' : \A op : IsOp(r, k, op)' <=> IsOp(r, k + 1, op)
      /\ \A k \in Queue(r) : k \in Nat \ {0} /\ (k # 1 => k - 1 \in Queue(r)')
      /\ \A x : Recorded(r, x)' <=> Recorded(r, x)
  <2>1. \A k \in Queue(r) : k \in Nat \ {0}
    BY DEF Queue
  <2>2. \A k \in Queue(r) : k # 1 => k - 1 \in Nat \ {0} /\ (k - 1) + 1 = k
    BY <2>1
  <2> QED BY <2>1, <2>2 DEF Popped, Recorded
<1>s. \A k \in Queue(r) : Of(r, k).id \in Live
  BY <1>r DEF RankInv, StreamOK, Valid
<1>c. ASSUME NEW x \in Live, NEW k \in Nat \ {0}, Counts(r, x, k + 1)
      PROVE  Counts(r, x, k)'
  <2>1. CASE gpu[r].dev[Index(x)].id = x
    BY <2>1 DEF StampsKept, Counts
  <2>2. CASE \E m \in Queue(r) : m < k + 1 /\ IsOp(r, m, "publish") /\ Of(r, m).id = x
    <3>1. PICK m \in Queue(r) : m < k + 1 /\ IsOp(r, m, "publish") /\ Of(r, m).id = x
      BY <2>2
    <3>2. CASE m = 1
      BY <3>1, <3>2 DEF StampsKept, Counts
    <3>3. CASE m # 1
      <4>1. m - 1 \in Queue(r)' /\ m - 1 < k /\ (m - 1) + 1 = m
        BY <1>q, <3>1, <3>3
      <4>2. IsOp(r, m - 1, "publish")' /\ Of(r, m - 1)'.id = x
        BY <1>q, <3>1, <4>1
      <4> QED BY <4>1, <4>2 DEF Counts
    <3> QED BY <3>2, <3>3
  <2> QED BY <1>c, <2>1, <2>2 DEF Counts
<1>1. StreamOK(r)'
  <2> SUFFICES ASSUME NEW k \in Queue(r)' PROVE Valid(Of(r, k))'
    BY DEF StreamOK
  <2>p. PICK t : t = Of(r, k + 1)
    OBVIOUS
  <2>1. Valid(t)'
    BY <1>0, <1>q, <1>r, <2>p DEF RankInv, StreamOK
  <2>2. Of(r, k)' = t
    BY <1>q, <2>p
  <2> QED BY <2>1, <2>2 DEF Valid
<1>2. PairOK(r)'
  <2> SUFFICES ASSUME NEW k \in Queue(r)'
               PROVE  /\ IsOp(r, k, "publish")' =>
                           /\ k + 1 \in Queue(r)' /\ IsOp(r, k + 1, "finish")'
                           /\ Of(r, k + 1)' = Of(r, k)'
                      /\ IsOp(r, k, "finish")' /\ k > 1 => IsOp(r, k - 1, "publish")'
    BY DEF PairOK
  <2>1. k \in Nat \ {0} /\ k + 1 \in Queue(r) /\ Of(r, k)' = Of(r, k + 1)
        /\ (IsOp(r, k, "publish")' <=> IsOp(r, k + 1, "publish"))
        /\ (IsOp(r, k, "finish")' <=> IsOp(r, k + 1, "finish"))
    BY <1>q
  <2>2. ASSUME IsOp(r, k + 1, "publish")
        PROVE  k + 1 \in Queue(r)' /\ IsOp(r, k + 1, "finish")' /\ Of(r, k + 1)' = Of(r, k + 1)
    <3>1. (k + 1) + 1 \in Queue(r) /\ IsOp(r, (k + 1) + 1, "finish") /\ Of(r, (k + 1) + 1) = Of(r, k + 1)
      BY <1>r, <2>1, <2>2 DEF RankInv, PairOK
    <3>2. (k + 1) + 1 # 1 /\ ((k + 1) + 1) - 1 = k + 1
      BY <2>1
    <3>3. k + 1 \in Queue(r)'
      BY <1>q, <3>1, <3>2
    <3> QED BY <1>q, <3>1, <3>3
  <2>3. ASSUME IsOp(r, k + 1, "finish"), k > 1 PROVE IsOp(r, k - 1, "publish")'
    <3>1. IsOp(r, k, "publish") /\ k \in Queue(r)
      BY <1>r, <2>1, <2>3 DEF RankInv, PairOK, Queue
    <3>2. k - 1 \in Queue(r)' /\ (k - 1) + 1 = k
      BY <1>q, <2>1, <2>3, <3>1
    <3> QED BY <1>q, <3>1, <3>2
  <2> QED BY <2>1, <2>2, <2>3
<1>3. SealOK(r)'
  <2> SUFFICES ASSUME NEW k \in Queue(r)', IsOp(r, k, "seal")' PROVE Counts(r, Of(r, k).id, k)'
    BY DEF SealOK
  <2>p. PICK x : x = Of(r, k + 1).id
    OBVIOUS
  <2>1. k \in Nat \ {0} /\ k + 1 \in Queue(r) /\ IsOp(r, k + 1, "seal") /\ Of(r, k)'.id = x /\ x \in Live
    BY <1>q, <1>s, <2>p
  <2>2. Counts(r, x, k + 1)
    BY <1>r, <2>1, <2>p DEF RankInv, SealOK
  <2>3. Counts(r, x, k)'
    BY <1>c, <2>1, <2>2
  <2> QED BY <2>1, <2>3 DEF Counts
<1>4. EventOK(r)'
  <2> SUFFICES ASSUME NEW k \in Queue(r)', Recorded(r, Of(r, k).id)'
               PROVE  \E m \in Queue(r)' : m >= k /\ IsOp(r, m, "event")' /\ Of(r, m)'.id = Of(r, k)'.id
    BY DEF EventOK
  <2>p. PICK x : x = Of(r, k + 1).id
    OBVIOUS
  <2>1. k \in Nat \ {0} /\ k + 1 \in Queue(r) /\ Of(r, k)'.id = x
    BY <1>q, <2>p
  <2>2. Recorded(r, x)
    BY <1>q, <2>1 DEF Recorded
  <2>3. PICK m \in Queue(r) : m >= k + 1 /\ IsOp(r, m, "event") /\ Of(r, m).id = x
    BY <1>r, <2>1, <2>2, <2>p DEF RankInv, EventOK
  <2>4. m - 1 \in Queue(r)' /\ m - 1 >= k /\ (m - 1) + 1 = m
    BY <1>q, <2>1, <2>3
  <2> QED BY <1>q, <2>1, <2>3, <2>4
<1>5. MarkOK(r)'
  <2> SUFFICES ASSUME NEW i \in Indices
               PROVE  /\ gpu'[r].recorded[i] <= lastId'
                      /\ gpu'[r].recorded[i] \in Live' => At(gpu[r].recorded[i])'.bound
                      /\ gpu'[r].dev[i].id <= lastId'
                      /\ gpu'[r].dev[i].id \in Live' => Valid(gpu[r].dev[i])'
    BY DEF MarkOK, Popped, At
  <2>p. PICK d, x : d = gpu'[r].dev[i] /\ x = gpu[r].recorded[i]
    OBVIOUS
  <2>1. x <= lastId /\ (x \in Live => At(x).bound)
    BY <1>r, <2>p DEF RankInv, MarkOK
  <2>2. d.id <= lastId /\ (d.id \in Live => Valid(d))
    BY <2>p DEF StampsKept
  <2>3. (d.id \in Live' => Valid(d)') /\ (x \in Live' => At(x)'.bound)
    BY <1>0, <2>1, <2>2
  <2> QED BY <1>0, <2>1, <2>2, <2>3, <2>p DEF Valid, Popped
<1>6. SealedOK(r)'
  <2> SUFFICES ASSUME NEW x \in Live, Recorded(r, x)
               PROVE  /\ gpu'[r].armed[Index(x)] = x
                      /\ \/ \E k \in Queue(r)' : IsOp(r, k, "seal")' /\ Of(r, k)'.id = x
                         \/ SealMatches(gpu'[r].host[Index(x)], At(x))
    BY <1>0, <1>q DEF SealedOK, SealMatches
  <2>1. gpu'[r].armed[Index(x)] = x
    BY <1>r DEF RankInv, SealedOK, Popped
  <2>2. CASE SealMatches(gpu[r].host[Index(x)], At(x))
    BY <2>1, <2>2 DEF SealsKept
  <2>3. ASSUME NEW k \in Queue(r), IsOp(r, k, "seal"), Of(r, k).id = x
        PROVE  \/ \E j \in Queue(r)' : IsOp(r, j, "seal")' /\ Of(r, j)'.id = x
               \/ SealMatches(gpu'[r].host[Index(x)], At(x))
    <3>1. CASE k = 1
      BY <2>3, <3>1 DEF SealsKept
    <3>2. CASE k # 1
      <4>1. k - 1 \in Queue(r)' /\ (k - 1) + 1 = k
        BY <1>q, <3>2
      <4> QED BY <1>q, <2>3, <4>1
    <3> QED BY <3>1, <3>2
  <2> QED BY <1>r, <2>1, <2>2, <2>3 DEF RankInv, SealedOK
<1>7. ProvenOK(r)'
  <2> SUFFICES ASSUME NEW x \in Live, r \in At(x).proven, NEW k \in Queue(r)' PROVE Of(r, k)'.id # x
    BY <1>0 DEF ProvenOK, None
  <2> QED BY <1>q, <1>r DEF RankInv, ProvenOK, None
<1>8. PassOK(r)'
  <2> SUFFICES ASSUME Issuing
               PROVE  /\ ~Recorded(r, issued.id)'
                      /\ passes[r] > 0 => /\ gpu'[r].armed[Index(issued.id)] = issued.id
                                          /\ Counts(r, issued.id, Len(gpu[r].stream) + 1)'
    BY <1>r DEF PassOK, Issuing, Recorded, Counts
  <2>p. PICK x, n : x = issued.id /\ n = Len(gpu[r].stream)
    OBVIOUS
  <2>1. /\ ~Recorded(r, x) /\ x \in Live
        /\ passes[r] > 0 => gpu[r].armed[Index(x)] = x /\ Counts(r, x, n + 1)
    BY <1>r, <2>p DEF RankInv, PassOK, EngineInv, BridgeInv, Held, Valid
  <2>2. n \in Nat \ {0} /\ Len(gpu'[r].stream) + 1 = n
    BY <2>p DEF Popped
  <2>3. passes[r] > 0 => Counts(r, x, n)'
    BY <1>c, <2>1, <2>2
  <2>4. issued' = issued /\ ~Recorded(r, x)'
    BY <1>q, <1>r, <2>1
  <2>5. ~Recorded(r, issued.id)'
    BY <2>4, <2>p DEF Recorded
  <2>6. passes[r] > 0 => Counts(r, issued.id, Len(gpu[r].stream) + 1)'
    BY <2>2, <2>3, <2>4, <2>p DEF Counts
  <2> QED BY <2>1, <2>5, <2>6, <2>p DEF Popped
<1> QED BY <1>1, <1>2, <1>3, <1>4, <1>5, <1>6, <1>7, <1>8 DEF RankInv

-----------------------------------------------------------------------------
(* The kernels.                                                            *)

(* One rank's GPU moves to the state w. *)
GpuSet(r, w) == gpu' = [gpu EXCEPT ![r] = w]

(* A step of one rank's stream that keeps that rank's invariant keeps the whole. *)
LEMMA ExecMoves ==
  ASSUME EngineInv, AdmissionInv', NEW r \in Ranks, NEW w \in Gpus, GpuSet(r, w),
         UNCHANGED <<ledgerVars, bridgeVars, placeVars, helperFault, cause>>,
         gpu[r].trap = "none", RankInv(r)'
  PROVE  EngineInv'
<1>0. gpu \in [Ranks -> Gpus] /\ LedgerInv'
  BY DEF EngineInv, GpuInv, AdmissionInv
<1>1. gpu' \in [Ranks -> Gpus] /\ gpu'[r] = w /\ \A q \in Ranks : q # r => gpu'[q] = gpu[q]
  BY <1>0 DEF GpuSet
<1>2. LedgerMoves /\ UnfinishedKept(0) /\ GateQuiet /\ lastId' = lastId
  BY StopMoves
<1>3. BridgeInv'
  BY <1>0, <1>2, BridgeAlone DEF GateQuiet
<1>4. ASSUME NEW q \in Ranks PROVE RankInv(q)'
  <2>1. CASE q = r
    BY <2>1
  <2>2. CASE q # r
    <3>1. SameQueue(q) /\ RankInv(q)
      BY <1>1, <2>2 DEF SameQueue, EngineInv, GpuInv
    <3>2. Issuing' => Issuing /\ issued' = issued /\ passes'[q] = passes[q]
      BY DEF bridgeVars, Issuing
    <3> QED BY <3>1, <3>2, QuietRank
  <2> QED BY <2>1, <2>2
<1>5. GpuInv'
  BY <1>1, <1>4 DEF GpuInv
<1>6. GateInv'
  BY <1>2, GateAlone DEF GateQuiet
<1>7. FaultsAreExternal'
  BY <1>1, CauseAlone
<1> QED BY <1>2, <1>3, <1>5, <1>6, <1>7 DEF EngineInv, LedgerMoves

(* A kernel that publishes nothing leaves the numbers of the passes. *)
LEMMA PopCounts ==
  ASSUME EngineInv, NEW r \in Ranks, UNCHANGED bridgeVars, Popped(r),
         \A x \in Live : Done(r, x)' = Done(r, x),
         \A i \in Indices : Bounded(gpu'[r].dev[i]) /\ Bounded(gpu'[r].host[i])
  PROVE  CountOK(r)'
<1>0. CountOK(r) /\ StreamOK(r) /\ (Issuing => issued.id \in Live)
  BY DEF EngineInv, GpuInv, RankInv, BridgeInv, Held, Valid
<1>1. PICK no : Numbers(r, no)
  BY <1>0 DEF CountOK
<1>2. UNCHANGED <<issued, passes>> /\ (Issuing' <=> Issuing)
  BY DEF bridgeVars, Issuing
<1>q. /\ \A k \in Queue(r)' : k \in Nat \ {0} /\ k + 1 \in Queue(r) /\ Of(r, k)' = Of(r, k + 1)
      /\ \A k \in Queue(r)' : \A op : IsOp(r, k, op)' <=> IsOp(r, k + 1, op)
  BY DEF Popped
<1>3. PICK new : new \in [Queue(r)' -> 1..MaxPasses] /\ \A k \in Queue(r)' : new[k] = no[k + 1]
  <2> DEFINE f == [k \in Queue(r)' |-> no[k + 1]]
  <2>1. f \in [Queue(r)' -> 1..MaxPasses] /\ \A k \in Queue(r)' : f[k] = no[k + 1]
    BY <1>1, <1>q DEF Numbers
  <2> HIDE DEF f
  <2> QED BY <2>1
<1>4. ASSUME NEW k \in Queue(r)', IsOp(r, k, "publish")'
      PROVE  /\ Done(r, Of(r, k).id)' <= Room(new[k] - 1)
             /\ Issuing' /\ Of(r, k)'.id = issued'.id => new[k] <= passes'[r]
             /\ \A m \in Queue(r)' :
                  k < m /\ IsOp(r, m, "publish")' /\ Of(r, m)'.id = Of(r, k)'.id => new[k] < new[m]
  <2>p. PICK x : x = Of(r, k + 1).id
    OBVIOUS
  <2>1. k + 1 \in Queue(r) /\ IsOp(r, k + 1, "publish") /\ Of(r, k)'.id = x /\ new[k] = no[k + 1]
    BY <1>3, <1>4, <1>q, <2>p
  <2>2. /\ Done(r, x) <= Room(no[k + 1] - 1)
        /\ Issuing /\ x = issued.id => no[k + 1] <= passes[r]
        /\ \A m \in Queue(r) :
             k + 1 < m /\ IsOp(r, m, "publish") /\ Of(r, m).id = x => no[k + 1] < no[m]
    BY <1>1, <2>1, <2>p DEF Numbers
  <2>5. x \in Live
    BY <1>0, <2>1, <2>p DEF StreamOK, Valid
  <2>6. Done(r, Of(r, k).id)' = Done(r, x)'
    BY <2>1 DEF Done
  <2>3. Done(r, Of(r, k).id)' = Done(r, x)
    BY <2>5, <2>6
  <2>4. ASSUME NEW m \in Queue(r)', k < m, IsOp(r, m, "publish")', Of(r, m)'.id = x PROVE new[k] < new[m]
    <3>1. m + 1 \in Queue(r) /\ IsOp(r, m + 1, "publish") /\ Of(r, m + 1).id = x /\ k + 1 < m + 1
      BY <1>q, <2>4
    <3> QED BY <1>3, <2>1, <2>2, <3>1
  <2> QED BY <1>2, <2>1, <2>2, <2>3, <2>4
<1>5. Numbers(r, new)'
  BY <1>3, <1>4 DEF Numbers, Room
<1>6. Issuing' => Done(r, issued.id)' <= Room(passes[r])'
  <2>p. PICK x : x = issued.id
    OBVIOUS
  <2>1. Done(r, issued.id)' = Done(r, x)'
    BY <1>2, <2>p DEF Done
  <2> QED BY <1>0, <1>2, <2>1, <2>p DEF CountOK, Room
<1> QED BY <1>5, <1>6 DEF CountOK, Bounded, Room

(* Room for the requests of n passes. *)
LEMMA RoomGrows ==
  /\ \A a \in Nat : Room(a) \in Nat
  /\ \A a \in Nat : a # 0 => Room(a - 1) + MaxRequests = Room(a)
  /\ \A a, b \in Nat : a <= b => Room(a) <= Room(b)
<1>1. MaxRequests \in Nat
  BY AdmissionAssumption
<1>2. \A a \in Nat : a * MaxRequests \in Nat
  BY <1>1
<1>3. \A a \in Nat : a # 0 => (a - 1) * MaxRequests + MaxRequests = a * MaxRequests
  BY <1>1
<1>4. \A a, b \in Nat : a <= b => a * MaxRequests <= b * MaxRequests
  BY <1>1
<1> QED BY <1>2, <1>3, <1>4 DEF Room

(* A publish uses up the number of its pass. *)
LEMMA PublishCounts ==
  ASSUME EngineInv, NEW r \in Ranks, UNCHANGED bridgeVars, Popped(r), NEW no, Numbers(r, no),
         NEW x \in Live, Of(r, 1).id = x, NEW a \in 1..MaxPasses, a = no[1],
         Issuing /\ x = issued.id => a <= passes[r],
         \A m \in Queue(r) : 1 < m /\ IsOp(r, m, "publish") /\ Of(r, m).id = x => a < no[m],
         Done(r, x)' <= Room(a), \A y \in Live : y # x => Done(r, y)' = Done(r, y),
         Done(r, x)' \in Nat,
         \A i \in Indices : Bounded(gpu'[r].dev[i]) /\ Bounded(gpu'[r].host[i])
  PROVE  CountOK(r)'
<1>0. /\ CountOK(r) /\ StreamOK(r) /\ (Issuing => issued.id \in Live)
      /\ passes[r] \in 0..MaxPasses
  BY DEF EngineInv, GpuInv, RankInv, BridgeInv, BridgeTypes, Held, Valid
<1>2. UNCHANGED <<issued, passes>> /\ (Issuing' <=> Issuing)
  BY DEF bridgeVars, Issuing
<1>q. /\ \A k \in Queue(r)' : k \in Nat \ {0} /\ k + 1 \in Queue(r) /\ Of(r, k)' = Of(r, k + 1)
      /\ \A k \in Queue(r)' : \A op : IsOp(r, k, op)' <=> IsOp(r, k + 1, op)
  BY DEF Popped
<1>b. ASSUME NEW b \in Nat, a <= b PROVE Done(r, x)' <= Room(b)
  <2>1. a \in Nat /\ Room(a) \in Nat /\ Room(b) \in Nat /\ Room(a) <= Room(b)
    BY <1>b, RoomGrows, AdmissionAssumption
  <2> QED BY <2>1
<1>3. PICK new : new \in [Queue(r)' -> 1..MaxPasses] /\ \A k \in Queue(r)' : new[k] = no[k + 1]
  <2> DEFINE f == [k \in Queue(r)' |-> no[k + 1]]
  <2>1. f \in [Queue(r)' -> 1..MaxPasses] /\ \A k \in Queue(r)' : f[k] = no[k + 1]
    BY <1>q DEF Numbers
  <2> HIDE DEF f
  <2> QED BY <2>1
<1>4. ASSUME NEW k \in Queue(r)', IsOp(r, k, "publish")'
      PROVE  /\ Done(r, Of(r, k).id)' <= Room(new[k] - 1)
             /\ Issuing' /\ Of(r, k)'.id = issued'.id => new[k] <= passes'[r]
             /\ \A m \in Queue(r)' :
                  k < m /\ IsOp(r, m, "publish")' /\ Of(r, m)'.id = Of(r, k)'.id => new[k] < new[m]
  <2>p. PICK y : y = Of(r, k + 1).id
    OBVIOUS
  <2>1. /\ k + 1 \in Queue(r) /\ IsOp(r, k + 1, "publish") /\ Of(r, k)'.id = y /\ new[k] = no[k + 1]
        /\ 1 < k + 1
    BY <1>3, <1>4, <1>q, <2>p
  <2>2. /\ Done(r, y) <= Room(no[k + 1] - 1)
        /\ Issuing /\ y = issued.id => no[k + 1] <= passes[r]
        /\ \A m \in Queue(r) :
             k + 1 < m /\ IsOp(r, m, "publish") /\ Of(r, m).id = y => no[k + 1] < no[m]
    BY <2>1, <2>p DEF Numbers
  <2>5. y \in Live
    BY <1>0, <2>1, <2>p DEF StreamOK, Valid
  <2>6. Done(r, Of(r, k).id)' = Done(r, y)'
    BY <2>1 DEF Done
  <2>3. Done(r, y)' <= Room(new[k] - 1)
    <3>1. CASE y = x
      <4>1. a < no[k + 1] /\ new[k] \in 1..MaxPasses
        BY <1>3, <2>1, <2>p, <3>1
      <4>2. new[k] - 1 \in Nat /\ a <= new[k] - 1
        BY <2>1, <4>1, AdmissionAssumption
      <4> QED BY <1>b, <3>1, <4>2
    <3>2. CASE y # x
      BY <2>1, <2>2, <2>5, <3>2
    <3> QED BY <3>1, <3>2
  <2>4. ASSUME NEW m \in Queue(r)', k < m, IsOp(r, m, "publish")', Of(r, m)'.id = y PROVE new[k] < new[m]
    <3>1. m + 1 \in Queue(r) /\ IsOp(r, m + 1, "publish") /\ Of(r, m + 1).id = y /\ k + 1 < m + 1
      BY <1>q, <2>4
    <3> QED BY <1>3, <2>1, <2>2, <3>1
  <2> QED BY <1>2, <2>1, <2>2, <2>3, <2>4, <2>6
<1>5. Numbers(r, new)'
  BY <1>3, <1>4 DEF Numbers, Room
<1>6. Issuing' => Done(r, issued.id)' <= Room(passes[r])'
  <2>p. PICK y : y = issued.id
    OBVIOUS
  <2>1. Done(r, issued.id)' = Done(r, y)'
    BY <1>2, <2>p DEF Done
  <2>2. Issuing /\ y # x => Done(r, y)' <= Room(passes[r])
    BY <1>0, <2>p DEF CountOK
  <2>3. Issuing /\ y = x => Done(r, y)' <= Room(passes[r])
    BY <1>0, <1>b, <2>p, AdmissionAssumption
  <2> QED BY <1>2, <2>1, <2>2, <2>3 DEF Room
<1> QED BY <1>5, <1>6 DEF CountOK, Bounded, Room

(* The head of a stream that can run. *)
LEMMA HeadOfStream ==
  ASSUME EngineInv, NEW r \in Ranks, gpu[r].stream # <<>>
  PROVE  /\ gpu[r] \in Gpus /\ gpu[r].stream \in Seq(Op) /\ 1 \in Queue(r) /\ RankInv(r) /\ LedgerInv
         /\ Tail(gpu[r].stream) \in Seq(Op)
         /\ Of(r, 1) \in Ticket /\ Valid(Of(r, 1)) /\ Of(r, 1).id \in Live /\ Of(r, 1).id # 0
         /\ Index(Of(r, 1).id) \in Indices
         /\ Head1(r).ticket = Of(r, 1) /\ \A op : Head1(r).op = op <=> IsOp(r, 1, op)
<1>1. gpu[r] \in Gpus /\ RankInv(r) /\ LedgerInv
  BY DEF EngineInv, GpuInv, AdmissionInv
<1>2. gpu[r].stream \in Seq(Op)
  BY <1>1 DEF Gpus
<1>3. 1 \in Queue(r) /\ gpu[r].stream[1] \in Op /\ Tail(gpu[r].stream) \in Seq(Op)
  BY <1>2 DEF Queue
<1>4. Of(r, 1) \in Ticket
  BY <1>3 DEF Of, Op
<1>5. Valid(Of(r, 1))
  BY <1>1, <1>3 DEF RankInv, StreamOK
<1>6. Of(r, 1).id \in Live
  BY <1>5 DEF Valid
<1> QED BY <1>1, <1>2, <1>3, <1>4, <1>5, <1>6, LiveEntries DEF Head1, Of, IsOp

(* Stamps that keep their parents, while the rest of the host's view stays.*)
LEMMA SameStamps ==
  ASSUME EngineInv, NEW r \in Ranks, ~IsOp(r, 1, "publish"),
         \A i \in Indices : /\ gpu'[r].dev[i].id = gpu[r].dev[i].id
                            /\ gpu'[r].dev[i].epoch = gpu[r].dev[i].epoch
                            /\ gpu'[r].dev[i].slot = gpu[r].dev[i].slot
  PROVE  StampsKept(r)
<1>1. LedgerInv /\ RankInv(r)
  BY DEF EngineInv, GpuInv, AdmissionInv
<1>2. \A x \in Live : Index(x) \in Indices
  BY <1>1, LiveEntries
<1>3. ASSUME NEW i \in Indices
      PROVE  gpu'[r].dev[i].id <= lastId /\ (gpu'[r].dev[i].id \in Live => Valid(gpu'[r].dev[i]))
  <2>p. PICK d, e : d = gpu[r].dev[i] /\ e = gpu'[r].dev[i]
    OBVIOUS
  <2>1. d.id <= lastId /\ (d.id \in Live => Valid(d))
    BY <1>1, <2>p DEF RankInv, MarkOK
  <2>2. e.id = d.id /\ e.epoch = d.epoch /\ e.slot = d.slot
    BY <2>p
  <2>3. e.id <= lastId /\ (e.id \in Live => Valid(e))
    BY <2>1, <2>2 DEF Valid
  <2> QED BY <2>3, <2>p
<1> QED BY <1>2, <1>3 DEF StampsKept

(* Behind anything but a publish there is no finish. *)
LEMMA AfterHead ==
  ASSUME NEW r \in Ranks, PairOK(r), Popped(r), ~IsOp(r, 1, "publish"),
         gpu'[r].stream \in Seq(Op)
  PROVE  Between(r)'
<1> SUFFICES ASSUME gpu'[r].stream # <<>>, IsOp(r, 1, "finish")' PROVE FALSE
  BY DEF Between
<1>1. 1 \in Queue(r)'
  BY DEF Queue
<1>2. 1 + 1 \in Queue(r) /\ IsOp(r, 1 + 1, "finish")
  BY <1>1 DEF Popped
<1> QED BY <1>2 DEF PairOK

(* A terminal event completes. *)
LEMMA ExecEventInv ==
  ASSUME EngineInv, AdmissionInv', NEW r \in Ranks, Exec(r), ExecEvent(r)
  PROVE  EngineInv'
<1>0. gpu[r].stream # <<>> /\ gpu[r].trap = "none"
      /\ UNCHANGED <<ledgerVars, bridgeVars, placeVars, helperFault, cause>>
  BY DEF Exec
<1>h. /\ gpu[r] \in Gpus /\ gpu[r].stream \in Seq(Op) /\ 1 \in Queue(r) /\ RankInv(r) /\ LedgerInv
      /\ Tail(gpu[r].stream) \in Seq(Op) /\ IsOp(r, 1, "event")
  BY <1>0, HeadOfStream DEF ExecEvent
<1> DEFINE w == [gpu[r] EXCEPT !.stream = Tail(@)]
<1>1. GpuSet(r, w)
  BY DEF ExecEvent, Pop, GpuSet
<1>2. /\ w \in Gpus /\ w.stream = Tail(gpu[r].stream) /\ w.armed = gpu[r].armed
      /\ w.recorded = gpu[r].recorded /\ w.dev = gpu[r].dev /\ w.host = gpu[r].host
      /\ w.requests = gpu[r].requests
  BY <1>h DEF Gpus
<1> HIDE DEF w
<1>3. gpu'[r] = w
  BY <1>1 DEF GpuSet, EngineInv, GpuInv
<1>4. Popped(r)
  BY <1>0, <1>2, <1>3, <1>h, TailPops
<1>5. StampsKept(r)
  BY <1>2, <1>3, <1>h, SameStamps DEF IsOp
<1>6. SealsKept(r)
  BY <1>2, <1>3, <1>h DEF SealsKept, IsOp
<1>7. Between(r) /\ Between(r)'
  BY <1>2, <1>3, <1>4, <1>h, AfterHead DEF Between, IsOp, RankInv
<1>8. BalanceOK(r)'
  BY <1>2, <1>3, <1>7, <1>h DEF RankInv, BalanceOK
<1>c. CountOK(r)'
  <2>1. \A x \in Live : Done(r, x)' = Done(r, x)
    BY <1>2, <1>3 DEF Done
  <2>2. \A i \in Indices : Bounded(gpu'[r].dev[i]) /\ Bounded(gpu'[r].host[i])
    BY <1>2, <1>3, <1>h DEF RankInv, CountOK
  <2> QED BY <1>0, <1>4, <2>1, <2>2, PopCounts
<1>9. RankInv(r)'
  BY <1>0, <1>4, <1>5, <1>6, <1>8, <1>c, PopKeeps
<1> QED BY <1>0, <1>1, <1>2, <1>9, ExecMoves

(* What the finish kernel leaves: n more requests are consumed. *)
FinishedGpu(g, i, n) == [g EXCEPT !.dev[i].consumed = @ + n, !.requests = 0]

(* The helper wait, the add and the finish kernel. *)
LEMMA ExecFinishInv ==
  ASSUME EngineInv, AdmissionInv', NEW r \in Ranks, Exec(r), ExecFinish(r)
  PROVE  EngineInv'
<1>0. gpu[r].stream # <<>> /\ gpu[r].trap = "none"
      /\ UNCHANGED <<ledgerVars, bridgeVars, placeVars, helperFault, cause>>
  BY DEF Exec
<1>p. PICK t, i : t = Of(r, 1) /\ i = Index(t.id)
  OBVIOUS
<1>h. /\ gpu[r] \in Gpus /\ gpu[r].stream \in Seq(Op) /\ 1 \in Queue(r) /\ RankInv(r) /\ LedgerInv
      /\ Tail(gpu[r].stream) \in Seq(Op) /\ IsOp(r, 1, "finish") /\ i \in Indices /\ Head1(r).ticket = t
  BY <1>0, <1>p, HeadOfStream DEF ExecFinish
<1>1. CASE gpu' = [gpu EXCEPT ![r] = Trap(@, "helper")]
  <2> DEFINE w == [gpu[r] EXCEPT !.trap = "helper"]
  <2>1. GpuSet(r, w)
    BY <1>1 DEF Trap, GpuSet
  <2>2. /\ w \in Gpus /\ w.stream = gpu[r].stream /\ w.armed = gpu[r].armed
        /\ w.recorded = gpu[r].recorded /\ w.dev = gpu[r].dev /\ w.host = gpu[r].host
        /\ w.requests = gpu[r].requests
    BY <1>h DEF Gpus
  <2> HIDE DEF w
  <2>3. gpu'[r] = w
    BY <2>1 DEF GpuSet, EngineInv, GpuInv
  <2>4. SameQueue(r)
    BY <2>2, <2>3 DEF SameQueue
  <2>5. Issuing' => Issuing /\ issued' = issued /\ passes'[r] = passes[r]
    BY <1>0 DEF bridgeVars, Issuing
  <2>6. RankInv(r)'
    BY <1>0, <1>h, <2>4, <2>5, QuietRank
  <2> QED BY <1>0, <2>1, <2>2, <2>6, ExecMoves
<1>2. CASE GpuSet(r, FinishedGpu(Pop(gpu[r]), Index(Head1(r).ticket.id), gpu[r].requests))
  <2>y. PICK g, n : g = Pop(gpu[r]) /\ n = gpu[r].requests
    OBVIOUS
  <2> DEFINE d == [gpu[r].dev[i] EXCEPT !.consumed = @ + gpu[r].requests]
             v == [gpu[r].dev EXCEPT ![i] = d]
             w == [g EXCEPT !.dev = v, !.requests = 0]
  <2>0. gpu[r].dev \in [Indices -> Stamps] /\ gpu[r].dev[i] \in Stamps /\ gpu[r].requests \in Nat
    BY <1>h, AdmissionAssumption DEF Gpus
  <2>g. /\ g \in Gpus /\ g.stream = Tail(gpu[r].stream) /\ g.armed = gpu[r].armed
        /\ g.recorded = gpu[r].recorded /\ g.dev = gpu[r].dev /\ g.host = gpu[r].host
    BY <1>h, <2>y DEF Gpus, Pop
  <2>e. FinishedGpu(g, i, n) = w
    BY <2>g, <2>y DEF FinishedGpu
  <2>1. GpuSet(r, w)
    BY <1>2, <1>h, <1>p, <2>e, <2>y
  <2>2. /\ d \in Stamps /\ d.id = gpu[r].dev[i].id /\ d.epoch = gpu[r].dev[i].epoch
        /\ d.slot = gpu[r].dev[i].slot /\ d.published = gpu[r].dev[i].published
        /\ d.consumed = gpu[r].dev[i].consumed + gpu[r].requests
    BY <2>0 DEF Stamps
  <2> HIDE DEF d
  <2>3. v \in [Indices -> Stamps] /\ v[i] = d /\ \A j \in Indices : j # i => v[j] = gpu[r].dev[j]
    BY <1>h, <2>0, <2>2
  <2> HIDE DEF v
  <2>z. 0 \in 0..MaxRequests
    BY AdmissionAssumption
  <2>4. /\ w \in Gpus /\ w.stream = Tail(gpu[r].stream) /\ w.armed = gpu[r].armed
        /\ w.recorded = gpu[r].recorded /\ w.dev = v /\ w.host = gpu[r].host
        /\ w.requests = 0
    BY <2>3, <2>g, <2>z DEF Gpus
  <2> HIDE DEF w
  <2>5. gpu'[r] = w
    BY <2>1 DEF GpuSet, EngineInv, GpuInv
  <2>6. Popped(r)
    BY <1>0, <1>h, <2>4, <2>5, TailPops
  <2>7. StampsKept(r)
    <3>1. \A j \in Indices : v[j].id = gpu[r].dev[j].id /\ v[j].epoch = gpu[r].dev[j].epoch
                             /\ v[j].slot = gpu[r].dev[j].slot
      BY <2>2, <2>3
    <3> QED BY <1>h, <2>4, <2>5, <3>1, SameStamps DEF IsOp
  <2>8. SealsKept(r)
    BY <1>h, <2>4, <2>5 DEF SealsKept, IsOp
  <2>9. ~Between(r) /\ Between(r)'
    BY <1>0, <1>h, <2>4, <2>5, <2>6, AfterHead DEF Between, IsOp, RankInv
  <2>10. BalanceOK(r)'
    <3>1. /\ gpu[r].dev[i].published = gpu[r].dev[i].consumed + gpu[r].requests
          /\ \A j \in Indices : j # i => gpu[r].dev[j].published = gpu[r].dev[j].consumed
      BY <1>h, <1>p, <2>9 DEF RankInv, BalanceOK
    <3>2. \A j \in Indices : v[j].published = v[j].consumed
      BY <2>2, <2>3, <3>1
    <3> QED BY <2>4, <2>5, <2>9, <3>2 DEF BalanceOK
  <2>c. CountOK(r)'
    <3>1. \A j \in Indices : v[j].id = gpu[r].dev[j].id /\ v[j].published = gpu[r].dev[j].published
      BY <2>2, <2>3
    <3>2. \A x \in Live : Done(r, x)' = Done(r, x)
      BY <1>h, <2>4, <2>5, <3>1, LiveEntries DEF Done
    <3>3. \A j \in Indices : gpu'[r].dev[j].published = gpu'[r].dev[j].consumed
      BY <2>9, <2>10 DEF BalanceOK
    <3>4. \A j \in Indices : Bounded(gpu'[r].dev[j]) /\ Bounded(gpu'[r].host[j])
      <4>1. \A j \in Indices : Bounded(gpu[r].dev[j]) /\ Bounded(gpu[r].host[j])
        BY <1>h DEF RankInv, CountOK
      <4> QED BY <2>4, <2>5, <3>1, <3>3, <4>1 DEF Bounded
    <3> QED BY <1>0, <2>6, <3>2, <3>4, PopCounts
  <2>11. RankInv(r)'
    BY <1>0, <2>6, <2>7, <2>8, <2>10, <2>c, PopKeeps
  <2> QED BY <1>0, <2>1, <2>4, <2>11, ExecMoves
<1> QED BY <1>1, <1>2 DEF ExecFinish, GpuSet, FinishedGpu

(* A counting slot that names an outstanding parent is its own. *)
LEMMA StampIsOwn ==
  ASSUME EngineInv, NEW r \in Ranks, NEW t, Valid(t), gpu[r].dev[Index(t.id)].id = t.id
  PROVE  Owns(gpu[r].dev[Index(t.id)], t)
<1>1. LedgerInv /\ RankInv(r)
  BY DEF EngineInv, GpuInv, AdmissionInv
<1>2. t.id \in Live /\ t.id # 0 /\ Index(t.id) \in Indices
  BY <1>1, LiveEntries DEF Valid
<1>3. Valid(gpu[r].dev[Index(t.id)])
  BY <1>1, <1>2 DEF RankInv, MarkOK
<1> QED BY <1>2, <1>3 DEF Valid, Owns

(* mailbox_seal_kernel. *)
LEMMA ExecSealInv ==
  ASSUME EngineInv, AdmissionInv', NEW r \in Ranks, Exec(r), ExecSeal(r)
  PROVE  EngineInv'
<1>0. gpu[r].stream # <<>> /\ gpu[r].trap = "none"
      /\ UNCHANGED <<ledgerVars, bridgeVars, placeVars, helperFault, cause>>
  BY DEF Exec
<1>p. PICK t, i, s : t = Of(r, 1) /\ i = Index(t.id) /\ s = gpu[r].dev[i]
  OBVIOUS
<1>h. /\ gpu[r] \in Gpus /\ gpu[r].stream \in Seq(Op) /\ 1 \in Queue(r) /\ RankInv(r) /\ LedgerInv
      /\ Tail(gpu[r].stream) \in Seq(Op) /\ IsOp(r, 1, "seal") /\ i \in Indices /\ Head1(r).ticket = t
      /\ Valid(t) /\ t.id \in Live
  BY <1>0, <1>p, HeadOfStream DEF ExecSeal
<1>b. Between(r)
  BY <1>h DEF Between, IsOp
<1>c. s.id = t.id
  <2>1. Counts(r, t.id, 1)
    BY <1>h, <1>p DEF RankInv, SealOK
  <2>2. \A m \in Queue(r) : ~(m < 1)
    BY DEF Queue
  <2> QED BY <1>p, <2>1, <2>2 DEF Counts
<1>o. Owns(s, t) /\ s.published = s.consumed
  BY <1>b, <1>c, <1>h, <1>p, StampIsOwn DEF RankInv, BalanceOK
<1> DEFINE h == [gpu[r].host EXCEPT ![i] = s]
           w == [gpu[r] EXCEPT !.stream = Tail(@), !.host = h]
<1>1. GpuSet(r, w)
  BY <1>h, <1>o, <1>p DEF ExecSeal, Pop, GpuSet
<1>2. h \in [Indices -> Stamps] /\ h[i] = s /\ \A j \in Indices : j # i => h[j] = gpu[r].host[j]
  BY <1>h, <1>p DEF Gpus
<1> HIDE DEF h
<1>3. /\ w \in Gpus /\ w.stream = Tail(gpu[r].stream) /\ w.armed = gpu[r].armed
      /\ w.recorded = gpu[r].recorded /\ w.dev = gpu[r].dev /\ w.host = h
      /\ w.requests = gpu[r].requests
  BY <1>2, <1>h DEF Gpus
<1> HIDE DEF w
<1>4. gpu'[r] = w
  BY <1>1 DEF GpuSet, EngineInv, GpuInv
<1>5. Popped(r)
  BY <1>0, <1>3, <1>4, <1>h, TailPops
<1>6. StampsKept(r)
  BY <1>3, <1>4, <1>h, SameStamps DEF IsOp
<1>7. SealsKept(r)
  <2> SUFFICES ASSUME NEW x \in Live, x = t.id \/ SealMatches(gpu[r].host[Index(x)], At(x))
               PROVE  SealMatches(h[Index(x)], At(x))
    BY <1>3, <1>4, <1>p DEF SealsKept
  <2>1. CASE x = t.id
    BY <1>2, <1>h, <1>o, <1>p, <2>1 DEF SealMatches, Owns, Valid
  <2>2. CASE x # t.id
    <3>1. Index(x) # i /\ Index(x) \in Indices
      BY <1>h, <1>p, <2>2, LiveEntries
    <3> QED BY <1>2, <2>2, <3>1
  <2> QED BY <2>1, <2>2
<1>8. Between(r)'
  BY <1>3, <1>4, <1>5, <1>h, AfterHead DEF IsOp, RankInv
<1>9. BalanceOK(r)'
  BY <1>3, <1>4, <1>8, <1>b, <1>h DEF RankInv, BalanceOK
<1>k. CountOK(r)'
  <2>1. \A x \in Live : Done(r, x)' = Done(r, x)
    BY <1>3, <1>4 DEF Done
  <2>2. \A j \in Indices : Bounded(gpu[r].dev[j]) /\ Bounded(gpu[r].host[j])
    BY <1>h DEF RankInv, CountOK
  <2>3. \A j \in Indices : Bounded(gpu'[r].dev[j]) /\ Bounded(gpu'[r].host[j])
    BY <1>2, <1>3, <1>4, <1>h, <1>p, <2>2
  <2> QED BY <1>0, <1>5, <2>1, <2>3, PopCounts
<1>10. RankInv(r)'
  BY <1>0, <1>5, <1>6, <1>7, <1>9, <1>k, PopKeeps
<1> QED BY <1>0, <1>1, <1>3, <1>10, ExecMoves

(* The ticket setter and mailbox_publish_kernel. *)
LEMMA ExecPublishInv ==
  ASSUME EngineInv, AdmissionInv', NEW r \in Ranks, Exec(r), ExecPublish(r)
  PROVE  EngineInv'
<1>0. gpu[r].stream # <<>> /\ gpu[r].trap = "none"
      /\ UNCHANGED <<ledgerVars, bridgeVars, placeVars, helperFault, cause>>
  BY DEF Exec
<1>p. PICK t, i, dev : t = Of(r, 1) /\ i = Index(t.id) /\ dev = ArmedStamps(gpu[r].dev, t)
  OBVIOUS
<1>h. /\ gpu[r] \in Gpus /\ gpu[r].stream \in Seq(Op) /\ 1 \in Queue(r) /\ RankInv(r) /\ LedgerInv
      /\ Tail(gpu[r].stream) \in Seq(Op) /\ IsOp(r, 1, "publish") /\ i \in Indices /\ Head1(r).ticket = t
      /\ Valid(t) /\ t.id \in Live /\ t.id # 0 /\ t \in Ticket
  BY <1>0, <1>p, HeadOfStream DEF ExecPublish
<1>b. Between(r) /\ \A j \in Indices : gpu[r].dev[j].published = gpu[r].dev[j].consumed
  BY <1>h DEF Between, IsOp, RankInv, BalanceOK
<1>d. gpu[r].dev \in [Indices -> Stamps]
  BY <1>h DEF Gpus
<1>1. /\ dev \in [Indices -> Stamps] /\ Owns(dev[i], t) /\ dev[i].published = dev[i].consumed
      /\ \A j \in Indices : j # i => dev[j] = gpu[r].dev[j]
  <2>1. CASE gpu[r].dev[i].id = t.id
    BY <1>b, <1>d, <1>h, <1>p, <2>1, StampIsOwn DEF ArmedStamps
  <2>2. CASE gpu[r].dev[i].id # t.id
    <3> DEFINE new == [id |-> t.id, epoch |-> t.epoch, slot |-> t.slot,
                       published |-> 0, consumed |-> 0]
    <3>1. dev = [gpu[r].dev EXCEPT ![i] = new]
      BY <1>p, <2>2 DEF ArmedStamps
    <3>2. new \in Stamps /\ Owns(new, t) /\ new.published = new.consumed
      BY <1>h DEF Stamps, Ticket, Owns
    <3> HIDE DEF new
    <3> QED BY <1>d, <1>h, <3>1, <3>2
  <2> QED BY <2>1, <2>2
<1>2. binding[r][t.slot] = t.epoch
  <2>1. At(t.id).epoch = activeEpoch /\ At(t.id).slot = activeSlot
    BY <1>h, LiveEntries
  <2> QED BY <1>h, <2>1 DEF Valid, EngineInv, GateInv
<1>3. PICK n \in 0..MaxRequests :
        gpu' = [gpu EXCEPT ![r] = [Pop(gpu[r]) EXCEPT
                  !.requests = n, !.dev = [dev EXCEPT ![i].published = @ + n]]]
  BY <1>1, <1>2, <1>h, <1>p DEF ExecPublish
<1> DEFINE d == [dev[i] EXCEPT !.published = @ + n]
           v == [dev EXCEPT ![i] = d]
           w == [gpu[r] EXCEPT !.stream = Tail(@), !.dev = v, !.requests = n]
<1>4. GpuSet(r, w)
  BY <1>3 DEF Pop, GpuSet
<1>n. n \in Nat /\ dev[i] \in Stamps
  BY <1>1, <1>h, AdmissionAssumption
<1>5. /\ d \in Stamps /\ d.id = dev[i].id /\ d.epoch = dev[i].epoch /\ d.slot = dev[i].slot
      /\ d.published = dev[i].published + n /\ d.consumed = dev[i].consumed
  BY <1>n DEF Stamps
<1> HIDE DEF d
<1>6. v \in [Indices -> Stamps] /\ v[i] = d /\ \A j \in Indices : j # i => v[j] = gpu[r].dev[j]
  BY <1>1, <1>5, <1>h
<1> HIDE DEF v
<1>7. /\ w \in Gpus /\ w.stream = Tail(gpu[r].stream) /\ w.armed = gpu[r].armed
      /\ w.recorded = gpu[r].recorded /\ w.dev = v /\ w.host = gpu[r].host
      /\ w.requests = n
  BY <1>6, <1>h DEF Gpus
<1> HIDE DEF w
<1>8. gpu'[r] = w
  BY <1>4 DEF GpuSet, EngineInv, GpuInv
<1>9. Popped(r)
  BY <1>0, <1>7, <1>8, <1>h, TailPops
<1>10. d.id = t.id /\ Valid(d)
  BY <1>1, <1>5, <1>h DEF Owns, Valid
<1>11. StampsKept(r)
  <2>1. ASSUME NEW x \in Live, gpu[r].dev[Index(x)].id = x PROVE v[Index(x)].id = x
    <3>1. Index(x) \in Indices /\ (Index(x) = i => x = t.id)
      BY <1>h, <1>p, LiveEntries
    <3> QED BY <1>6, <1>10, <2>1, <3>1
  <2>2. v[Index(Of(r, 1).id)].id = Of(r, 1).id
    BY <1>6, <1>10, <1>p
  <2>3. ASSUME NEW j \in Indices PROVE v[j].id <= lastId /\ (v[j].id \in Live => Valid(v[j]))
    <3>1. CASE j = i
      BY <1>6, <1>10, <1>h, <3>1, LiveEntries
    <3>2. CASE j # i
      <4>1. v[j] = gpu[r].dev[j]
        BY <1>6, <3>2
      <4> QED BY <1>h, <4>1 DEF RankInv, MarkOK
    <3> QED BY <3>1, <3>2
  <2> QED BY <1>7, <1>8, <2>1, <2>2, <2>3 DEF StampsKept
<1>12. SealsKept(r)
  BY <1>7, <1>8, <1>h DEF SealsKept, IsOp
<1>13. ~Between(r)' /\ Of(r, 1)' = t
  <2>1. 1 + 1 \in Queue(r) /\ IsOp(r, 1 + 1, "finish") /\ Of(r, 1 + 1) = Of(r, 1)
    BY <1>h DEF RankInv, PairOK
  <2>a. 1 \in Queue(r)'
    BY <1>9, <2>1 DEF Popped
  <2>b. Of(r, 1)' = Of(r, 1 + 1) /\ (IsOp(r, 1, "finish")' <=> IsOp(r, 1 + 1, "finish"))
    BY <1>9, <2>a DEF Popped
  <2>2. 1 \in Queue(r)' /\ IsOp(r, 1, "finish")' /\ Of(r, 1)' = t
    BY <1>p, <2>1, <2>a, <2>b
  <2>3. gpu'[r].stream # <<>>
    BY <2>2 DEF Queue
  <2> QED BY <2>2, <2>3 DEF Between
<1>14. BalanceOK(r)'
  <2>1. d.published = d.consumed + n
    BY <1>1, <1>5, <1>n DEF Stamps
  <2>2. Index(Of(r, 1)'.id) = i
    BY <1>13, <1>p
  <2>3. \A j \in Indices : j # i => v[j].published = v[j].consumed
    BY <1>6, <1>b
  <2> QED BY <1>6, <1>7, <1>8, <1>13, <2>1, <2>2, <2>3 DEF BalanceOK
<1>k. CountOK(r)'
  <2>o. PICK no : Numbers(r, no)
    BY <1>h DEF RankInv, CountOK
  <2>a. PICK a : a = no[1]
    OBVIOUS
  <2>1. /\ a \in 1..MaxPasses /\ Done(r, t.id) <= Room(a - 1)
        /\ Issuing /\ t.id = issued.id => a <= passes[r]
        /\ \A m \in Queue(r) : 1 < m /\ IsOp(r, m, "publish") /\ Of(r, m).id = t.id => a < no[m]
    BY <1>h, <1>p, <2>a, <2>o DEF Numbers
  <2>2. Done(r, t.id)' = dev[i].published + n /\ dev[i].published = Done(r, t.id)
        /\ \A x \in Live : x # t.id => Done(r, x)' = Done(r, x)
    <3>1. Done(r, t.id)' = dev[i].published + n
      BY <1>5, <1>6, <1>7, <1>8, <1>10, <1>p DEF Done
    <3>2. dev[i].published = Done(r, t.id)
      BY <1>d, <1>h, <1>p DEF Done, ArmedStamps
    <3>3. ASSUME NEW x \in Live, x # t.id PROVE Done(r, x)' = Done(r, x)
      <4>1. Index(x) \in Indices /\ Index(x) # i
        BY <1>h, <1>p, <3>3, LiveEntries
      <4> QED BY <1>6, <1>7, <1>8, <4>1 DEF Done
    <3> QED BY <3>1, <3>2, <3>3
  <2>3. Done(r, t.id)' <= Room(a) /\ Room(a) <= Room(MaxPasses)
    <3>1. Done(r, t.id)' <= Room(a - 1) + MaxRequests
      <4>1. dev[i].published \in Nat /\ Room(a - 1) \in Nat
        BY <1>n, <2>1, RoomGrows DEF Stamps
      <4> QED BY <1>n, <2>1, <2>2, <4>1, AdmissionAssumption
    <3> QED BY <2>1, <3>1, RoomGrows, AdmissionAssumption
  <2>4. \A j \in Indices : Bounded(gpu'[r].dev[j]) /\ Bounded(gpu'[r].host[j])
    <3>1. \A j \in Indices : Bounded(gpu[r].dev[j]) /\ Bounded(gpu[r].host[j])
      BY <1>h DEF RankInv, CountOK
    <3>2. Bounded(d)
      <4>1. d.published = Done(r, t.id)' /\ d.consumed <= d.published
        BY <1>1, <1>5, <1>n, <2>2 DEF Stamps
      <4>2. d.published \in Nat /\ d.consumed \in Nat /\ Room(a) \in Nat /\ Room(MaxPasses) \in Nat
        BY <1>5, <2>1, RoomGrows, AdmissionAssumption DEF Stamps
      <4> QED BY <2>3, <4>1, <4>2 DEF Bounded
    <3> QED BY <1>6, <1>7, <1>8, <3>1, <3>2
  <2>5. UNCHANGED <<issued, passes>> /\ (Issuing' <=> Issuing)
    BY <1>0 DEF bridgeVars, Issuing
  <2>6. Done(r, t.id)' \in Nat
    BY <1>n, <2>2 DEF Stamps
  <2> QED BY <1>0, <1>9, <1>h, <1>p, <2>1, <2>2, <2>3, <2>4, <2>6, <2>a, <2>o, PublishCounts
<1>15. RankInv(r)'
  BY <1>0, <1>9, <1>11, <1>12, <1>14, <1>k, PopKeeps
<1> QED BY <1>0, <1>4, <1>7, <1>15, ExecMoves

(* A GPU executes. *)
LEMMA ExecInv ==
  ASSUME EngineInv, AdmissionInv', NEW r \in Ranks, Exec(r)
  PROVE  EngineInv'
BY ExecPublishInv, ExecFinishInv, ExecSealInv, ExecEventInv DEF Exec

-----------------------------------------------------------------------------
(* The bridge queues work.                                                 *)

(* Two operations a and b of ticket t are queued behind a stream. *)
Behind(s, t, a, b) == s \o << [op |-> a, ticket |-> t], [op |-> b, ticket |-> t] >>

(* They are the last two of the queue, which is otherwise as it was. *)
Appended(r, n, t, a, b) ==
  /\ n \in Nat /\ n = Len(gpu[r].stream) /\ Len(gpu'[r].stream) = n + 2
  /\ Queue(r) = 1..n /\ Queue(r)' = 1..(n + 2)
  /\ \A k \in 1..n : Of(r, k)' = Of(r, k) /\ \A op : IsOp(r, k, op)' <=> IsOp(r, k, op)
  /\ Of(r, n + 1)' = t /\ Of(r, n + 2)' = t
  /\ \A op : (IsOp(r, n + 1, op)' <=> op = a) /\ (IsOp(r, n + 2, op)' <=> op = b)

(* Queueing two operations leaves what is queued in place and adds them at the end. *)
LEMMA TwoBehind ==
  ASSUME NEW r \in Ranks, gpu[r].stream \in Seq(Op), NEW n, n = Len(gpu[r].stream), NEW t, NEW a, NEW b,
         [op |-> a, ticket |-> t] \in Op, [op |-> b, ticket |-> t] \in Op,
         gpu'[r].stream = Behind(gpu[r].stream, t, a, b)
  PROVE  Appended(r, n, t, a, b) /\ gpu'[r].stream \in Seq(Op)
<1> DEFINE x == [op |-> a, ticket |-> t]
           y == [op |-> b, ticket |-> t]
<1>p. PICK s : s = gpu[r].stream /\ n = Len(s)
  OBVIOUS
<1>1. x.op = a /\ x.ticket = t /\ y.op = b /\ y.ticket = t /\ x \in Op /\ y \in Op
  OBVIOUS
<1>2. Behind(s, t, a, b) = s \o <<x, y>>
  BY DEF Behind
<1> HIDE DEF x, y
<1>3. /\ s \o <<x, y>> \in Seq(Op) /\ Len(s \o <<x, y>>) = n + 2 /\ n \in Nat
      /\ (s \o <<x, y>>)[n + 1] = x /\ (s \o <<x, y>>)[n + 2] = y
      /\ \A k \in 1..n : (s \o <<x, y>>)[k] = s[k]
  BY <1>1, <1>p
<1>4. Queue(r) = 1..n /\ Queue(r)' = 1..(n + 2) /\ Len(gpu[r].stream) = n /\ Len(gpu'[r].stream) = n + 2
  BY <1>2, <1>3, <1>p DEF Queue
<1>5. \A k \in 1..n : Of(r, k)' = Of(r, k) /\ \A op : IsOp(r, k, op)' <=> IsOp(r, k, op)
  BY <1>2, <1>3, <1>p DEF Of, IsOp
<1>6. /\ Of(r, n + 1)' = t /\ Of(r, n + 2)' = t
      /\ \A op : (IsOp(r, n + 1, op)' <=> op = a) /\ (IsOp(r, n + 2, op)' <=> op = b)
  BY <1>1, <1>2, <1>3, <1>p DEF Of, IsOp
<1>8. Appended(r, n, t, a, b)
  BY <1>3, <1>4, <1>5, <1>6 DEF Appended
<1> QED BY <1>2, <1>3, <1>8, <1>p

(* What queueing for a running parent keeps, whatever is queued. *)
LEMMA AppendKeeps ==
  ASSUME EngineInv, NEW r \in Ranks, UNCHANGED ledgerVars, NEW t, Held(t), NEW a, NEW b,
         NEW n, Appended(r, n, t, a, b), a # "finish", gpu[r].stream \in Seq(Op), gpu'[r].stream \in Seq(Op),
         gpu'[r].dev = gpu[r].dev, gpu'[r].requests = gpu[r].requests
  PROVE  /\ StreamOK(r)' /\ BalanceOK(r)' /\ ProvenOK(r)'
         /\ \A x, k : Counts(r, x, k) => Counts(r, x, k)'
<1>0. /\ Live' = Live /\ lastId' = lastId /\ (\A x : At(x)' = At(x))
      /\ \A u : Valid(u)' <=> Valid(u)
  BY StillLedger
<1>r. RankInv(r) /\ Valid(t) /\ ~At(t.id).hostDone /\ t.id \in Live
  BY DEF EngineInv, GpuInv, Held, Valid
<1>q. \A k \in Queue(r)' : (k \in Queue(r) /\ Of(r, k)' = Of(r, k)) \/ Of(r, k)' = t
  <2>1. n \in Nat /\ Queue(r) = 1..n /\ Queue(r)' = 1..(n + 2)
    BY DEF Appended
  <2>2. \A k \in 1..(n + 2) : k \in 1..n \/ k = n + 1 \/ k = n + 2
    BY <2>1
  <2> QED BY <2>1, <2>2 DEF Appended
<1>1. StreamOK(r)'
  <2> SUFFICES ASSUME NEW k \in Queue(r)' PROVE Valid(Of(r, k))'
    BY DEF StreamOK
  <2>p. PICK u : u = Of(r, k)'
    OBVIOUS
  <2>1. Valid(u)
    BY <1>q, <1>r, <2>p DEF RankInv, StreamOK
  <2>2. Valid(u)'
    BY <1>0, <2>1
  <2> QED BY <2>2, <2>p DEF Valid
<1>2. BalanceOK(r)'
  <2>1. CASE gpu[r].stream = <<>>
    <3>1. n + 1 = 1
      BY <2>1 DEF Appended
    <3>2. ~IsOp(r, n + 1, "finish")'
      BY DEF Appended
    <3>3. Between(r) /\ Between(r)'
      BY <2>1, <3>1, <3>2 DEF Between
    <3> QED BY <1>r, <3>3 DEF RankInv, BalanceOK
  <2>2. CASE gpu[r].stream # <<>>
    <3>1. 1 \in Queue(r)
      BY <2>2 DEF Queue
    <3>2. Of(r, 1)' = Of(r, 1) /\ (IsOp(r, 1, "finish")' <=> IsOp(r, 1, "finish"))
      BY <3>1 DEF Appended
    <3>3. gpu'[r].stream # <<>>
      BY <2>2 DEF Appended
    <3>4. Between(r)' <=> Between(r)
      BY <2>2, <3>2, <3>3 DEF Between
    <3> QED BY <1>r, <3>2, <3>4 DEF RankInv, BalanceOK
  <2> QED BY <2>1, <2>2
<1>3. ProvenOK(r)'
  <2> SUFFICES ASSUME NEW x \in Live, r \in At(x).proven, NEW k \in Queue(r)' PROVE Of(r, k)'.id # x
    BY <1>0 DEF ProvenOK, None
  <2>1. At(x).hostDone
    BY DEF EngineInv, ParentInv
  <2> QED BY <1>q, <1>r, <2>1 DEF RankInv, ProvenOK, None
<1>4. ASSUME NEW x, NEW k, Counts(r, x, k) PROVE Counts(r, x, k)'
  <2>1. Queue(r) \subseteq Queue(r)'
    BY DEF Appended
  <2>2. \A m \in Queue(r) : Of(r, m)' = Of(r, m) /\ (IsOp(r, m, "publish")' <=> IsOp(r, m, "publish"))
    BY DEF Appended
  <2> QED BY <1>4, <2>1, <2>2 DEF Counts
<1> QED BY <1>1, <1>2, <1>3, <1>4

(* The assembly of a step that queues for the parent being issued. *)
LEMMA QueueMoves ==
  ASSUME EngineInv, AdmissionInv', UNCHANGED <<ledgerVars, placeVars, helperFault, cause>>,
         gpu' \in [Ranks -> Gpus], \A r \in Ranks : gpu'[r].trap = gpu[r].trap,
         \A r \in Ranks : RankInv(r)', BridgeInv'
  PROVE  EngineInv'
<1>1. LedgerMoves /\ GateQuiet
  BY StopMoves
<1>2. GateInv'
  BY <1>1, GateAlone DEF GateQuiet
<1>3. FaultsAreExternal'
  BY CauseAlone
<1> QED BY <1>1, <1>2, <1>3 DEF EngineInv, GpuInv, LedgerMoves

(* before_pass() and the pass's replay on one rank. *)
LEMMA LaunchPassInv ==
  ASSUME EngineInv, AdmissionInv', NEW r \in Ranks, LaunchPass(r)
  PROVE  EngineInv'
<1>p. PICK t, i : t = issued /\ i = Index(t.id)
  OBVIOUS
<1>0. /\ pc \in {"run", "host"} /\ t # NoTicket /\ passes[r] < MaxPasses
      /\ passes' = [passes EXCEPT ![r] = @ + 1]
      /\ UNCHANGED <<ledgerVars, pc, current, ahead, issued, placeVars, helperFault, cause>>
      /\ pc = "host" => issued = ahead
  BY <1>p DEF LaunchPass
<1>i. BridgeInv /\ LedgerInv /\ gpu \in [Ranks -> Gpus] /\ gpu[r] \in Gpus /\ RankInv(r)
  BY DEF EngineInv, AdmissionInv, GpuInv
<1>h. Issuing /\ Held(t) /\ t \in Ticket
  BY <1>0, <1>i, <1>p DEF Issuing, BridgeInv, BridgeTypes
<1>v. /\ t.id \in Live /\ i \in Indices /\ t.id \in Nat /\ ~Recorded(r, t.id)
      /\ \A x \in Live : Index(x) \in Indices /\ (Index(x) = i => x = t.id)
  <2>1. t.id \in Live /\ ~Recorded(r, t.id)
    BY <1>h, <1>i, <1>p DEF Held, Valid, RankInv, PassOK
  <2> QED BY <1>i, <1>p, <2>1, LiveEntries
<1> DEFINE z == [gpu[r].armed EXCEPT ![i] = t.id]
           s == Behind(gpu[r].stream, t, "publish", "finish")
           w == [gpu[r] EXCEPT !.armed = z, !.stream = s]
<1>1. gpu' = [gpu EXCEPT ![r] = w]
  BY <1>i, <1>p DEF LaunchPass, Behind, Gpus
<1>2. z \in [Indices -> Nat] /\ z[i] = t.id /\ \A j \in Indices : j # i => z[j] = gpu[r].armed[j]
  BY <1>i, <1>v DEF Gpus
<1> HIDE DEF z
<1>3. s \in Seq(Op)
  <2>1. gpu[r].stream \in Seq(Op) /\ [op |-> "publish", ticket |-> t] \in Op /\ [op |-> "finish", ticket |-> t] \in Op
    BY <1>h, <1>i DEF Gpus, Op
  <2> QED BY <2>1 DEF Behind
<1> HIDE DEF s
<1>4. /\ w \in Gpus /\ w.stream = s /\ w.armed = z /\ w.recorded = gpu[r].recorded /\ w.dev = gpu[r].dev
      /\ w.host = gpu[r].host /\ w.requests = gpu[r].requests /\ w.trap = gpu[r].trap
  BY <1>2, <1>3, <1>i DEF Gpus
<1> HIDE DEF w
<1>5. gpu' \in [Ranks -> Gpus] /\ gpu'[r] = w /\ \A q \in Ranks : q # r => gpu'[q] = gpu[q]
  BY <1>1, <1>4, <1>i
<1>n. PICK n : n = Len(gpu[r].stream)
  OBVIOUS
<1>6. Appended(r, n, t, "publish", "finish") /\ gpu[r].stream \in Seq(Op) /\ gpu'[r].stream \in Seq(Op)
  <2>1. gpu[r].stream \in Seq(Op) /\ [op |-> "publish", ticket |-> t] \in Op /\ [op |-> "finish", ticket |-> t] \in Op
    BY <1>h, <1>i DEF Gpus, Op
  <2>2. gpu'[r].stream = Behind(gpu[r].stream, t, "publish", "finish")
    BY <1>4, <1>5 DEF s
  <2> QED BY <1>n, <2>1, <2>2, TwoBehind
<1>7. /\ StreamOK(r)' /\ BalanceOK(r)' /\ ProvenOK(r)'
      /\ \A x, k : Counts(r, x, k) => Counts(r, x, k)'
  BY <1>0, <1>4, <1>5, <1>6, <1>h, AppendKeeps
<1>8. /\ Live' = Live /\ lastId' = lastId /\ (\A x : At(x)' = At(x))
      /\ \A u : Valid(u)' <=> Valid(u)
  BY <1>0, StillLedger
<1>9. \A x : Recorded(r, x)' <=> Recorded(r, x)
  BY <1>4, <1>5 DEF Recorded
<1>q. /\ n \in Nat /\ Queue(r) = 1..n /\ Queue(r)' = 1..(n + 2) /\ Len(gpu'[r].stream) = n + 2
      /\ \A k \in 1..n : Of(r, k)' = Of(r, k) /\ \A op : IsOp(r, k, op)' <=> IsOp(r, k, op)
      /\ Of(r, n + 1)' = t /\ Of(r, n + 2)' = t
      /\ \A op : (IsOp(r, n + 1, op)' <=> op = "publish") /\ (IsOp(r, n + 2, op)' <=> op = "finish")
  BY <1>6 DEF Appended
<1>10. PairOK(r)'
  <2> SUFFICES ASSUME NEW k \in 1..(n + 2)
               PROVE  /\ IsOp(r, k, "publish")' =>
                           /\ k + 1 \in 1..(n + 2) /\ IsOp(r, k + 1, "finish")'
                           /\ Of(r, k + 1)' = Of(r, k)'
                      /\ IsOp(r, k, "finish")' /\ k > 1 => IsOp(r, k - 1, "publish")'
    BY <1>q DEF PairOK
  <2>1. CASE k \in 1..n
    <3>1. IsOp(r, k, "publish") => k + 1 \in 1..n /\ IsOp(r, k + 1, "finish") /\ Of(r, k + 1) = Of(r, k)
      BY <1>i, <1>q, <2>1 DEF RankInv, PairOK
    <3>2. IsOp(r, k, "finish") /\ k > 1 => IsOp(r, k - 1, "publish")
      BY <1>i, <1>q, <2>1 DEF RankInv, PairOK
    <3>3. k > 1 => k - 1 \in 1..n
      BY <1>q, <2>1
    <3> QED BY <1>q, <2>1, <3>1, <3>2, <3>3
  <2>2. CASE k = n + 1
    BY <1>q, <2>2
  <2>3. CASE k = n + 2
    <3>1. k - 1 = n + 1
      BY <1>q, <2>3
    <3> QED BY <1>q, <2>3, <3>1
  <2> QED BY <1>q, <2>1, <2>2, <2>3
<1>11. SealOK(r)'
  <2> SUFFICES ASSUME NEW k \in 1..(n + 2), IsOp(r, k, "seal")' PROVE Counts(r, Of(r, k).id, k)'
    BY <1>q DEF SealOK
  <2>1. k \in 1..n
    BY <1>q
  <2>p. PICK x : x = Of(r, k).id
    OBVIOUS
  <2>2. Of(r, k)'.id = x /\ Counts(r, x, k)
    BY <1>i, <1>q, <2>1, <2>p DEF RankInv, SealOK
  <2>3. Counts(r, x, k)'
    BY <1>7, <2>2
  <2> QED BY <2>2, <2>3 DEF Counts
<1>12. EventOK(r)'
  <2> SUFFICES ASSUME NEW k \in 1..(n + 2), Recorded(r, Of(r, k).id)'
               PROVE  \E m \in 1..(n + 2) : m >= k /\ IsOp(r, m, "event")' /\ Of(r, m)'.id = Of(r, k)'.id
    BY <1>q DEF EventOK
  <2>p. PICK x : x = Of(r, k)'.id
    OBVIOUS
  <2>1. Recorded(r, x)'
    BY <2>p DEF Recorded
  <2>2. Recorded(r, x) /\ x # t.id
    BY <1>9, <1>v, <2>1
  <2>3. k \in 1..n /\ Of(r, k).id = x
    BY <1>q, <2>2, <2>p
  <2>4. PICK m \in 1..n : m >= k /\ IsOp(r, m, "event") /\ Of(r, m).id = x
    BY <1>i, <1>q, <2>2, <2>3 DEF RankInv, EventOK
  <2> QED BY <1>q, <2>4, <2>p
<1>13. MarkOK(r)'
  <2> SUFFICES ASSUME NEW j \in Indices
               PROVE  /\ gpu'[r].recorded[j] <= lastId'
                      /\ gpu'[r].recorded[j] \in Live' => At(gpu[r].recorded[j])'.bound
                      /\ gpu'[r].dev[j].id <= lastId'
                      /\ gpu'[r].dev[j].id \in Live' => Valid(gpu[r].dev[j])'
    BY DEF MarkOK
  <2>p. PICK d, x : d = gpu[r].dev[j] /\ x = gpu[r].recorded[j]
    OBVIOUS
  <2>1. /\ x <= lastId /\ (x \in Live => At(x).bound)
        /\ d.id <= lastId /\ (d.id \in Live => Valid(d))
    BY <1>i, <2>p DEF RankInv, MarkOK
  <2>2. gpu'[r].dev[j] = d /\ gpu'[r].recorded[j] = x
    BY <1>4, <1>5, <2>p
  <2>3. (d.id \in Live' => Valid(d)') /\ (x \in Live' => At(x)'.bound)
    BY <1>8, <2>1
  <2> QED BY <1>8, <2>1, <2>2, <2>3 DEF Valid
<1>14. SealedOK(r)'
  <2> SUFFICES ASSUME NEW x \in Live, Recorded(r, x)
               PROVE  /\ gpu'[r].armed[Index(x)] = x
                      /\ \/ \E k \in Queue(r)' : IsOp(r, k, "seal")' /\ Of(r, k)'.id = x
                         \/ SealMatches(gpu'[r].host[Index(x)], At(x))
    BY <1>8, <1>9 DEF SealedOK, SealMatches
  <2>1. Index(x) # i /\ Index(x) \in Indices
    BY <1>v
  <2>2. gpu'[r].armed[Index(x)] = gpu[r].armed[Index(x)] /\ gpu'[r].host = gpu[r].host
    BY <1>2, <1>4, <1>5, <2>1
  <2>3. \A k \in Queue(r) : k \in Queue(r)' /\ Of(r, k)' = Of(r, k)
                            /\ (IsOp(r, k, "seal")' <=> IsOp(r, k, "seal"))
    BY <1>q
  <2> QED BY <1>i, <2>2, <2>3 DEF RankInv, SealedOK
<1>15. Issuing' <=> Issuing
  BY <1>0 DEF Issuing
<1>16. PassOK(r)'
  <2>1. issued' = t /\ ~Recorded(r, t.id)' /\ gpu'[r].armed[i] = t.id
    BY <1>0, <1>2, <1>4, <1>5, <1>9, <1>p, <1>v
  <2>2. n + 1 \in Queue(r)' /\ n + 1 < Len(gpu'[r].stream) + 1
    BY <1>q
  <2>3. IsOp(r, n + 1, "publish")' /\ Of(r, n + 1)'.id = t.id
    BY <1>q
  <2>4. Counts(r, issued.id, Len(gpu[r].stream) + 1)'
    BY <2>1, <2>2, <2>3 DEF Counts
  <2>5. ~Recorded(r, issued.id)'
    BY <2>1 DEF Recorded
  <2>6. gpu'[r].armed[Index(issued'.id)] = issued'.id
    BY <1>p, <2>1
  <2> QED BY <2>4, <2>5, <2>6 DEF PassOK
<1>k. CountOK(r)'
  <2>o. PICK no : Numbers(r, no)
    BY <1>i DEF RankInv, CountOK
  <2>b. PICK b : b = passes[r] + 1
    OBVIOUS
  <2>0. /\ b \in 1..MaxPasses /\ passes[r] \in Nat /\ passes'[r] = b /\ issued' = t /\ b - 1 = passes[r]
        /\ b \in Nat
    BY <1>0, <1>i, <1>p, <2>b, AdmissionAssumption DEF BridgeInv, BridgeTypes
  <2>1. Done(r, t.id) <= Room(b - 1)
    BY <1>h, <1>i, <1>p, <2>0 DEF RankInv, CountOK
  <2>2. \A x : Done(r, x)' = Done(r, x)
    BY <1>4, <1>5 DEF Done
  <2> DEFINE new == [k \in 1..(n + 2) |-> IF k \in 1..n THEN no[k] ELSE b]
  <2>3. /\ new \in [1..(n + 2) -> 1..MaxPasses] /\ new[n + 1] = b
        /\ \A k \in 1..n : new[k] = no[k] /\ no[k] \in 1..MaxPasses
    <3>1. \A k \in 1..n : no[k] \in 1..MaxPasses
      BY <1>q, <2>o DEF Numbers
    <3>2. n + 1 \in 1..(n + 2) /\ n + 1 \notin 1..n /\ \A k \in 1..n : k \in 1..(n + 2)
      BY <1>q
    <3> QED BY <2>0, <3>1, <3>2
  <2> HIDE DEF new
  <2>4. \A k \in 1..n : IsOp(r, k, "publish") =>
          /\ Done(r, Of(r, k).id) <= Room(no[k] - 1)
          /\ Of(r, k).id = t.id => no[k] <= passes[r]
          /\ \A m \in 1..n :
               k < m /\ IsOp(r, m, "publish") /\ Of(r, m).id = Of(r, k).id => no[k] < no[m]
    BY <1>h, <1>p, <1>q, <2>o DEF Numbers
  <2>5. ASSUME NEW k \in 1..(n + 2), IsOp(r, k, "publish")'
        PROVE  /\ Done(r, Of(r, k).id)' <= Room(new[k] - 1)
               /\ Of(r, k)'.id = t.id => new[k] <= b
               /\ \A m \in 1..(n + 2) :
                    k < m /\ IsOp(r, m, "publish")' /\ Of(r, m)'.id = Of(r, k)'.id => new[k] < new[m]
    <3>p. PICK x : x = Of(r, k)'.id
      OBVIOUS
    <3>d. Done(r, Of(r, k).id)' = Done(r, x)
      <4>1. Done(r, Of(r, k).id)' = Done(r, x)'
        BY <3>p DEF Done
      <4> QED BY <2>2, <4>1
    <3>m. \A m \in 1..(n + 2) : IsOp(r, m, "publish")' => m \in 1..n \/ m = n + 1
      <4>1. \A m \in 1..(n + 2) : m \in 1..n \/ m = n + 1 \/ m = n + 2
        BY <1>q
      <4> QED BY <1>q, <4>1
    <3>1. CASE k \in 1..n
      <4>1. /\ IsOp(r, k, "publish") /\ Of(r, k).id = x /\ new[k] = no[k]
        BY <1>q, <2>3, <2>5, <3>1, <3>p
      <4>2. Done(r, x) <= Room(new[k] - 1) /\ (x = t.id => new[k] <= passes[r])
        BY <2>4, <3>1, <4>1
      <4>3. x = t.id => new[k] <= b /\ new[k] < b
        BY <2>0, <2>3, <3>1, <4>2
      <4>4. ASSUME NEW m \in 1..(n + 2), k < m, IsOp(r, m, "publish")', Of(r, m)'.id = x PROVE new[k] < new[m]
        <5>1. CASE m \in 1..n
          BY <1>q, <2>3, <2>4, <3>1, <4>1, <4>4, <5>1
        <5>2. CASE m = n + 1
          BY <1>q, <2>3, <4>3, <4>4, <5>2
        <5> QED BY <3>m, <4>4, <5>1, <5>2
      <4> QED BY <3>d, <3>p, <4>2, <4>3, <4>4
    <3>2. CASE k = n + 1
      <4>1. x = t.id /\ new[k] = b
        BY <1>q, <2>3, <3>2, <3>p
      <4>2. \A m \in 1..(n + 2) : k < m => ~IsOp(r, m, "publish")'
        BY <1>q, <3>2, <3>m
      <4> QED BY <2>0, <2>1, <3>d, <4>1, <4>2
    <3> QED BY <2>5, <3>1, <3>2, <3>m
  <2>6. Numbers(r, new)'
    BY <1>q, <2>0, <2>3, <2>5 DEF Numbers, Room
  <2>7. Done(r, issued.id)' <= Room(passes[r])'
    <3>1. Done(r, issued.id)' = Done(r, t.id)
      <4>1. Done(r, issued.id)' = Done(r, t.id)'
        BY <2>0 DEF Done
      <4> QED BY <2>2, <4>1
    <3>2. Room(b - 1) <= Room(b) /\ Room(b) \in Nat /\ Room(b - 1) \in Nat
      BY <2>0, RoomGrows
    <3>3. Done(r, t.id) \in Nat
      <4>1. gpu[r].dev[i] \in Stamps
        BY <1>i, <1>v DEF Gpus
      <4> QED BY <1>p, <4>1 DEF Done, Stamps
    <3>4. Done(r, issued.id)' <= Room(b)
      BY <2>1, <3>1, <3>2, <3>3
    <3> QED BY <2>0, <3>4 DEF Room
  <2>8. \A j \in Indices : Bounded(gpu'[r].dev[j]) /\ Bounded(gpu'[r].host[j])
    BY <1>4, <1>5, <1>i DEF RankInv, CountOK
  <2> QED BY <2>6, <2>7, <2>8 DEF CountOK, Bounded, Room
<1>17. ASSUME NEW q \in Ranks PROVE RankInv(q)'
  <2>1. CASE q = r
    BY <1>k, <1>7, <1>10, <1>11, <1>12, <1>13, <1>14, <1>16, <2>1 DEF RankInv
  <2>2. CASE q # r
    <3>1. SameQueue(q) /\ RankInv(q)
      BY <1>5, <2>2 DEF SameQueue, EngineInv, GpuInv
    <3>2. Issuing' => Issuing /\ issued' = issued /\ passes'[q] = passes[q]
      BY <1>0, <1>15, <1>i, <2>2 DEF BridgeInv, BridgeTypes
    <3> QED BY <1>0, <3>1, <3>2, QuietRank
  <2> QED BY <2>1, <2>2
<1>18. BridgeInv'
  <2>1. passes' \in [Ranks -> 0..MaxPasses]
    BY <1>0, <1>i, AdmissionAssumption DEF BridgeInv, BridgeTypes
  <2>2. BridgeTypes'
    BY <1>0, <1>i, <2>1 DEF BridgeInv, BridgeTypes
  <2>c. PICK c : c = current
    OBVIOUS
  <2>3. (Held(t)' <=> Held(t)) /\ (Held(c)' <=> Held(c))
    BY <1>0, StillLedger
  <2>4. (Held(issued)' <=> Held(issued)) /\ (Held(current)' <=> Held(current))
    BY <1>0, <1>p, <2>3, <2>c DEF Held, Valid
  <2> QED BY <1>0, <1>15, <1>i, <2>2, <2>4 DEF BridgeInv
<1> QED BY <1>0, <1>4, <1>5, <1>17, <1>18, QueueMoves

(* A rank's GPU once its seal and event are queued. *)
SealedGpu(g, i, t) == [g EXCEPT !.recorded[i] = t.id, !.stream = Behind(@, t, "seal", "event")]

(* One rank of seal(ranks). *)
LEMMA SealRank ==
  ASSUME EngineInv, UNCHANGED ledgerVars, NEW r \in Ranks, NEW t \in Ticket, Issuing, issued = t, Held(t),
         passes[r] > 0, gpu'[r] = SealedGpu(gpu[r], Index(t.id), t), ~Issuing'
  PROVE  gpu'[r] \in Gpus /\ RankInv(r)' /\ gpu'[r].trap = gpu[r].trap
<1>p. PICK i, n : i = Index(t.id) /\ n = Len(gpu[r].stream)
  OBVIOUS
<1>i. LedgerInv /\ gpu[r] \in Gpus /\ RankInv(r)
  BY DEF EngineInv, AdmissionInv, GpuInv
<1>v. /\ t.id \in Live /\ i \in Indices /\ t.id \in Nat /\ t.id <= lastId /\ At(t.id).bound
      /\ \A x \in Live : Index(x) \in Indices /\ (Index(x) = i => x = t.id)
  BY <1>i, <1>p, LiveEntries DEF Held, Valid
<1>c. gpu[r].armed[i] = t.id /\ Counts(r, t.id, n + 1)
  BY <1>i, <1>p DEF RankInv, PassOK
<1> DEFINE z == [gpu[r].recorded EXCEPT ![i] = t.id]
           s == Behind(gpu[r].stream, t, "seal", "event")
           w == [gpu[r] EXCEPT !.recorded = z, !.stream = s]
<1>1. gpu'[r] = w
  BY <1>i, <1>p DEF SealedGpu, Gpus
<1>2. z \in [Indices -> Nat] /\ z[i] = t.id /\ \A j \in Indices : j # i => z[j] = gpu[r].recorded[j]
  BY <1>i, <1>v DEF Gpus
<1> HIDE DEF z
<1>o. gpu[r].stream \in Seq(Op) /\ [op |-> "seal", ticket |-> t] \in Op /\ [op |-> "event", ticket |-> t] \in Op
  BY <1>i DEF Gpus, Op
<1>3. s \in Seq(Op)
  BY <1>o DEF Behind
<1> HIDE DEF s
<1>4. /\ w \in Gpus /\ w.stream = s /\ w.recorded = z /\ w.armed = gpu[r].armed /\ w.dev = gpu[r].dev
      /\ w.host = gpu[r].host /\ w.requests = gpu[r].requests /\ w.trap = gpu[r].trap
  BY <1>2, <1>3, <1>i DEF Gpus
<1> HIDE DEF w
<1>6. Appended(r, n, t, "seal", "event") /\ gpu'[r].stream \in Seq(Op)
  <2>2. gpu'[r].stream = Behind(gpu[r].stream, t, "seal", "event")
    BY <1>1, <1>4 DEF s
  <2> QED BY <1>o, <1>p, <2>2, TwoBehind
<1>7. /\ StreamOK(r)' /\ BalanceOK(r)' /\ ProvenOK(r)'
      /\ \A x, k : Counts(r, x, k) => Counts(r, x, k)'
  BY <1>1, <1>4, <1>6, <1>o, AppendKeeps
<1>8. /\ Live' = Live /\ lastId' = lastId /\ (\A x : At(x)' = At(x))
      /\ \A u : Valid(u)' <=> Valid(u)
  BY StillLedger
<1>9. \A x \in Live : Recorded(r, x)' <=> x = t.id \/ Recorded(r, x)
  BY <1>1, <1>2, <1>4, <1>p, <1>v DEF Recorded
<1>q. /\ n \in Nat /\ Queue(r) = 1..n /\ Queue(r)' = 1..(n + 2) /\ Len(gpu'[r].stream) = n + 2
      /\ \A k \in 1..n : Of(r, k)' = Of(r, k) /\ \A op : IsOp(r, k, op)' <=> IsOp(r, k, op)
      /\ Of(r, n + 1)' = t /\ Of(r, n + 2)' = t
      /\ \A op : (IsOp(r, n + 1, op)' <=> op = "seal") /\ (IsOp(r, n + 2, op)' <=> op = "event")
  BY <1>6 DEF Appended
<1>10. PairOK(r)'
  <2> SUFFICES ASSUME NEW k \in 1..(n + 2)
               PROVE  /\ IsOp(r, k, "publish")' =>
                           /\ k + 1 \in 1..(n + 2) /\ IsOp(r, k + 1, "finish")'
                           /\ Of(r, k + 1)' = Of(r, k)'
                      /\ IsOp(r, k, "finish")' /\ k > 1 => IsOp(r, k - 1, "publish")'
    BY <1>q DEF PairOK
  <2>1. CASE k \in 1..n
    <3>1. IsOp(r, k, "publish") => k + 1 \in 1..n /\ IsOp(r, k + 1, "finish") /\ Of(r, k + 1) = Of(r, k)
      BY <1>i, <1>q, <2>1 DEF RankInv, PairOK
    <3>2. IsOp(r, k, "finish") /\ k > 1 => IsOp(r, k - 1, "publish")
      BY <1>i, <1>q, <2>1 DEF RankInv, PairOK
    <3>3. k > 1 => k - 1 \in 1..n
      BY <1>q, <2>1
    <3> QED BY <1>q, <2>1, <3>1, <3>2, <3>3
  <2>2. CASE k = n + 1
    BY <1>q, <2>2
  <2>3. CASE k = n + 2
    BY <1>q, <2>3
  <2> QED BY <1>q, <2>1, <2>2, <2>3
<1>11. SealOK(r)'
  <2> SUFFICES ASSUME NEW k \in 1..(n + 2), IsOp(r, k, "seal")' PROVE Counts(r, Of(r, k).id, k)'
    BY <1>q DEF SealOK
  <2>p. PICK x : x = Of(r, k)'.id
    OBVIOUS
  <2>1. CASE k \in 1..n
    BY <1>7, <1>i, <1>q, <2>1, <2>p DEF RankInv, SealOK
  <2>2. CASE k = n + 1
    BY <1>7, <1>c, <1>q, <2>2
  <2>3. CASE k = n + 2
    BY <1>q, <2>3
  <2> QED BY <1>q, <2>1, <2>2, <2>3
<1>12. EventOK(r)'
  <2> SUFFICES ASSUME NEW k \in 1..(n + 2), Recorded(r, Of(r, k).id)'
               PROVE  \E m \in 1..(n + 2) : m >= k /\ IsOp(r, m, "event")' /\ Of(r, m)'.id = Of(r, k)'.id
    BY <1>q DEF EventOK
  <2>p. PICK x : x = Of(r, k)'.id
    OBVIOUS
  <2>1. Recorded(r, x)'
    BY <2>p DEF Recorded
  <2>2. CASE x = t.id
    <3>1. n + 2 \in 1..(n + 2) /\ n + 2 >= k
      BY <1>q
    <3>2. IsOp(r, n + 2, "event")' /\ Of(r, n + 2)'.id = t.id
      BY <1>q
    <3> QED BY <2>2, <2>p, <3>1, <3>2
  <2>3. CASE x # t.id
    <3>1. k \in 1..n /\ Of(r, k).id = x
      BY <1>q, <2>3, <2>p
    <3>2. x \in Live
      BY <1>i, <1>q, <3>1 DEF RankInv, StreamOK, Valid
    <3>3. Recorded(r, x)
      BY <1>9, <2>1, <2>3, <3>2
    <3>4. PICK m \in 1..n : m >= k /\ IsOp(r, m, "event") /\ Of(r, m).id = x
      BY <1>i, <1>q, <3>1, <3>3 DEF RankInv, EventOK
    <3> QED BY <1>q, <2>p, <3>4
  <2> QED BY <2>2, <2>3
<1>13. MarkOK(r)'
  <2> SUFFICES ASSUME NEW j \in Indices
               PROVE  /\ gpu'[r].recorded[j] <= lastId'
                      /\ gpu'[r].recorded[j] \in Live' => At(gpu[r].recorded[j])'.bound
                      /\ gpu'[r].dev[j].id <= lastId'
                      /\ gpu'[r].dev[j].id \in Live' => Valid(gpu[r].dev[j])'
    BY DEF MarkOK
  <2>p. PICK d, x : d = gpu[r].dev[j] /\ x = z[j]
    OBVIOUS
  <2>1. d.id <= lastId /\ (d.id \in Live => Valid(d))
    BY <1>i, <2>p DEF RankInv, MarkOK
  <2>2. x <= lastId /\ (x \in Live => At(x).bound)
    BY <1>2, <1>i, <1>v, <2>p DEF RankInv, MarkOK
  <2>3. gpu'[r].dev[j] = d /\ gpu'[r].recorded[j] = x
    BY <1>1, <1>4, <2>p
  <2>4. (d.id \in Live' => Valid(d)') /\ (x \in Live' => At(x)'.bound)
    BY <1>8, <2>1, <2>2
  <2> QED BY <1>8, <2>1, <2>2, <2>3, <2>4 DEF Valid
<1>14. SealedOK(r)'
  <2> SUFFICES ASSUME NEW x \in Live, Recorded(r, x)'
               PROVE  /\ gpu'[r].armed[Index(x)] = x
                      /\ \/ \E k \in Queue(r)' : IsOp(r, k, "seal")' /\ Of(r, k)'.id = x
                         \/ SealMatches(gpu'[r].host[Index(x)], At(x))
    BY <1>8 DEF SealedOK, SealMatches
  <2>2. gpu'[r].armed = gpu[r].armed /\ gpu'[r].host = gpu[r].host
    BY <1>1, <1>4
  <2>3. CASE x = t.id
    <3>1. n + 1 \in Queue(r)'
      BY <1>q
    <3>2. IsOp(r, n + 1, "seal")' /\ Of(r, n + 1)'.id = t.id
      BY <1>q
    <3> QED BY <1>c, <1>p, <2>2, <2>3, <3>1, <3>2
  <2>4. CASE x # t.id
    <3>1. Recorded(r, x)
      BY <1>9, <2>4
    <3>2. \A k \in Queue(r) : k \in Queue(r)' /\ Of(r, k)' = Of(r, k)
                              /\ (IsOp(r, k, "seal")' <=> IsOp(r, k, "seal"))
      BY <1>q
    <3> QED BY <1>i, <2>2, <3>1, <3>2 DEF RankInv, SealedOK
  <2> QED BY <2>3, <2>4
<1>15. PassOK(r)'
  BY DEF PassOK
<1>16. CountOK(r)'
  <2>o. PICK no : Numbers(r, no)
    BY <1>i DEF RankInv, CountOK
  <2>1. \A x : Done(r, x)' = Done(r, x)
    BY <1>1, <1>4 DEF Done
  <2> DEFINE new == [k \in 1..(n + 2) |-> IF k \in 1..n THEN no[k] ELSE 1]
  <2>2. new \in [1..(n + 2) -> 1..MaxPasses] /\ \A k \in 1..n : new[k] = no[k]
    <3>1. \A k \in 1..n : no[k] \in 1..MaxPasses
      BY <1>q, <2>o DEF Numbers
    <3>2. 1 \in 1..MaxPasses /\ \A k \in 1..n : k \in 1..(n + 2)
      BY <1>q, AdmissionAssumption
    <3> QED BY <3>1, <3>2
  <2> HIDE DEF new
  <2>3. \A m \in 1..(n + 2) : IsOp(r, m, "publish")' => m \in 1..n
    <3>1. \A m \in 1..(n + 2) : m \in 1..n \/ m = n + 1 \/ m = n + 2
      BY <1>q
    <3> QED BY <1>q, <3>1
  <2>4. Numbers(r, new)'
    <3>1. new \in [Queue(r)' -> 1..MaxPasses]
      BY <1>q, <2>2
    <3>2. ASSUME NEW k \in Queue(r)', IsOp(r, k, "publish")'
          PROVE  /\ Done(r, Of(r, k).id)' <= Room(new[k] - 1)
                 /\ (Issuing /\ Of(r, k).id = issued.id)' => new[k] <= passes'[r]
                 /\ \A m \in Queue(r)' :
                      k < m /\ IsOp(r, m, "publish")' /\ Of(r, m)'.id = Of(r, k)'.id
                        => new[k] < new[m]
      <4>1. k \in 1..n /\ Of(r, k)' = Of(r, k) /\ IsOp(r, k, "publish") /\ new[k] = no[k]
        BY <1>q, <2>2, <2>3, <3>2
      <4>2. Done(r, Of(r, k).id)' <= Room(new[k] - 1)
        BY <1>q, <2>1, <2>o, <4>1 DEF Numbers
      <4>3. (Issuing /\ Of(r, k).id = issued.id)' => new[k] <= passes'[r]
        BY <1>q, <2>o, <4>1 DEF Numbers
      <4>4. ASSUME NEW m \in Queue(r)', k < m, IsOp(r, m, "publish")', Of(r, m)'.id = Of(r, k)'.id
            PROVE  new[k] < new[m]
        <5>1. m \in 1..n /\ Of(r, m)' = Of(r, m) /\ IsOp(r, m, "publish") /\ new[m] = no[m]
          BY <1>q, <2>2, <2>3, <4>4
        <5> QED BY <1>q, <2>o, <4>1, <4>4, <5>1 DEF Numbers
      <4> QED BY <4>2, <4>3, <4>4
    <3> QED BY <3>1, <3>2 DEF Numbers, Room
  <2>5. \A j \in Indices : Bounded(gpu'[r].dev[j]) /\ Bounded(gpu'[r].host[j])
    BY <1>1, <1>4, <1>i DEF RankInv, CountOK
  <2> QED BY <2>4, <2>5 DEF CountOK, Bounded, Room
<1> QED BY <1>1, <1>4, <1>7, <1>10, <1>11, <1>12, <1>13, <1>14, <1>15, <1>16 DEF RankInv

(* seal(ranks): the parent was not recorded before. *)
LEMMA SealParentInv ==
  ASSUME EngineInv, AdmissionInv', SealParent
  PROVE  EngineInv'
<1>p. PICK t : t = current
  OBVIOUS
<1>0. /\ pc = "run" /\ BridgeInv /\ issued = t /\ Issuing /\ Held(t) /\ t \in Ticket /\ ahead = NoTicket
      /\ \A r \in Ranks : passes[r] > 0
      /\ UNCHANGED <<placeVars, helperFault>>
  BY <1>p DEF SealParent, EngineInv, BridgeInv, BridgeTypes, Issuing
<1>1. \A r \in Ranks : gpu[r].recorded[Index(t.id)] # t.id
  BY <1>0 DEF EngineInv, GpuInv, RankInv, PassOK, Recorded
<1>2. /\ gpu' = [r \in Ranks |-> SealedGpu(gpu[r], Index(t.id), t)]
      /\ pc' = "ahead"
      /\ UNCHANGED <<ledgerVars, current, ahead, issued, passes, cause>>
  BY <1>0, <1>1, <1>p DEF SealParent, Held, SealedGpu, Behind
<1>3. ~Issuing'
  BY <1>0, <1>2 DEF Issuing
<1>4. \A r \in Ranks : gpu'[r] \in Gpus /\ RankInv(r)' /\ gpu'[r].trap = gpu[r].trap
  <2> SUFFICES ASSUME NEW r \in Ranks
               PROVE  gpu'[r] \in Gpus /\ RankInv(r)' /\ gpu'[r].trap = gpu[r].trap
    OBVIOUS
  <2>1. gpu'[r] = SealedGpu(gpu[r], Index(t.id), t)
    BY <1>2
  <2> QED BY <1>0, <1>2, <1>3, <2>1, SealRank
<1>5. gpu' \in [Ranks -> Gpus]
  <2>1. \A r \in Ranks : SealedGpu(gpu[r], Index(t.id), t) \in Gpus
    BY <1>2, <1>4
  <2> QED BY <1>2, <2>1
<1>6. BridgeInv'
  <2>1. Held(t)'
    BY <1>0, <1>2, StillLedger
  <2>2. Held(current)'
    BY <1>2, <1>p, <2>1 DEF Held, Valid
  <2> QED BY <1>0, <1>2, <1>3, <2>2 DEF BridgeInv, BridgeTypes, Pcs
<1> QED BY <1>0, <1>2, <1>4, <1>5, <1>6, QueueMoves

-----------------------------------------------------------------------------

(* The initial states satisfy the invariant. *)
LEMMA EngineInit == AdmissionInit => EngineInv
<1> SUFFICES ASSUME AdmissionInit PROVE EngineInv
  OBVIOUS
<1>1. AdmissionInv
  BY InitAdmissionInv
<1>2. Live = {} /\ 0 \in 0..MaxPasses /\ 0 \in 0..MaxRequests /\ 0 \in 0..MaxTicket /\ 0 \in 0..MaxEpoch
      /\ 0 \in Slots /\ lastId = 0
  BY LedgerAssumption, AdmissionAssumption DEF AdmissionInit, Live, Slots
<1>3. BridgeInv
  BY <1>2, NoTicketTyped DEF AdmissionInit, BridgeInv, BridgeTypes, Pcs, Issuing
<1>4. GateInv
  BY <1>2 DEF AdmissionInit, GateInv, GateHeld, Phases
<1>5. ParentInv
  BY <1>2 DEF ParentInv
<1>6. FaultsAreExternal
  BY DEF AdmissionInit, FaultsAreExternal
<1>s. NoStamp \in Stamps /\ NoStamp.id = 0 /\ NoStamp.published = NoStamp.consumed
  BY <1>2 DEF NoStamp, Stamps
<1> DEFINE g == [stream   |-> <<>>, requests |-> 0,
                 dev      |-> [i \in Indices |-> NoStamp],
                 host     |-> [i \in Indices |-> NoStamp],
                 armed    |-> [i \in Indices |-> 0],
                 recorded |-> [i \in Indices |-> 0],
                 trap     |-> "none"]
<1>7. gpu = [r \in Ranks |-> g]
  BY DEF AdmissionInit
<1>8. /\ g \in Gpus /\ g.stream = <<>> /\ g.requests = 0
      /\ \A i \in Indices : g.dev[i] = NoStamp /\ g.host[i] = NoStamp /\ g.recorded[i] = 0
  BY <1>2, <1>s DEF Gpus
<1> HIDE DEF g
<1>9. gpu \in [Ranks -> Gpus]
  BY <1>7, <1>8
<1>10. ASSUME NEW r \in Ranks PROVE RankInv(r)
  <2>1. gpu[r] = g
    BY <1>7
  <2>2. Queue(r) = {}
    BY <1>8, <2>1 DEF Queue
  <2>3. ~Issuing
    BY DEF AdmissionInit, Issuing
  <2>4. StreamOK(r) /\ PairOK(r) /\ SealOK(r) /\ EventOK(r)
    BY <2>2 DEF StreamOK, PairOK, SealOK, EventOK
  <2>5. BalanceOK(r)
    BY <1>8, <1>s, <2>1 DEF BalanceOK, Between
  <2>6. MarkOK(r)
    BY <1>2, <1>8, <1>s, <2>1 DEF MarkOK
  <2>7. SealedOK(r) /\ ProvenOK(r) /\ PassOK(r)
    BY <1>2, <2>3 DEF SealedOK, ProvenOK, PassOK
  <2>8. CountOK(r)
    <3>1. NoStamp.published <= Room(MaxPasses) /\ NoStamp.consumed <= Room(MaxPasses)
      BY RoomGrows, AdmissionAssumption DEF NoStamp
    <3>2. \A i \in Indices : Bounded(gpu[r].dev[i]) /\ Bounded(gpu[r].host[i])
      BY <1>8, <2>1, <3>1 DEF Bounded
    <3>3. Numbers(r, [k \in {} |-> 1])
      BY <2>2 DEF Numbers
    <3> QED BY <2>3, <3>2, <3>3 DEF CountOK
  <2> QED BY <2>4, <2>5, <2>6, <2>7, <2>8 DEF RankInv
<1>11. GpuInv
  BY <1>9, <1>10 DEF GpuInv
<1> QED BY <1>1, <1>3, <1>4, <1>5, <1>6, <1>11 DEF EngineInv

(* Every step of the engine, the streams and the placement thread preserves the invariant. *)
LEMMA EngineStep == EngineInv /\ [AdmissionNext]_vars => EngineInv'
<1> SUFFICES ASSUME EngineInv, [AdmissionNext]_vars PROVE EngineInv'
  OBVIOUS
<1>0. AdmissionInv'
  BY AdmissionStep DEF EngineInv
<1>1. CASE Bridge
  BY <1>0, <1>1, BeginStepInv, FailLoopInv, PollBeforeAdmitInv, AdmitInv, DecideStepInv,
     LaunchPassInv, PassRefusedInv, SealParentInv, PollBeforeAheadInv, TryAheadInv,
     DecideAheadInv, HostDoneInv, PollAfterHostDoneInv DEF Bridge
<1> QED BY <1>0, <1>1, ExecInv, PlacementInv, OutsideInv DEF AdmissionNext

(* Bridge, streams, gate and ledger stay in step. *)
THEOREM EngineInvariant == AdmissionSpec => []EngineInv
BY EngineInit, EngineStep, PTL DEF AdmissionSpec

(* Tickets, streams, counts and generations keep their types; a parent     *)
(* never publishes more than its passes may.                               *)
THEOREM AdmissionTypesHold == AdmissionSpec => []AdmissionTypeOK
<1>1. EngineInv => AdmissionTypeOK
  <2> SUFFICES ASSUME EngineInv PROVE AdmissionTypeOK
    OBVIOUS
  <2>1. TypeOK /\ PlaceInv /\ BridgeTypes /\ phase \in Phases
    BY DEF EngineInv, AdmissionInv, LedgerInv, BridgeInv, GateInv
  <2>2. ASSUME NEW r \in Ranks, NEW k \in DOMAIN gpu[r].stream PROVE gpu[r].stream[k] \in Op
    <3>1. gpu[r].stream \in Seq(Op)
      BY DEF EngineInv, GpuInv, Gpus
    <3> QED BY <3>1
  <2>3. ASSUME NEW s \in Stamps, Bounded(s) PROVE s \in Stamp
    <3>1. s.published \in Nat /\ s.consumed \in Nat /\ MaxPasses * MaxRequests \in Nat
      BY AdmissionAssumption DEF Stamps
    <3>2. s.published \in 0..(MaxPasses * MaxRequests) /\ s.consumed \in 0..(MaxPasses * MaxRequests)
      BY <2>3, <3>1 DEF Bounded, Room
    <3> QED BY <3>2 DEF Stamps, Stamp
  <2>4. ASSUME NEW r \in Ranks, NEW i \in Indices PROVE gpu[r].dev[i] \in Stamp /\ gpu[r].host[i] \in Stamp
    <3>1. gpu[r].dev[i] \in Stamps /\ gpu[r].host[i] \in Stamps
      BY DEF EngineInv, GpuInv, Gpus
    <3>2. Bounded(gpu[r].dev[i]) /\ Bounded(gpu[r].host[i])
      BY DEF EngineInv, GpuInv, RankInv, CountOK
    <3> QED BY <2>3, <3>1, <3>2
  <2> QED BY <2>1, <2>2, <2>4 DEF AdmissionTypeOK, PlaceInv, BridgeTypes, Pcs
<1> QED BY <1>1, EngineInvariant, PTL

(* No interleaving of run-ahead parents, cancelled reservations, epoch     *)
(* flips and staging makes a publish or seal kernel trap: whatever the ring*)
(* size and the numbers of ranks, passes and requests.                     *)
THEOREM KernelsTrapOnlyOverHelpers == AdmissionSpec => []KernelsNeverTrap
<1>1. EngineInv => KernelsNeverTrap
  BY DEF EngineInv, GpuInv, Gpus, KernelsNeverTrap
<1> QED BY <1>1, EngineInvariant, PTL

(* A parent is retired only once no rank has anything queued for it. *)
THEOREM QueuedParentsAreOutstanding == AdmissionSpec => []StreamsHoldOnlyLiveParents
<1>1. EngineInv => StreamsHoldOnlyLiveParents
  <2> SUFFICES ASSUME EngineInv, NEW r \in Ranks, NEW k \in DOMAIN gpu[r].stream
               PROVE  /\ Of(r, k).id \in Live /\ At(Of(r, k).id).epoch = Of(r, k).epoch
                      /\ At(Of(r, k).id).bound
    BY DEF StreamsHoldOnlyLiveParents, Of
  <2>1. gpu[r].stream \in Seq(Op) /\ StreamOK(r)
    BY DEF EngineInv, GpuInv, Gpus, RankInv
  <2>2. k \in Queue(r)
    BY <2>1 DEF Queue
  <2> QED BY <2>1, <2>2 DEF StreamOK, Valid
<1> QED BY <1>1, EngineInvariant, PTL

(* From the drain to the reopening the streams are empty and the scheduler *)
(* holds no ticket.                                                        *)
THEOREM DrainedEngineIsIdle == AdmissionSpec => []DrainedIsIdle
<1>1. EngineInv => DrainedIsIdle
  <2> SUFFICES ASSUME EngineInv, phase \in {"drained", "committed"}, ~Stopped
               PROVE  /\ \A r \in Ranks : gpu[r].stream = <<>>
                      /\ count = 0
                      /\ pc \notin {"decide", "run", "ahead", "decideAhead", "host"}
    BY DEF DrainedIsIdle
  <2>1. count = 0 /\ LedgerInv
    BY DEF EngineInv, GateInv, AdmissionInv
  <2>2. Live = {}
    BY <2>1, LiveEntries
  <2>3. ASSUME NEW r \in Ranks, gpu[r].stream # <<>> PROVE FALSE
    BY <2>2, <2>3, HeadOfStream
  <2>4. pc \notin {"decide", "run", "ahead", "decideAhead", "host"}
    BY <2>2 DEF EngineInv, BridgeInv, Issuing, Held, Valid, Reserved
  <2> QED BY <2>1, <2>3, <2>4
<1> QED BY <1>1, EngineInvariant, PTL

(* The ledger faults only for a reason outside the protocol. *)
THEOREM LedgerFaultsAreExternal == AdmissionSpec => []FaultsAreExternal
<1>1. EngineInv => FaultsAreExternal
  BY DEF EngineInv
<1> QED BY <1>1, EngineInvariant, PTL

=============================================================================
