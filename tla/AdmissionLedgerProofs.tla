------------------------ MODULE AdmissionLedgerProofs ------------------------
(***************************************************************************)
(* Proofs about AdmissionLedger, for every capacity, rank count, ticket    *)
(* bound and epoch bound, and for every client.                            *)
(***************************************************************************)
EXTENDS AdmissionLedger, TLAPS

(* Division with remainder, for the provers. *)
LEMMA DivMod ==
  ASSUME NEW n \in Nat \ {0}, NEW a \in Nat
  PROVE  /\ a \div n \in Int
         /\ a % n \in 0..(n - 1)
         /\ a = n * (a \div n) + (a % n)
  OBVIOUS

(* A multiple of n strictly between -n and n is 0. *)
LEMMA SmallMultiple ==
  ASSUME NEW n \in Nat \ {0}, NEW q \in Int, n * q < n, n * q > -n
  PROVE  q = 0
  OBVIOUS

(* Two numbers less than n apart with the same remainder are equal. *)
LEMMA ModInjective ==
  ASSUME NEW n \in Nat \ {0}, NEW a \in Nat, NEW b \in Nat,
         a % n = b % n, a - b < n, b - a < n
  PROVE  a = b
<1> DEFINE qa == a \div n
           qb == b \div n
<1>1. /\ qa \in Int /\ a = n * qa + (a % n) /\ a % n \in Int
      /\ qb \in Int /\ b = n * qb + (b % n) /\ b % n \in Int
  BY DivMod
<1> HIDE DEF qa, qb
<1>2. n * (qa - qb) = n * qa - n * qb
  BY <1>1
<1>3. n * (qa - qb) = a - b
  BY <1>1, <1>2
<1>4. qa - qb = 0
  BY <1>1, <1>3, SmallMultiple
<1> QED
  BY <1>1, <1>4

(* at(id) stays inside the ring. *)
LEMMA IndexInRing ==
  ASSUME NEW id \in Nat
  PROVE  Index(id) \in Indices
  BY DivMod, LedgerAssumption DEF Index, Indices

(* Ids less than Capacity apart never share a ring slot. *)
LEMMA IndexInjective ==
  ASSUME NEW a \in Nat, NEW b \in Nat,
         Index(a) = Index(b), a - b < Capacity, b - a < Capacity
  PROVE  a = b
  BY ModInjective, LedgerAssumption DEF Index

-----------------------------------------------------------------------------
(* The inductive invariant.  Besides the three properties it records that  *)
(* nothing is outstanding before the ring is sized and an epoch installed. *)
LedgerInv ==
  /\ TypeOK
  /\ RingOwned
  /\ EpochPure
  /\ activeEpoch = 0 => count = 0

(* Live ids are positive and at most Capacity of them are outstanding. *)
LEMMA LiveIds ==
  ASSUME TypeOK
  PROVE  /\ \A id \in Live : id \in Nat /\ id # 0 /\ id <= lastId
         /\ \A a, b \in Live : a - b < Capacity /\ b - a < Capacity
         /\ \A a, b \in Live : Index(a) = Index(b) => a = b
         /\ \A id \in Live : Index(id) \in Indices
<1>1. /\ \A id \in Live : id \in Nat /\ id # 0 /\ id <= lastId
      /\ \A a, b \in Live : a - b < Capacity /\ b - a < Capacity
  BY LedgerAssumption DEF TypeOK, Live
<1>2. \A a, b \in Live : Index(a) = Index(b) => a = b
  BY <1>1, IndexInjective
<1>3. \A id \in Live : Index(id) \in Indices
  BY <1>1, IndexInRing
<1> QED
  BY <1>1, <1>2, <1>3

LEMMA InitLedgerInv == Init => LedgerInv
<1> SUFFICES ASSUME Init PROVE LedgerInv
  OBVIOUS
<1>1. NoEntry \in Entry
  BY LedgerAssumption DEF NoEntry, Entry, Slots
<1>2. TypeOK
  <2>1. ring \in [Indices -> Entry]
    BY <1>1 DEF Init
  <2>2. /\ capacity \in {0, Capacity} /\ count \in 0..Capacity
        /\ lastId \in 0..MaxTicket /\ count <= lastId
        /\ activeEpoch \in 0..MaxEpoch /\ activeSlot \in Slots
    BY LedgerAssumption DEF Init, Slots
  <2>3. closed \in BOOLEAN /\ interrupted \in BOOLEAN /\ fault \in BOOLEAN
    BY DEF Init
  <2> QED
    BY <2>1, <2>2, <2>3 DEF TypeOK
<1>3. Live = {}
  BY DEF Init, Live
<1> QED
  BY <1>2, <1>3 DEF Init, LedgerInv, RingOwned, EpochPure, NoEntry

(* admit() / try_admit(): the new parent takes an empty slot. *)
LEMMA AllocateLedgerInv == LedgerInv /\ Allocate => LedgerInv'
<1> SUFFICES ASSUME LedgerInv, Allocate PROVE LedgerInv'
  OBVIOUS
<1> DEFINE new == [id |-> lastId + 1, epoch |-> activeEpoch,
                   slot |-> activeSlot, bound |-> FALSE,
                   hostDone |-> FALSE, proven |-> {}]
           n == Index(lastId + 1)
<1>1. /\ capacity = Capacity /\ count < Capacity /\ lastId < MaxTicket
      /\ activeEpoch # 0
      /\ ring' = [ring EXCEPT ![n] = new]
      /\ lastId' = lastId + 1 /\ count' = count + 1
      /\ activeEpoch' = activeEpoch /\ activeSlot' = activeSlot
  BY LedgerAssumption DEF Allocate, AllocateResult, LedgerInv, TypeOK
<1>2. /\ TypeOK /\ lastId + 1 \in Nat /\ n \in Indices
  BY IndexInRing DEF LedgerInv, TypeOK
<1>3. new \in Entry
  BY <1>1, <1>2, LedgerAssumption DEF TypeOK, Entry
<1>4. TypeOK'
  BY <1>1, <1>2, <1>3, LedgerAssumption DEF Allocate, TypeOK
<1>5. Live' = Live \cup {lastId + 1}
  BY <1>1, <1>2 DEF Live, TypeOK
<1>6. \A id \in Live : Index(id) # n
  <2> SUFFICES ASSUME NEW id \in Live, Index(id) = n PROVE FALSE
    OBVIOUS
  <2>1. id \in Nat /\ id <= lastId /\ lastId + 1 - id < Capacity /\ id - (lastId + 1) < Capacity
    BY <1>1, <1>2, LedgerAssumption DEF Live, TypeOK
  <2> QED
    BY <2>1, <1>2, IndexInjective DEF TypeOK
<1>7. RingOwned'
  <2>1. \A id \in Live : At(id)' = At(id)
    BY <1>1, <1>2, <1>6, LiveIds DEF At, TypeOK
  <2>2. ring'[n] = new
    BY <1>1, <1>2 DEF At, TypeOK
  <2>3. ASSUME NEW id \in Live' PROVE At(id)'.id = id
    BY <1>5, <2>1, <2>2 DEF LedgerInv, RingOwned, At
  <2>4. ASSUME NEW i \in Indices
        PROVE  \/ ring'[i] = NoEntry
               \/ /\ ring'[i].id \in Live'
                  /\ Index(ring'[i].id) = i
    BY <1>1, <1>2, <1>5 DEF LedgerInv, RingOwned, TypeOK
  <2> QED
    BY <2>3, <2>4 DEF RingOwned
<1>8. EpochPure'
  <2>1. \A id \in Live : At(id)' = At(id)
    BY <1>1, <1>2, <1>6, LiveIds DEF At, TypeOK
  <2>2. ring'[n] = new
    BY <1>1, <1>2 DEF At, TypeOK
  <2> QED
    BY <1>1, <1>5, <2>1, <2>2 DEF LedgerInv, EpochPure, At
<1> QED
  BY <1>1, <1>4, <1>7, <1>8 DEF LedgerInv

(* A ring that differs from the ledger's only in completion flags. *)
SameTickets(rg) ==
  /\ rg \in [Indices -> Entry]
  /\ \A i \in Indices :
       /\ rg[i].id = ring[i].id
       /\ rg[i].epoch = ring[i].epoch
       /\ rg[i].slot = ring[i].slot
       /\ (ring[i] = NoEntry) => (rg[i] = NoEntry)

(* A ring with the same tickets, over the same outstanding ids, keeps the  *)
(* invariants.                                                             *)
LEMMA SameTicketsLedgerInv ==
  ASSUME LedgerInv, SameTickets(ring'),
         UNCHANGED <<capacity, count, lastId, activeEpoch, activeSlot>>,
         closed' \in BOOLEAN, interrupted' \in BOOLEAN, fault' \in BOOLEAN
  PROVE  LedgerInv'
<1>1. TypeOK'
  BY DEF LedgerInv, TypeOK, SameTickets
<1>2. Live' = Live
  BY DEF Live
<1>3. \A id \in Live :
        /\ At(id)'.id = At(id).id
        /\ At(id)'.epoch = At(id).epoch
        /\ At(id)'.slot = At(id).slot
  BY LiveIds, IndexInRing DEF LedgerInv, SameTickets, At
<1>4. RingOwned'
  BY <1>2, <1>3 DEF LedgerInv, RingOwned, SameTickets
<1>5. EpochPure'
  BY <1>2, <1>3 DEF LedgerInv, EpochPure
<1> QED
  BY <1>1, <1>4, <1>5 DEF LedgerInv

(* retire_locked() removes a prefix of the outstanding ids and clears      *)
(* exactly their slots.                                                    *)
LEMMA RetireLedgerInv ==
  ASSUME LedgerInv, NEW rg, SameTickets(rg), Retire(rg),
         UNCHANGED <<capacity, lastId, activeEpoch, activeSlot>>,
         closed' \in BOOLEAN, interrupted' \in BOOLEAN, fault' \in BOOLEAN
  PROVE  LedgerInv' /\ Live' \subseteq Live
<1> DEFINE first == lastId - count + 1
<1>1. PICK k \in 0..count :
        /\ ring' = [i \in Indices |->
                      IF \E id \in first..(first + k - 1) : Index(id) = i
                      THEN NoEntry ELSE rg[i]]
        /\ count' = count - k
  BY DEF Retire
<1>2. /\ TypeOK /\ count \in Nat /\ lastId \in Nat /\ k \in Nat
      /\ k <= count /\ count <= lastId /\ first \in Nat
  BY LedgerAssumption DEF LedgerInv, TypeOK
<1>3. NoEntry \in Entry
  BY LedgerAssumption DEF NoEntry, Entry, Slots
<1>4. TypeOK'
  <2>1. ring' \in [Indices -> Entry]
    BY <1>1, <1>3 DEF SameTickets
  <2>2. count' \in 0..Capacity /\ count' <= lastId'
    BY <1>1, <1>2, LedgerAssumption DEF TypeOK
  <2> QED
    BY <1>2, <2>1, <2>2 DEF TypeOK
<1>5. Live' = (first + k)..lastId /\ Live = first..lastId
  BY <1>1, <1>2 DEF Live
<1>6. Live' \subseteq Live
  BY <1>2, <1>5
<1>7. \A id \in Live' : ring'[Index(id)] = rg[Index(id)]
  <2> SUFFICES ASSUME NEW id \in Live' PROVE ring'[Index(id)] = rg[Index(id)]
    OBVIOUS
  <2>1. id \in Live /\ Index(id) \in Indices
    BY <1>2, <1>6, LiveIds
  <2>2. \A j \in first..(first + k - 1) : Index(j) # Index(id)
    <3> SUFFICES ASSUME NEW j \in first..(first + k - 1), Index(j) = Index(id)
                 PROVE  FALSE
      OBVIOUS
    <3>1. j \in Live /\ j # id
      BY <1>2, <1>5
    <3> QED
      BY <1>2, <2>1, <3>1, LiveIds
  <2> QED
    BY <1>1, <2>1, <2>2
<1>8. \A id \in Live' :
        /\ At(id)'.id = At(id).id
        /\ At(id)'.epoch = At(id).epoch
        /\ At(id)'.slot = At(id).slot
  BY <1>2, <1>6, <1>7, LiveIds DEF SameTickets, At
<1>9. RingOwned'
  <2>1. \A id \in Live' : At(id)'.id = id
    BY <1>6, <1>8 DEF LedgerInv, RingOwned
  <2>2. ASSUME NEW i \in Indices, ring'[i] # NoEntry
        PROVE  ring'[i].id \in Live' /\ Index(ring'[i].id) = i
    <3>1. ring'[i] = rg[i] /\ ~(\E id \in first..(first + k - 1) : Index(id) = i)
      BY <1>1, <2>2
    <3>2. ring[i].id \in Live /\ Index(ring[i].id) = i /\ rg[i].id = ring[i].id
      BY <2>2, <3>1 DEF LedgerInv, RingOwned, SameTickets
    <3>3. ring[i].id \notin first..(first + k - 1)
      BY <3>1, <3>2
    <3>4. ring[i].id \in Live'
      BY <1>2, <1>5, <3>2, <3>3
    <3> QED
      BY <3>1, <3>2, <3>4
  <2> QED
    BY <2>1, <2>2 DEF RingOwned
<1>10. EpochPure'
  BY <1>6, <1>8 DEF LedgerInv, EpochPure
<1>11. activeEpoch' = 0 => count' = 0
  BY <1>1, <1>2 DEF LedgerInv
<1> QED
  BY <1>4, <1>6, <1>9, <1>10, <1>11 DEF LedgerInv

(* Setting completion flags of an entry leaves its ticket alone. *)
LEMMA EntryFlags ==
  ASSUME NEW e \in Entry, NEW f \in Entry,
         \/ f = [e EXCEPT !.bound = TRUE]
         \/ f = [e EXCEPT !.hostDone = TRUE]
         \/ \E S \in SUBSET Ranks : f = [e EXCEPT !.proven = @ \cup S]
  PROVE  f.id = e.id /\ f.epoch = e.epoch /\ f.slot = e.slot
  BY DEF Entry

(* One flagged entry of an outstanding parent. *)
LEMMA OneEntrySameTickets ==
  ASSUME TypeOK, NEW n \in Indices, NEW f \in Entry, ring[n].id # 0,
         f.id = ring[n].id, f.epoch = ring[n].epoch, f.slot = ring[n].slot
  PROVE  SameTickets([ring EXCEPT ![n] = f])
<1> DEFINE rg == [ring EXCEPT ![n] = f]
<1>1. rg \in [Indices -> Entry]
  BY DEF TypeOK
<1>2. ring[n] # NoEntry
  BY DEF NoEntry
<1>3. \A i \in Indices : rg[i] = IF i = n THEN f ELSE ring[i]
  BY DEF TypeOK
<1> HIDE DEF rg
<1> QED
  BY <1>1, <1>2, <1>3 DEF SameTickets, rg

LEMMA BindLedgerInv ==
  ASSUME LedgerInv, NEW id \in Tickets, Bind(id)
  PROVE  LedgerInv' /\ Live' = Live
<1>1. /\ TypeOK /\ id \in Live /\ Index(id) \in Indices /\ id # 0
      /\ ring[Index(id)].id = id
  BY LiveIds DEF LedgerInv, RingOwned, Bind, At
<1> DEFINE f == [ring[Index(id)] EXCEPT !.bound = TRUE]
<1>2. f \in Entry /\ ring[Index(id)] \in Entry
  BY <1>1 DEF TypeOK, Entry
<1>3. ring' = [ring EXCEPT ![Index(id)] = f]
  BY DEF Bind
<1>4. SameTickets(ring')
  BY <1>1, <1>2, <1>3, EntryFlags, OneEntrySameTickets
<1> QED
  BY <1>4, SameTicketsLedgerInv DEF Bind, LedgerInv, TypeOK, Live

(* cancel(): the youngest reservation leaves and its id is free again. *)
LEMMA CancelLedgerInv ==
  ASSUME LedgerInv, NEW id \in Tickets, Cancel(id)
  PROVE  LedgerInv' /\ Live' \subseteq Live
<1> DEFINE n == Index(lastId)
<1>1. /\ TypeOK /\ count # 0 /\ lastId \in Live
      /\ ring' = [ring EXCEPT ![n] = NoEntry]
      /\ count' = count - 1 /\ lastId' = lastId - 1
      /\ activeEpoch' = activeEpoch /\ activeSlot' = activeSlot
  BY LedgerAssumption DEF LedgerInv, Cancel, Cancellable, TypeOK, Live
<1>2. n \in Indices /\ NoEntry \in Entry
  BY <1>1, LiveIds, LedgerAssumption DEF NoEntry, Entry, Slots
<1>3. TypeOK'
  <2>1. ring' \in [Indices -> Entry]
    BY <1>1, <1>2 DEF TypeOK
  <2>2. /\ count' \in 0..Capacity /\ lastId' \in 0..MaxTicket
        /\ count' <= lastId'
    BY <1>1, LedgerAssumption DEF TypeOK
  <2> QED
    BY <1>1, <2>1, <2>2 DEF TypeOK, Cancel
<1>4. Live' = Live \ {lastId}
  BY <1>1, LedgerAssumption DEF Live, TypeOK
<1>5. \A j \in Live' : At(j)' = At(j)
  BY <1>1, <1>2, <1>4, LiveIds DEF At, TypeOK
<1>6. RingOwned'
  <2>1. \A j \in Live' : At(j)'.id = j
    BY <1>4, <1>5 DEF LedgerInv, RingOwned
  <2>2. ASSUME NEW i \in Indices, ring'[i] # NoEntry
        PROVE  ring'[i].id \in Live' /\ Index(ring'[i].id) = i
    <3>1. i # n /\ ring'[i] = ring[i]
      BY <1>1, <1>2, <2>2 DEF TypeOK
    <3>2. ring[i].id \in Live /\ Index(ring[i].id) = i
      BY <2>2, <3>1 DEF LedgerInv, RingOwned
    <3> QED
      BY <1>4, <3>1, <3>2
  <2> QED
    BY <2>1, <2>2 DEF RingOwned
<1>7. EpochPure'
  BY <1>1, <1>4, <1>5 DEF LedgerInv, EpochPure
<1> QED
  BY <1>1, <1>3, <1>4, <1>6, <1>7 DEF LedgerInv

LEMMA HostCompleteLedgerInv ==
  ASSUME LedgerInv, NEW id \in Tickets, HostComplete(id)
  PROVE  LedgerInv' /\ Live' \subseteq Live
<1> DEFINE rg == [ring EXCEPT ![Index(id)].hostDone = TRUE]
<1>1. /\ TypeOK /\ id \in Live /\ Index(id) \in Indices /\ id # 0
      /\ ring[Index(id)].id = id
  BY LiveIds DEF LedgerInv, RingOwned, HostComplete, At
<1> DEFINE f == [ring[Index(id)] EXCEPT !.hostDone = TRUE]
<1>4. f \in Entry /\ ring[Index(id)] \in Entry
  BY <1>1 DEF TypeOK, Entry
<1>5. rg = [ring EXCEPT ![Index(id)] = f]
  OBVIOUS
<1>2. SameTickets(rg)
  BY <1>1, <1>4, <1>5, EntryFlags, OneEntrySameTickets
<1>3. Retire(rg)
  BY DEF HostComplete
<1> HIDE DEF rg
<1> QED
  BY <1>1, <1>2, <1>3, RetireLedgerInv DEF HostComplete, TypeOK

(* poll(): proofs are recorded only on outstanding parents. *)
LEMMA MarkedSameTickets ==
  ASSUME LedgerInv, NEW prove
  PROVE  SameTickets(Marked(prove))
<1> DEFINE add(i) == {r \in Ranks : <<ring[i].id, r>> \in NewlyProven(prove)}
<1>1. TypeOK
  BY DEF LedgerInv
<1>2. \A i \in Indices : add(i) \subseteq Ranks
  OBVIOUS
<1>3. ASSUME NEW i \in Indices, ring[i] = NoEntry
      PROVE  add(i) = {}
  <2>1. ring[i].id = 0
    BY <1>3 DEF NoEntry
  <2>2. 0 \notin Live
    BY <1>1, LiveIds
  <2>3. \A p \in NewlyProven(prove) : p[1] \in Live
    BY DEF NewlyProven, Asked
  <2> QED
    BY <2>1, <2>2, <2>3
<1>4. Marked(prove) = [i \in Indices |-> [ring[i] EXCEPT !.proven = @ \cup add(i)]]
  BY DEF Marked
<1> HIDE DEF add
<1>5. Marked(prove) \in [Indices -> Entry]
  BY <1>1, <1>2, <1>4 DEF TypeOK, Entry
<1>6. ASSUME NEW i \in Indices
      PROVE  /\ Marked(prove)[i].id = ring[i].id
             /\ Marked(prove)[i].epoch = ring[i].epoch
             /\ Marked(prove)[i].slot = ring[i].slot
             /\ (ring[i] = NoEntry) => (Marked(prove)[i] = NoEntry)
  <2>1. /\ Marked(prove)[i] = [ring[i] EXCEPT !.proven = @ \cup add(i)]
        /\ Marked(prove)[i] \in Entry /\ ring[i] \in Entry
        /\ add(i) \in SUBSET Ranks
    BY <1>1, <1>2, <1>4, <1>5 DEF TypeOK
  <2>2. /\ Marked(prove)[i].id = ring[i].id
        /\ Marked(prove)[i].epoch = ring[i].epoch
        /\ Marked(prove)[i].slot = ring[i].slot
    BY <2>1, EntryFlags
  <2>3. ASSUME ring[i] = NoEntry PROVE Marked(prove)[i] = NoEntry
    <3>1. add(i) = {} /\ ring[i].proven = {}
      BY <1>3, <2>3 DEF NoEntry
    <3>2. ring[i].proven \cup add(i) = ring[i].proven
      BY <3>1
    <3>3. [ring[i] EXCEPT !.proven = @ \cup add(i)] = ring[i]
      BY <2>1, <3>2 DEF Entry
    <3> QED
      BY <2>1, <2>3, <3>3
  <2> QED
    BY <2>2, <2>3
<1> QED
  BY <1>5, <1>6 DEF SameTickets

LEMMA PollLedgerInv ==
  ASSUME LedgerInv, NEW prove, Poll(prove)
  PROVE  LedgerInv' /\ Live' \subseteq Live
<1>1. SameTickets(Marked(prove)) /\ TypeOK
  BY MarkedSameTickets DEF LedgerInv
<1>2. CASE FaultAnswers(prove) # {}
  <2>1. SameTickets(ring') /\ Live' = Live
    BY <1>1, <1>2 DEF Poll, Live
  <2>2. closed' \in BOOLEAN /\ interrupted' \in BOOLEAN /\ fault' \in BOOLEAN
    BY <1>1, <1>2 DEF Poll, TypeOK
  <2> QED
    BY <1>2, <2>1, <2>2, SameTicketsLedgerInv DEF Poll
<1>3. CASE FaultAnswers(prove) = {}
  BY <1>1, <1>3, RetireLedgerInv DEF Poll, TypeOK
<1> QED
  BY <1>2, <1>3

(* Any step that moves neither the ring nor the epoch while something is   *)
(* outstanding.                                                            *)
LEMMA GateLedgerInv ==
  ASSUME LedgerInv, UNCHANGED <<ring, count, lastId>>,
         capacity' \in {0, Capacity},
         activeEpoch' \in 0..MaxEpoch, activeSlot' \in Slots,
         closed' \in BOOLEAN, interrupted' \in BOOLEAN, fault' \in BOOLEAN,
         \/ count = 0
         \/ (activeEpoch' = activeEpoch /\ activeSlot' = activeSlot)
  PROVE  LedgerInv' /\ Live' = Live
<1>1. TypeOK'
  BY DEF LedgerInv, TypeOK
<1>2. Live' = Live /\ (count = 0 => Live = {})
  BY DEF LedgerInv, TypeOK, Live
<1>3. RingOwned'
  BY <1>2 DEF LedgerInv, RingOwned, At
<1>4. EpochPure'
  BY <1>2 DEF LedgerInv, EpochPure, At
<1> QED
  BY <1>1, <1>2, <1>3, <1>4 DEF LedgerInv

(* Every method preserves the invariant, whoever calls it. *)
LEMMA NextLedgerInv == LedgerInv /\ [Next]_ledgerVars => LedgerInv'
<1> SUFFICES ASSUME LedgerInv, [Next]_ledgerVars PROVE LedgerInv'
  OBVIOUS
<1>1. CASE Configure
  BY <1>1, GateLedgerInv DEF Configure, LedgerInv, TypeOK
<1>2. ASSUME NEW e \in Epochs, NEW s \in Slots, Initialize(e, s)
      PROVE  LedgerInv'
  <2>1. count = 0 /\ e \in 0..MaxEpoch
    BY <1>2, LedgerAssumption DEF Initialize, LedgerInv, Epochs
  <2> QED
    BY <1>2, <2>1, GateLedgerInv DEF Initialize, LedgerInv, TypeOK
<1>3. CASE Interrupt
  BY <1>3, GateLedgerInv DEF Interrupt, LedgerInv, TypeOK
<1>4. CASE RaiseFault
  BY <1>4, GateLedgerInv DEF RaiseFault, LedgerInv, TypeOK
<1>5. CASE Allocate
  BY <1>5, AllocateLedgerInv
<1>6. ASSUME NEW id \in Tickets, Bind(id) PROVE LedgerInv'
  BY <1>6, BindLedgerInv
<1>7. ASSUME NEW id \in Tickets, Cancel(id) PROVE LedgerInv'
  BY <1>7, CancelLedgerInv
<1>8. ASSUME NEW id \in Tickets, CancelRejected(id) PROVE LedgerInv'
  BY <1>4, <1>8 DEF CancelRejected
<1>9. ASSUME NEW id \in Tickets, HostComplete(id) PROVE LedgerInv'
  BY <1>9, HostCompleteLedgerInv
<1>10. ASSUME NEW prove \in [Live \X Ranks -> Proofs], Poll(prove)
       PROVE  LedgerInv'
  BY <1>10, PollLedgerInv
<1>11. CASE CloseAdmission
  BY <1>11, GateLedgerInv DEF CloseAdmission, LedgerInv, TypeOK
<1>12. ASSUME NEW e \in Epochs, NEW s \in Slots, Reopen(e, s)
       PROVE  LedgerInv'
  <2>1. count = 0 /\ e \in 0..MaxEpoch
    BY <1>12, LedgerAssumption DEF Reopen, Epochs
  <2> QED
    BY <1>12, <2>1, GateLedgerInv DEF Reopen, LedgerInv, TypeOK
<1>13. ASSUME NEW e \in Epochs, NEW c \in Tickets, DrainTimeout(e, c)
       PROVE  LedgerInv'
  BY <1>4, <1>13 DEF DrainTimeout
<1>14. CASE UNCHANGED ledgerVars
  BY <1>14, GateLedgerInv DEF ledgerVars, LedgerInv, TypeOK
<1> QED
  BY <1>1, <1>2, <1>3, <1>4, <1>5, <1>6, <1>7, <1>8, <1>9, <1>10, <1>11,
     <1>12, <1>13, <1>14 DEF Next

(* The ledger's inductive invariant holds for every client. *)
THEOREM LedgerInvariant == Spec => []LedgerInv
  BY InitLedgerInv, NextLedgerInv, PTL DEF Spec

(* The types of the ledger's fields: in particular never more than         *)
(* Capacity outstanding parents, and never more of them than ids handed out*)
THEOREM LedgerTypeCorrect == Spec => []TypeOK
<1>1. LedgerInv => TypeOK
  BY DEF LedgerInv
<1> QED
  BY <1>1, LedgerInvariant, PTL

(* Outstanding parents never share a ring slot, for every capacity and     *)
(* through every mixture of admissions, cancelled reservations whose ids   *)
(* are reissued, out-of-order rank proofs and ordered retirement.          *)
THEOREM LedgerRingOwned == Spec => []RingOwned
<1>1. LedgerInv => RingOwned
  BY DEF LedgerInv
<1> QED
  BY <1>1, LedgerInvariant, PTL

(* No outstanding parent carries an epoch or a generation slot other than  *)
(* the active one.                                                         *)
THEOREM LedgerEpochPure == Spec => []EpochPure
<1>1. LedgerInv => EpochPure
  BY DEF LedgerInv
<1> QED
  BY <1>1, LedgerInvariant, PTL

(* Staging into the inactive generation slot is never refused for a live   *)
(* reference and never allowed over one: on a running ledger the gate of   *)
(* owner_generation.h's may_upload opens exactly for the other slot.       *)
THEOREM ReplaceGateExact ==
  ASSUME LedgerInv, capacity # 0, ~Stopped, activeEpoch # 0, NEW s \in Slots
  PROVE  /\ CanReplaceGeneration(s) <=> s # activeSlot
         /\ CanReplaceGeneration(s) => \A id \in Live : At(id).slot # s
<1>1. \A id \in Live : At(id).slot = activeSlot
  BY DEF LedgerInv, EpochPure
<1> QED
  BY <1>1 DEF CanReplaceGeneration, ReferencesSlot

-----------------------------------------------------------------------------
(* Only an admission adds an outstanding id. *)
LEMMA OnlyAllocateAdds ==
  ASSUME LedgerInv, [Next]_ledgerVars, ~Allocate
  PROVE  Live' \subseteq Live
<1>1. CASE \/ Configure \/ (\E e \in Epochs, s \in Slots : Initialize(e, s))
           \/ Interrupt \/ RaiseFault \/ CloseAdmission
           \/ (\E id \in Tickets : CancelRejected(id))
           \/ (\E e \in Epochs, s \in Slots : Reopen(e, s))
           \/ (\E e \in Epochs, c \in Tickets : DrainTimeout(e, c))
           \/ UNCHANGED ledgerVars
  <2>1. count' = count /\ lastId' = lastId
    BY <1>1 DEF Configure, Initialize, Interrupt, RaiseFault, CloseAdmission,
                CancelRejected, Reopen, DrainTimeout, ledgerVars
  <2> QED
    BY <2>1 DEF Live
<1>2. CASE \E id \in Tickets : Bind(id)
  BY <1>2, BindLedgerInv
<1>3. CASE \E id \in Tickets : Cancel(id)
  BY <1>3, CancelLedgerInv
<1>4. CASE \E id \in Tickets : HostComplete(id)
  BY <1>4, HostCompleteLedgerInv
<1>5. CASE \E prove \in [Live \X Ranks -> Proofs] : Poll(prove)
  BY <1>5, PollLedgerInv
<1> QED
  BY <1>1, <1>2, <1>3, <1>4, <1>5 DEF Next

(* An admission needs a running ledger and an open gate. *)
LEMMA AllocateNeedsOpenGate ==
  ASSUME Allocate
  PROVE  ~Stopped /\ ~closed
  BY DEF Allocate, AllocateResult, Stopped

(* A stopped ledger admits nothing, keeps a closed gate closed and never   *)
(* advances the epoch.                                                     *)
THEOREM LedgerStopIsFinal == Spec => StopIsFinal
<1>1. ASSUME LedgerInv, [Next]_ledgerVars PROVE StopIsFinalStep
  <2> SUFFICES ASSUME Stopped PROVE /\ Stopped'
                                    /\ Live' \subseteq Live
                                    /\ closed => closed'
                                    /\ activeEpoch # 0 =>
                                         (activeEpoch' = activeEpoch /\ activeSlot' = activeSlot)
    BY DEF StopIsFinalStep
  <2>1. ~Allocate
    BY AllocateNeedsOpenGate
  <2>2. Live' \subseteq Live
    BY <1>1, <2>1, OnlyAllocateAdds
  <2>3. interrupted => interrupted'
    BY <1>1, <2>1, Zenon DEF Next, ledgerVars, Configure, Initialize, Interrupt,
       RaiseFault, CloseAdmission, CancelRejected, Reopen, DrainTimeout, Bind,
       Cancel, HostComplete, Poll
  <2>6. fault => fault'
    BY <1>1, <2>1, Zenon DEF Next, ledgerVars, Configure, Initialize, Interrupt,
       RaiseFault, CloseAdmission, CancelRejected, Reopen, DrainTimeout, Bind,
       Cancel, HostComplete, Poll
  <2>4. closed => closed'
    BY <1>1, <2>1, Zenon DEF Next, ledgerVars, Configure, Initialize, Interrupt,
       RaiseFault, CloseAdmission, CancelRejected, Reopen, DrainTimeout, Bind,
       Cancel, HostComplete, Poll
  <2>5. activeEpoch # 0 => (activeEpoch' = activeEpoch /\ activeSlot' = activeSlot)
    BY <1>1, <2>1, Zenon DEF Next, ledgerVars, Configure, Initialize, Interrupt,
       RaiseFault, CloseAdmission, CancelRejected, Reopen, DrainTimeout, Bind,
       Cancel, HostComplete, Poll
  <2> QED
    BY <2>2, <2>3, <2>4, <2>5, <2>6 DEF Stopped
<1>2. LedgerInv /\ [Next]_ledgerVars => [StopIsFinalStep]_ledgerVars
  BY <1>1
<1> QED
  BY <1>2, LedgerInvariant, PTL DEF Spec, StopIsFinal

(* Behind a closed gate the outstanding set only shrinks, and the gate     *)
(* reopens only once it is empty: the drain a placement move waits for     *)
(* cannot be overtaken by an admission.                                    *)
THEOREM LedgerClosedOnlyDrains == Spec => ClosedOnlyDrains
<1>1. ASSUME LedgerInv, [Next]_ledgerVars PROVE ClosedOnlyDrainsStep
  <2> SUFFICES ASSUME closed PROVE Live' \subseteq Live /\ (~closed' => Live = {})
    BY DEF ClosedOnlyDrainsStep
  <2>1. ~Allocate
    BY AllocateNeedsOpenGate
  <2>2. Live' \subseteq Live
    BY <1>1, <2>1, OnlyAllocateAdds
  <2>3. ~closed' => count = 0
    BY <1>1, <2>1, Zenon DEF Next, ledgerVars, Configure, Initialize, Interrupt,
       RaiseFault, CloseAdmission, CancelRejected, Reopen, DrainTimeout, Bind,
       Cancel, HostComplete, Poll
  <2>4. count = 0 => Live = {}
    BY <1>1 DEF LedgerInv, TypeOK, Live
  <2> QED
    BY <2>2, <2>3, <2>4
<1>2. LedgerInv /\ [Next]_ledgerVars => [ClosedOnlyDrainsStep]_ledgerVars
  BY <1>1
<1> QED
  BY <1>2, LedgerInvariant, PTL DEF Spec, ClosedOnlyDrains

=============================================================================
