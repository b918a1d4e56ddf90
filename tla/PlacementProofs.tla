--------------------------- MODULE PlacementProofs ---------------------------
(***************************************************************************)
(* Proofs about module Placement: the epoch drivers, the controller and    *)
(* the engine's coordinator, for any number of helpers, ranks, experts and *)
(* transactions and for every set of failures.                             *)
(*                                                                         *)
(* The inductive invariant has four parts: the control and its journal     *)
(* (CtlInv), what each helper's participant, copy of the control and       *)
(* acknowledgement say of each other (HelperInv), the same for the engine  *)
(* (EngineInv), and the pools (PoolInv, module ResidencyProofs).           *)
(***************************************************************************)
EXTENDS Placement, ResidencyProofs

\* The transaction of the control, and its journal record.
Txn == ctl.txn
Rec == Record(ctl)

\* The states from one on, in the order the controller publishes them.
Committing == {"COMMIT", "RETIRING"}
FromQuiescing == {"QUIESCING", "COMMIT", "RETIRING"}
FromPrepared == {"PREPARED", "QUIESCING", "COMMIT", "RETIRING"}
FromCopying == {"COPYING", "PREPARED", "QUIESCING", "COMMIT", "RETIRING"}
States8 == {"ACTIVE", "PROPOSED", "RESERVING"} \cup FromCopying

-----------------------------------------------------------------------------
(* The control, the journal, and copies of the control.                    *)

\* The journal's records, and what the controller keeps of its own.
Records ==
  [txn : 0 .. MaxTxn, epoch : 0 .. MaxTxn + 1, old : Generations,
   from : OwnerMaps \cup {NoMap}, to : OwnerMaps \cup {NoMap},
   fault : BOOLEAN, committed : BOOLEAN, cleanup : BOOLEAN]
Leads ==
  [await : 0 .. MaxTxn, committed : BOOLEAN, last : 0 .. 2, failed : BOOLEAN]

\* Epochs count the commits, transactions the proposals.
GoodCtl(c) ==
  /\ c \in Controls /\ c.epoch <= c.txn + 1
  /\ c.state # "ACTIVE" => /\ c.txn # 0 /\ c.cand \in OwnerMaps
                           /\ c.state \notin Committing => c.epoch <= c.txn

\* The old placement is the one published.
OldInForce == ctl.slot = Rec.old /\ ctl.epoch = Rec.epoch /\ ctl.map = Rec.from

\* A copy of a transaction's control names what the journal recorded.
Matches(c) ==
  /\ c.txn = Txn /\ c.jix = ctl.jix /\ c.cand = Rec.to
  /\ c.state \in Committing =>
       Rec.committed /\ c.slot = 1 - Rec.old /\ c.epoch = Rec.epoch + 1 /\ c.map = Rec.to
  /\ c.state \notin Committing =>
       c.slot = Rec.old /\ c.epoch = Rec.epoch /\ c.map = Rec.from
  /\ ~Rec.committed => OldInForce
  /\ c.state # "PROPOSED" => ctl.state # "PROPOSED"
  /\ c.state \in FromCopying => ctl.state \notin {"PROPOSED", "RESERVING"}
  /\ c.state \in FromQuiescing =>
       ctl.state \notin {"PROPOSED", "RESERVING", "COPYING", "PREPARED"}

\* What a process may have read and not acted on yet.
Seen(c) == c # NoSnap =>
  /\ GoodCtl(c) /\ c.txn <= Txn /\ (c.fault => fault)
  /\ c.state # "ACTIVE" => Matches(c)
  /\ c.state = "ACTIVE" /\ c.txn = Txn => c = ctl

\* The shared control is well formed; its fault flag is never ahead of the
\* process-wide one.
CtlOK == GoodCtl(ctl) /\ (ctl.fault => fault) /\ fault \in BOOLEAN

\* The current record is the control's; the other one, if any, committed.
JournalOK ==
  /\ journal \in [0 .. 1 -> Records] /\ Rec.txn = Txn
  /\ Rec.committed => Txn # 0 /\ Rec.from \in OwnerMaps
  /\ journal[1 - ctl.jix].txn # 0 => journal[1 - ctl.jix].committed

\* The controller remembers the last committed record and awaits the
\* cleanup of the transaction it ended.
LeadOK ==
  /\ lead \in Leads
  /\ lead.last = 2 => journal[1].txn = 0
  /\ lead.last # 2 => journal[lead.last].committed
  /\ ctl.state = "ACTIVE" /\ ~ctl.fault => lead.await = Txn

\* The control publishes the record's old side before the commit and its
\* new side after it.
Agree ==
  /\ Rec.committed => ctl.slot = 1 - Rec.old /\ ctl.epoch = Rec.epoch + 1 /\ ctl.map = Rec.to
  /\ ctl.state # "ACTIVE" => /\ Rec.to = ctl.cand
                             /\ Rec.committed <=> ctl.state \in Committing
                             /\ ~Rec.committed => OldInForce

\* Helper zero, the only writer, works on the control itself.
LeaderPc ==
  /\ lpc \in {"idle", "tick", "poll", "retire"}
  /\ lpc = "idle" <=> snap[Leader] = NoSnap
  /\ lpc \in {"tick", "poll"} => snap[Leader] = ctl
  /\ lpc = "retire" => /\ ctl.state = "ACTIVE" /\ Rec.committed
                       /\ reopen[Leader] = Txn /\ part[Leader].txn # 0

\* The invariant of the control and its journal.
CtlInv == CtlOK /\ JournalOK /\ LeadOK /\ Agree

-----------------------------------------------------------------------------
(* A helper.                                                               *)

\* How far its participant is in the transaction the control names.
HelperPhase(h) ==
  LET P == part[h]
  IN /\ P.txn \in {0, Txn} /\ reopen[h] \in {0, Txn}
     /\ reopen[h] # 0 => P.committed
     /\ P.committed => Rec.committed
     /\ Rec.committed /\ P.txn # 0 /\ ctl.state \in {"RETIRING", "ACTIVE"} => P.committed
     /\ ctl.state = "ACTIVE" /\ Rec.committed /\ P.txn # 0 => reopen[h] = Txn
     /\ ctl.state = "PROPOSED" => P.txn = 0
     /\ ctl.state \in FromCopying => P.txn # 0 /\ ~P.fault
     /\ ctl.state \in FromPrepared => P.built

\* Its copy of the control may be stale, never wrong.
SnapSeen(h) == Seen(snap[h])

\* What its copy of the control lets it rely on.
SnapPhase(h) ==
  LET P == part[h]
      c == snap[h]
  IN c # NoSnap =>
     /\ c.state # "ACTIVE" /\ Rec.committed => P.txn # 0
     /\ c.state \in FromCopying => P.txn # 0 /\ ~P.fault
     /\ c.state \in FromPrepared => P.built
     /\ c.state = "RETIRING" => P.committed
     /\ c.state = "ACTIVE" /\ c.txn # Txn => P.txn = 0 /\ reopen[h] = 0

\* What its acknowledgement proves to the controller.
AckPhase(h) ==
  LET P == part[h]
      a == ack[h]
  IN /\ a \in Acks /\ a.txn <= Txn
     /\ a.txn = Txn /\ ctl.state # "ACTIVE" /\ ~a.fault =>
          /\ a.phase = "RESERVED" => P.txn # 0 /\ ~P.fault
          /\ a.phase = "READY" => P.txn # 0 /\ P.built
          /\ a.phase = "COMMITTED" => P.committed
          /\ a.phase = "RETIRED" => reopen[h] = Txn
     /\ Txn # 0 /\ a.txn = Txn /\ a.phase = "CLEANED" =>
          /\ ctl.state = "ACTIVE" /\ P.txn = 0 /\ reopen[h] = 0
          /\ snap[h] # NoSnap => snap[h].state = "ACTIVE"

\* Its pool holds what the maps of the transaction say.
PoolLink(h) ==
  LET P == part[h]
  IN /\ Fits(h, ctl.map)
     /\ P.txn = 0 => /\ led.slot = ctl.slot
                     /\ Dom(h, ctl.slot) = Owned(h, ctl.map)
                     /\ Dom(h, 1 - ctl.slot) = {}
     /\ P.txn # 0 => /\ P.old = Rec.old
                     /\ Dom(h, Rec.old) = Owned(h, Rec.from)
                     /\ P.gained = Owned(h, Rec.to) \ Owned(h, Rec.from)
                     /\ P.lost = Owned(h, Rec.from) \ Owned(h, Rec.to)
                     /\ ~Rec.committed => OldInForce
                     /\ ~P.fault => Fits(h, Rec.to)

\* The invariant of one helper.
HelperInv(h) ==
  HelperPhase(h) /\ SnapSeen(h) /\ SnapPhase(h) /\ AckPhase(h) /\ PoolLink(h)

-----------------------------------------------------------------------------
(* The engine.                                                             *)

\* The coordinator's fields, and one rank's owner bitmap.
Coordinators ==
  [uploaded : 0 .. MaxTxn, closed : 0 .. MaxTxn, oldEpoch : Nat,
   issued : SUBSET Ranks, ready : SUBSET Ranks, committed : SUBSET Ranks,
   badAbort : 0 .. MaxTxn]
Bitmaps ==
  [epoch : Nat, map : OwnerMaps \cup {NoMap},
   event : {"none", "busy", "done", "failed"}]

\* The engine's share of the state has its type.
EngineTyped ==
  /\ gate \in {"open", "closed", "faulted"} /\ closing \in BOOLEAN
  /\ led \in [epoch : Nat, slot : Generations]
  /\ owner \in [Ranks -> [Generations -> Bitmaps]]
  /\ co \in Coordinators
  /\ gate = "faulted" => fault

\* The ledger is on the control's generation, or one commit behind it; the
\* owner map of the ledger's generation.
LedAtCtl == led.slot = ctl.slot /\ led.epoch = ctl.epoch
LedBehind == led.slot = 1 - ctl.slot /\ led.epoch + 1 = ctl.epoch
LedMap == IF led.slot = ctl.slot THEN ctl.map ELSE Rec.from

\* The ledger is on the generation in force, or behind it and closed.
EngineLed ==
  /\ ~Rec.committed => LedAtCtl
  /\ Rec.committed => \/ ctl.state = "ACTIVE" /\ LedAtCtl
                      \/ LedBehind /\ gate # "open" /\ ~closing
  /\ \A r \in Ranks : owner[r][led.slot].event = "done" /\ owner[r][led.slot].map = LedMap

\* Copies of bitmaps are those the coordinator issued for this transaction.
EngineBitmaps ==
  /\ co.uploaded <= Txn /\ co.ready \subseteq co.issued
  /\ co.uploaded = Txn /\ Txn # 0 =>
       /\ \A r \in co.issued : /\ owner[r][1 - Rec.old].epoch = Rec.epoch + 1
                               /\ owner[r][1 - Rec.old].map = Rec.to
       /\ \A r \in co.ready : owner[r][1 - Rec.old].event = "done"
       /\ ~Rec.committed => OldInForce
       /\ ctl.state \notin {"PROPOSED", "RESERVING"}
  /\ \A r \in Ranks, g \in Generations : owner[r][g].event \in {"busy", "failed"} =>
       Txn # 0 /\ co.uploaded = Txn /\ r \in co.issued /\ g = 1 - Rec.old
  /\ ctl.state \in FromPrepared \/ Rec.committed => co.uploaded = Txn /\ co.ready = Ranks

\* The gate is closed for the transaction in hand and for no other.
EngineGate ==
  /\ closing => /\ gate # "open" /\ esnap # NoSnap /\ esnap.state = "QUIESCING"
                /\ co.closed # Txn /\ ~Rec.committed
  /\ gate = "open" => co.closed = 0
  /\ gate = "closed" => closing \/ (co.closed = Txn /\ Txn # 0)
  /\ co.closed # 0 => /\ co.closed = Txn /\ co.oldEpoch = led.epoch
                      /\ esnap # NoSnap => esnap.txn = Txn
                      /\ ctl.state \in {"ACTIVE"} \cup FromQuiescing
  /\ ctl.state \in Committing => co.closed = Txn
  /\ esnap # NoSnap /\ esnap.state # "ACTIVE" /\ Rec.committed => co.closed = Txn

\* The engine has nothing of the transaction left to undo or to finish.
EngineDone ==
  /\ ctl.state = "ACTIVE" /\ co.closed = 0 /\ ~closing /\ LedAtCtl
  /\ \A r \in Ranks, g \in Generations : owner[r][g].event \notin {"busy", "failed"}
  /\ esnap # NoSnap => esnap.state = "ACTIVE"

\* What a rank's acknowledgement proves to the controller.
RankAck(r) ==
  /\ ack[r] \in Acks /\ ack[r].txn <= Txn
  /\ ack[r].txn = Txn /\ ctl.state # "ACTIVE" =>
       /\ ack[r].phase = "READY" /\ ~ack[r].fault => co.uploaded = Txn /\ r \in co.ready
       /\ ack[r].phase = "QUIESCED" => co.closed = Txn
  /\ Txn # 0 /\ ack[r].txn = Txn
       /\ (ack[r].phase = "REOPENED" \/ (ack[r].phase = "CLEANED" /\ ~ack[r].fault))
       => EngineDone

\* The copy of the control the engine's tick works on.
EngineSeen == Seen(esnap)

\* The invariant of the engine.
EngineInv ==
  /\ EngineTyped /\ EngineLed /\ EngineBitmaps /\ EngineGate /\ EngineSeen
  /\ \A r \in Ranks : RankAck(r)

-----------------------------------------------------------------------------
\* The variables indexed by actors are.
Shape ==
  /\ PoolShape /\ DOMAIN ack = Actors /\ DOMAIN snap = Helpers /\ DOMAIN reopen = Helpers
  /\ up \subseteq Helpers /\ halted \subseteq Helpers /\ drained \subseteq Helpers

\* The inductive invariant: every state of the protocol satisfies it.
PlacementInv ==
  /\ Shape /\ CtlInv /\ LeaderPc /\ EngineInv
  /\ \A h \in Helpers : PoolInv(h) /\ HelperInv(h)

-----------------------------------------------------------------------------
(* The operators of the control.                                           *)

\* The states of a transaction and their order.
LEMMA OrderFacts ==
  /\ DOMAIN Order = States8
  /\ Order["ACTIVE"] = 0 /\ Order["PROPOSED"] = 1 /\ Order["RESERVING"] = 2
  /\ Order["COPYING"] = 3 /\ Order["PREPARED"] = 4 /\ Order["QUIESCING"] = 5
  /\ Order["COMMIT"] = 6 /\ Order["RETIRING"] = 7
BY DEF Order, States8, FromCopying

\* What each state asks the actors to acknowledge.
LEMMA AckOfFacts ==
  /\ DOMAIN AckOf = {"RESERVING", "COPYING", "QUIESCING", "COMMIT", "RETIRING"}
  /\ AckOf["RESERVING"] = "RESERVED" /\ AckOf["COPYING"] = "READY"
  /\ AckOf["QUIESCING"] = "QUIESCED" /\ AckOf["COMMIT"] = "COMMITTED"
  /\ AckOf["RETIRING"] = "RETIRED"
BY DEF AckOf

\* A control is committed from COMMIT on, and quiesces from QUIESCING on; the
\* generation it prepares, or has committed, is not the one it started from.
LEMMA ControlFacts ==
  ASSUME NEW c \in Controls
  PROVE  /\ c.state \in States8 /\ c.txn \in 0 .. MaxTxn /\ c.epoch \in 1 .. MaxTxn + 1
         /\ c.slot \in Generations /\ c.map \in OwnerMaps /\ c.jix \in 0 .. 1
         /\ c.fault \in BOOLEAN /\ c # NoSnap /\ c.cand \in OwnerMaps \cup {NoMap}
         /\ Committed(c) <=> c.state \in Committing
         /\ Quiescing(c) <=> c.state \in FromQuiescing
         /\ c.state \in Committing => PendEpoch(c) = c.epoch /\ PendSlot(c) = c.slot
         /\ c.state \notin Committing =>
              PendEpoch(c) = c.epoch + 1 /\ PendSlot(c) = 1 - c.slot
<1>1. /\ c.state \in States8 /\ c.txn \in 0 .. MaxTxn /\ c.epoch \in 1 .. MaxTxn + 1
      /\ c.slot \in Generations /\ c.map \in OwnerMaps /\ c.jix \in 0 .. 1
      /\ c.fault \in BOOLEAN /\ c.cand \in OwnerMaps \cup {NoMap}
  BY OrderFacts DEF Controls
<1>2. c # NoSnap
  BY <1>1 DEF NoSnap, States8, FromCopying
<1>3. Committed(c) <=> c.state \in Committing
  BY <1>1, OrderFacts DEF Committed, Committing, States8, FromCopying
<1>4. Quiescing(c) <=> c.state \in FromQuiescing
  BY <1>1, OrderFacts DEF Quiescing, FromQuiescing, States8, FromCopying
<1> QED
  BY <1>1, <1>2, <1>3, <1>4 DEF PendEpoch, PendSlot

\* What a process publishes about a copy it may hold is an acknowledgement.
LEMMA AckFacts ==
  ASSUME NEW c, GoodCtl(c), NEW bad \in BOOLEAN
  PROVE  /\ \A p \in {"RESERVED", "READY", "QUIESCED", "COMMITTED", "RETIRED"} :
              /\ c.state # "ACTIVE" => PhaseAck(c, p, bad) \in Acks
              /\ PhaseAck(c, p, bad).phase = p /\ PhaseAck(c, p, bad).txn = c.txn
              /\ PhaseAck(c, p, bad).fault = bad
         /\ \A p \in {"CLEANED", "REOPENED"} :
              /\ ClosingAck(c, p, bad) \in Acks
              /\ ClosingAck(c, p, bad).phase = p /\ ClosingAck(c, p, bad).txn = c.txn
              /\ ClosingAck(c, p, bad).fault = bad
<1>1. c \in Controls /\ MaxTxn \in Nat
  BY BoundAssumption DEF GoodCtl
<1>2. \A p \in {"RESERVED", "READY", "QUIESCED", "COMMITTED", "RETIRED"} :
         p \in {AckOf[s] : s \in DOMAIN AckOf}
  BY AckOfFacts
<1>3. ASSUME NEW p \in {"RESERVED", "READY", "QUIESCED", "COMMITTED", "RETIRED"}
      PROVE  /\ c.state # "ACTIVE" => PhaseAck(c, p, bad) \in Acks
             /\ PhaseAck(c, p, bad).phase = p /\ PhaseAck(c, p, bad).txn = c.txn
             /\ PhaseAck(c, p, bad).fault = bad
  <2>1. c.state # "ACTIVE" => PendEpoch(c) \in 0 .. MaxTxn + 1
    BY <1>1, ControlFacts DEF GoodCtl
  <2>2. PendSlot(c) \in Generations
    BY <1>1, ControlFacts DEF Generations
  <2>3. c.state # "ACTIVE" => c.cand \in OwnerMaps
    BY DEF GoodCtl
  <2> QED
    BY <1>1, <1>2, <2>1, <2>2, <2>3, ControlFacts DEF PhaseAck, Acks
<1>4. ASSUME NEW p \in {"CLEANED", "REOPENED"}
      PROVE  /\ ClosingAck(c, p, bad) \in Acks
             /\ ClosingAck(c, p, bad).phase = p /\ ClosingAck(c, p, bad).txn = c.txn
             /\ ClosingAck(c, p, bad).fault = bad
  BY <1>1, ControlFacts DEF ClosingAck, Acks
<1> QED
  BY <1>3, <1>4

\* The control names a record of the journal.
LEMMA RecordFacts ==
  ASSUME CtlInv
  PROVE  /\ Rec \in Records /\ Rec.old \in Generations /\ Rec.committed \in BOOLEAN
         /\ Txn \in Nat /\ ctl \in Controls /\ ctl.jix \in 0 .. 1 /\ Rec = journal[ctl.jix]
         /\ Rec.epoch \in Nat
<1>1. ctl \in Controls
  BY DEF CtlInv, CtlOK, GoodCtl
<1>2. Rec \in Records
  BY <1>1, ControlFacts DEF CtlInv, JournalOK, Rec, Record
<1> QED
  BY <1>1, <1>2, ControlFacts, BoundAssumption DEF Records, Rec, Record, Txn

-----------------------------------------------------------------------------
(* Steps that leave parts of the state alone.                              *)

\* The control stays, and of its journal record what the transaction is.
SameMove ==
  /\ ctl' = ctl /\ (fault => fault') /\ fault' \in BOOLEAN
  /\ Rec'.txn = Rec.txn /\ Rec'.epoch = Rec.epoch /\ Rec'.old = Rec.old
  /\ Rec'.from = Rec.from /\ Rec'.to = Rec.to /\ Rec'.committed = Rec.committed

\* The shared control and journal are not written.
LEMMA CtlFrame ==
  ASSUME CtlInv, UNCHANGED ctlVars, fault => fault', fault' \in BOOLEAN
  PROVE  CtlInv' /\ SameMove
<1>1. ctl' = ctl /\ journal' = journal /\ lead' = lead /\ Rec' = Rec
  BY DEF ctlVars, Rec, Record
<1>2. CtlOK'
  BY <1>1 DEF CtlInv, CtlOK, GoodCtl
<1>3. JournalOK' /\ LeadOK' /\ Agree'
  BY <1>1 DEF CtlInv, JournalOK, LeadOK, Agree, OldInForce, Txn
<1> QED
  BY <1>1, <1>2, <1>3 DEF CtlInv, SameMove

\* A copy of the control that is kept, or dropped when a tick ends.
LEMMA SnapFrame ==
  ASSUME NEW h \in Helpers, SnapSeen(h), SameMove,
         snap'[h] = snap[h] \/ snap'[h] = NoSnap
  PROVE  SnapSeen(h)'
BY DEF SnapSeen, Seen, GoodCtl, Matches, OldInForce, SameMove, Txn

\* The participant, its copy of the control and its acknowledgement stay, but
\* for the copy that is dropped when a tick ends.
LEMMA HelperFrame ==
  ASSUME NEW h \in Helpers, HelperInv(h), SameMove, led' = led,
         phys'[h] = phys[h], part'[h] = part[h], reopen'[h] = reopen[h],
         snap'[h] = snap[h] \/ snap'[h] = NoSnap
  PROVE  /\ HelperPhase(h)' /\ SnapSeen(h)' /\ SnapPhase(h)' /\ PoolLink(h)'
         /\ ack'[h] = ack[h] => AckPhase(h)' /\ HelperInv(h)'
<1>1. HelperPhase(h)'
  BY DEF HelperInv, HelperPhase, SameMove, Txn
<1>2. SnapSeen(h)'
  BY SnapFrame DEF HelperInv
<1>3. SnapPhase(h)'
  BY DEF HelperInv, SnapPhase, SameMove, Txn
<1>4. PoolLink(h)'
  BY DEF HelperInv, PoolLink, SameMove, Fits, Owned, Dom, OldInForce
<1>5. ack'[h] = ack[h] => AckPhase(h)'
  BY DEF HelperInv, AckPhase, SameMove, Txn
<1> QED
  BY <1>1, <1>2, <1>3, <1>4, <1>5 DEF HelperInv

\* The engine and its ranks' acknowledgements stay.
LEMMA EngineFrame ==
  ASSUME EngineInv, SameMove, esnap' = esnap, gate' = gate, led' = led,
         closing' = closing, owner' = owner, co' = co,
         \A r \in Ranks : ack'[r] = ack[r]
  PROVE  EngineInv'
<1>1. EngineTyped' /\ EngineGate'
  BY DEF EngineInv, EngineTyped, EngineGate, SameMove, Txn
<1>2. EngineLed'
  BY DEF EngineInv, EngineLed, SameMove, LedAtCtl, LedBehind, LedMap
<1>3. EngineBitmaps'
  BY DEF EngineInv, EngineBitmaps, SameMove, OldInForce, Txn
<1>4. EngineSeen'
  BY DEF EngineInv, EngineSeen, Seen, GoodCtl, Matches, OldInForce, SameMove, Txn
<1>5. EngineDone' <=> EngineDone
  BY DEF EngineDone, SameMove, LedAtCtl
<1>6. ASSUME NEW r \in Ranks PROVE RankAck(r)'
  BY <1>5 DEF EngineInv, RankAck, SameMove, Txn
<1> QED
  BY <1>1, <1>2, <1>3, <1>4, <1>6 DEF EngineInv

\* Helper zero's program counter while another process moves.
LEMMA PcFrame ==
  ASSUME LeaderPc, SameMove, lpc' = lpc, snap'[Leader] = snap[Leader],
         reopen'[Leader] = reopen[Leader], part'[Leader] = part[Leader]
  PROVE  LeaderPc'
BY DEF LeaderPc, SameMove, Txn

\* The end of a tick.
LEMMA TickEnds ==
  ASSUME PlacementInv, NEW h \in Helpers, SameMove, OthersKept(h), NEW next,
         next = "idle" \/ (next = "poll" /\ h = Leader /\ lpc = "tick"),
         EndTick(h, next),
         \A k \in Helpers : k # h => reopen'[k] = reopen[k]
  PROVE  /\ LeaderPc' /\ DOMAIN snap' = Helpers
         /\ snap'[h] = snap[h] \/ snap'[h] = NoSnap
         /\ \A k \in Helpers : k # h => snap'[k] = snap[k]
<1>1. /\ DOMAIN snap' = Helpers
      /\ snap'[h] = IF next = "idle" THEN NoSnap ELSE snap[h]
      /\ \A k \in Helpers : k # h => snap'[k] = snap[k]
      /\ lpc' = IF h = Leader THEN next ELSE lpc
  BY DEF EndTick, PlacementInv, Shape
<1>2. Leader \in Helpers
  BY ActorsAssumption
<1>3. LeaderPc'
  <2>1. CASE h = Leader
    <3>1. /\ lpc' = next /\ (next = "poll" => snap[Leader] = ctl) /\ ctl # NoSnap
      BY <1>1, <2>1, ControlFacts DEF PlacementInv, LeaderPc, CtlInv, CtlOK, GoodCtl
    <3> QED
      BY <3>1, <1>1, <2>1 DEF LeaderPc, SameMove
  <2>2. CASE h # Leader
    BY <1>1, <1>2, <2>2, PcFrame DEF PlacementInv, OthersKept
  <2> QED
    BY <2>1, <2>2
<1> QED
  BY <1>1, <1>3

\* A step of one helper keeps the invariant if it keeps what is said of it.
LEMMA LocalStep ==
  ASSUME PlacementInv, NEW h \in Helpers, CtlInv', SameMove, OthersKept(h),
         esnap' = esnap, gate' = gate, led' = led, closing' = closing,
         owner' = owner, co' = co,
         DOMAIN ack' = Actors, \A a \in Actors : a # h => ack'[a] = ack[a],
         DOMAIN snap' = Helpers, \A k \in Helpers : k # h => snap'[k] = snap[k],
         DOMAIN reopen' = Helpers, \A k \in Helpers : k # h => reopen'[k] = reopen[k],
         up' \subseteq Helpers, halted' \subseteq Helpers, drained' \subseteq Helpers,
         PoolInv(h)', HelperInv(h)', LeaderPc'
  PROVE  PlacementInv'
<1>1. \A r \in Ranks : r # h /\ r \in Actors
  BY ActorsAssumption DEF Actors
<1>2. EngineInv'
  BY <1>1, EngineFrame DEF PlacementInv
<1>3. ASSUME NEW k \in Helpers, k # h
      PROVE  PoolInv(k)' /\ HelperInv(k)'
  <2>1. PoolInv(k)'
    BY <1>3, PoolFrame DEF PlacementInv, OthersKept
  <2>2. ack'[k] = ack[k]
    BY <1>3 DEF Actors
  <2>3. HelperInv(k)'
    BY <1>3, <2>2, HelperFrame DEF PlacementInv, OthersKept
  <2> QED
    BY <2>1, <2>3
<1>4. Shape'
  BY DEF Shape, OthersKept
<1> QED
  BY <1>2, <1>3, <1>4 DEF PlacementInv

\* Pools that are all left alone keep their invariant and their shape.
LEMMA PoolsKept ==
  ASSUME PlacementInv, UNCHANGED poolVars
  PROVE  /\ \A h \in Helpers : PoolInv(h)' /\ OthersKept(h)
         /\ PoolShape' /\ phys' = phys /\ part' = part
<1>1. ASSUME NEW h \in Helpers PROVE PoolInv(h)' /\ OthersKept(h)
  BY PoolFrame, CallIsLocal DEF PlacementInv, Shape, poolVars
<1> QED
  BY <1>1 DEF PlacementInv, Shape, PoolShape, poolVars

-----------------------------------------------------------------------------
(* The ticks of a helper.                                                  *)

\* A tick that only ends, or stops its process.
LEMMA QuietTick ==
  ASSUME PlacementInv, NEW h \in Helpers, UNCHANGED <<poolVars, ctlVars, ack, reopen>>,
         UNCHANGED <<esnap, engineVars>>, NEW next, EndTick(h, next),
         next = "idle" \/ (next = "poll" /\ h = Leader /\ lpc = "tick"),
         up' \subseteq Helpers, halted' \subseteq Helpers,
         fault => fault', fault' \in BOOLEAN
  PROVE  PlacementInv'
<1>1. CtlInv' /\ SameMove
  BY CtlFrame DEF PlacementInv
<1>2. PoolInv(h)' /\ OthersKept(h) /\ phys' = phys /\ part' = part
  BY PoolsKept
<1>3. /\ LeaderPc' /\ DOMAIN snap' = Helpers
      /\ snap'[h] = snap[h] \/ snap'[h] = NoSnap
      /\ \A k \in Helpers : k # h => snap'[k] = snap[k]
  BY <1>1, <1>2, TickEnds
<1>4. /\ esnap' = esnap /\ gate' = gate /\ led' = led /\ closing' = closing
      /\ owner' = owner /\ co' = co /\ drained' = drained
  BY DEF engineVars
<1>5. HelperInv(h)'
  BY <1>1, <1>2, <1>3, <1>4, HelperFrame DEF PlacementInv
<1> QED
  BY <1>1, <1>2, <1>3, <1>4, <1>5, LocalStep DEF PlacementInv, Shape

\* A tick that goes on to its end keeps the invariant if the participant, the
\* acknowledgement and the pool agree after it.
LEMMA TickStep ==
  ASSUME PlacementInv, NEW h \in Helpers, Ticking(h), OnlyTick(h), OthersKept(h),
         UNCHANGED <<ctlVars, halted, up, fault, esnap, engineVars>>,
         DOMAIN ack' = Actors, \A a \in Actors : a # h => ack'[a] = ack[a],
         DOMAIN reopen' = Helpers, \A k \in Helpers : k # h => reopen'[k] = reopen[k],
         PoolInv(h)', HelperPhase(h)', SnapPhase(h)', AckPhase(h)', PoolLink(h)'
  PROVE  PlacementInv'
<1>1. fault \in BOOLEAN
  BY DEF PlacementInv, CtlInv, CtlOK
<1>2. CtlInv' /\ SameMove
  BY <1>1, CtlFrame DEF PlacementInv
<1>3. PICK next : /\ EndTick(h, next)
                  /\ next = "idle" \/ (next = "poll" /\ h = Leader /\ lpc = "tick")
  BY DEF OnlyTick, Ticking
<1>4. /\ LeaderPc' /\ DOMAIN snap' = Helpers
      /\ snap'[h] = snap[h] \/ snap'[h] = NoSnap
      /\ \A k \in Helpers : k # h => snap'[k] = snap[k]
  BY <1>2, <1>3, TickEnds
<1>5. /\ esnap' = esnap /\ gate' = gate /\ led' = led /\ closing' = closing
      /\ owner' = owner /\ co' = co /\ drained' = drained
  BY DEF engineVars
<1>6. HelperInv(h)'
  BY <1>2, <1>4, SnapFrame DEF PlacementInv, HelperInv
<1> QED
  BY <1>2, <1>4, <1>5, <1>6, LocalStep DEF PlacementInv, Shape

\* A tick drops its copy of the control or keeps it.
LEMMA TickSnap ==
  ASSUME PlacementInv, NEW h \in Helpers, OnlyTick(h)
  PROVE  snap'[h] = snap[h] \/ snap'[h] = NoSnap
BY DEF OnlyTick, EndTick, PlacementInv, Shape

\* A helper reads the control.
LEMMA SnapshotKeeps ==
  ASSUME PlacementInv, NEW h \in Helpers, Snapshot(h)
  PROVE  PlacementInv'
<1>1. /\ UNCHANGED <<poolVars, ctlVars, ack, reopen, halted, up, fault, esnap, engineVars>>
      /\ snap[h] = NoSnap
  BY DEF Snapshot
<1>2. CtlInv' /\ SameMove
  BY <1>1, CtlFrame DEF PlacementInv, CtlInv, CtlOK
<1>3. PoolInv(h)' /\ OthersKept(h) /\ phys' = phys /\ part' = part
  BY <1>1, PoolsKept
<1>4. /\ DOMAIN snap' = Helpers /\ snap'[h] = ctl
      /\ \A k \in Helpers : k # h => snap'[k] = snap[k]
      /\ lpc' = IF h = Leader THEN "tick" ELSE lpc
  BY DEF Snapshot, PlacementInv, Shape
<1>5. /\ esnap' = esnap /\ gate' = gate /\ led' = led /\ closing' = closing
      /\ owner' = owner /\ co' = co /\ drained' = drained /\ ack' = ack /\ reopen' = reopen
      /\ ctl' = ctl /\ journal' = journal /\ Rec' = Rec /\ fault' = fault
  BY <1>1 DEF engineVars, ctlVars, Rec, Record
<1>6. LeaderPc'
  <2>1. CASE h = Leader
    <3>1. ctl # NoSnap
      BY ControlFacts DEF PlacementInv, CtlInv, CtlOK, GoodCtl
    <3> QED
      BY <3>1, <2>1, <1>4, <1>5 DEF LeaderPc
  <2>2. CASE h # Leader
    BY <2>2, <1>2, <1>3, <1>4, <1>5, PcFrame, ActorsAssumption DEF PlacementInv
  <2> QED
    BY <2>1, <2>2
<1>7. HelperInv(h)
  BY DEF PlacementInv
<1>8. HelperPhase(h)' /\ PoolLink(h)'
  BY <1>3, <1>5, <1>7
     DEF HelperInv, HelperPhase, PoolLink, Txn, Fits, Owned, Dom, OldInForce
<1>9. /\ ctl \in Controls /\ ctl.txn \in Nat /\ GoodCtl(ctl) /\ (ctl.fault => fault)
      /\ ctl.state \in States8 /\ Agree /\ CtlInv
  BY ControlFacts, BoundAssumption DEF PlacementInv, CtlInv, CtlOK, GoodCtl
<1>10. SnapSeen(h)'
  <2>1. Seen(ctl)
    <3>1. ctl.state # "ACTIVE" => Matches(ctl)
      BY <1>9 DEF Agree, Matches, OldInForce, Txn, FromCopying, FromQuiescing
    <3> QED
      BY <3>1, <1>9 DEF Seen, Txn
  <2> QED
    BY <2>1, <1>4, <1>5
       DEF SnapSeen, Seen, GoodCtl, Matches, OldInForce, Txn
<1>11. SnapPhase(h)'
  BY <1>3, <1>4, <1>5, <1>7, <1>9
     DEF HelperInv, SnapPhase, HelperPhase, Agree, Txn, FromCopying, FromPrepared, Committing
<1>12. AckPhase(h)'
  BY <1>3, <1>4, <1>5, <1>7 DEF HelperInv, AckPhase, Txn
<1>13. HelperInv(h)'
  BY <1>8, <1>10, <1>11, <1>12 DEF HelperInv
<1> QED
  BY <1>1, <1>2, <1>3, <1>4, <1>5, <1>6, <1>13, LocalStep DEF PlacementInv, Shape

\* Ticks that change nothing but where the helper is, or stop it.
LEMMA QuietTicksKeep ==
  ASSUME PlacementInv, NEW h \in Helpers,
         \/ TickFaulted(h) \/ TickIdle(h) \/ CleanupHalt(h)
         \/ TickInvalid(h) /\ UNCHANGED ctlVars
         \/ TickAwaitsReopen(h) /\ UNCHANGED ctlVars
  PROVE  PlacementInv'
<1>1. fault \in BOOLEAN /\ up \subseteq Helpers /\ halted \subseteq Helpers
  BY DEF PlacementInv, CtlInv, CtlOK, Shape
<1>2. /\ UNCHANGED <<poolVars, ctlVars, ack, reopen>> /\ UNCHANGED <<esnap, engineVars>>
      /\ up' \subseteq Helpers /\ halted' \subseteq Helpers
      /\ (fault => fault') /\ fault' \in BOOLEAN
  <2>1. CASE TickFaulted(h)
    BY <2>1, <1>1 DEF TickFaulted, StopHelper
  <2>2. CASE TickIdle(h)
    BY <2>2, <1>1 DEF TickIdle
  <2>3. CASE CleanupHalt(h)
    BY <2>3, <1>1 DEF CleanupHalt
  <2>4. CASE TickInvalid(h) /\ UNCHANGED ctlVars
    BY <2>4, <1>1 DEF TickInvalid, StopHelper, Running
  <2>5. CASE TickAwaitsReopen(h) /\ UNCHANGED ctlVars
    BY <2>5, <1>1 DEF TickAwaitsReopen
  <2> QED
    BY <2>1, <2>2, <2>3, <2>4, <2>5
<1>3. PICK next : /\ EndTick(h, next)
                  /\ next = "idle" \/ (next = "poll" /\ h = Leader /\ lpc = "tick")
  <2>1. CASE TickIdle(h)
    BY <2>1 DEF TickIdle, TickIn, Ticking, OnlyTick
  <2>2. CASE ~TickIdle(h)
    BY <2>2 DEF TickFaulted, CleanupHalt, TickInvalid, TickAwaitsReopen
  <2> QED
    BY <2>1, <2>2
<1> QED
  BY <1>2, <1>3, QuietTick

\* What a tick knows of the copy of the control it works on.
LEMMA TickFacts ==
  ASSUME PlacementInv, NEW h \in Helpers, NEW s, TickIn(h, s), NEW c, c = snap[h]
  PROVE  /\ Ticking(h) /\ c.state = s /\ c # NoSnap /\ GoodCtl(c) /\ c \in Controls
         /\ c.txn \in Nat /\ c.txn <= Txn /\ Txn \in Nat
         /\ s # "ACTIVE" => Matches(c) /\ c.txn = Txn /\ Txn # 0
         /\ s = "ACTIVE" /\ c.txn = Txn => c = ctl
         /\ HelperInv(h) /\ PoolInv(h) /\ part[h] \in Parts /\ CtlInv /\ Rec \in Records
         /\ ctl \in Controls /\ PoolShape /\ DOMAIN ack = Actors /\ h \in Actors
         /\ DOMAIN reopen = Helpers
<1>1. HelperInv(h) /\ PoolInv(h) /\ CtlInv /\ Rec \in Records /\ ctl \in Controls /\ Txn \in Nat
  BY RecordFacts DEF PlacementInv
<1>2. Seen(c) /\ c # NoSnap /\ c.state = s /\ Ticking(h)
  BY <1>1 DEF TickIn, Ticking, HelperInv, SnapSeen
<1>3. GoodCtl(c) /\ c \in Controls /\ c.txn \in Nat
  BY <1>2, ControlFacts, BoundAssumption DEF Seen, GoodCtl
<1> QED
  BY <1>1, <1>2, <1>3
     DEF Seen, GoodCtl, Matches, PoolInv, PoolTyped, PlacementInv, Shape, Actors

\* Publishing changes one acknowledgement; keeping one of the same phase
\* leaves the transaction and the phase what they would be.
LEMMA PublishFacts ==
  ASSUME NEW h \in Actors, DOMAIN ack = Actors, NEW new,
         Publish(h, new) \/ Publish(h, Kept(h, new))
  PROVE  /\ DOMAIN ack' = Actors /\ \A a \in Actors : a # h => ack'[a] = ack[a]
         /\ ack'[h].txn = new.txn /\ ack'[h].phase = new.phase
         /\ ack'[h] = new \/ ack'[h] = ack[h]
         /\ Publish(h, new) => ack'[h] = new
BY DEF Publish, Kept

\* RESERVING: a new reservation, or the answer of the one already made.
LEMMA ReservingKeeps ==
  ASSUME PlacementInv, NEW h \in Helpers, TickReserving(h)
  PROVE  PlacementInv'
<1> PICK c : c = snap[h]
  OBVIOUS
<1> DEFINE bad == part'[h].fault \/ part'[h].txn # c.txn
           good == PhaseAck(c, "RESERVED", FALSE)
           fail == PhaseAck(c, "RESERVED", TRUE)
<1>1. /\ TickIn(h, "RESERVING")
      /\ IF part[h].txn = 0
         THEN ReserveSlots(h, c.txn, PendEpoch(c), c.slot, PendSlot(c), c.map, c.cand)
         ELSE UNCHANGED poolVars
      /\ Publish(h, IF bad THEN fail ELSE Kept(h, good))
      /\ UNCHANGED <<up, fault>> /\ OnlyTick(h)
      /\ UNCHANGED <<ctlVars, reopen, halted, esnap, engineVars>>
  BY DEF TickReserving, Running
<1>2. /\ Ticking(h) /\ c.state = "RESERVING" /\ GoodCtl(c) /\ c \in Controls
      /\ Matches(c) /\ c.txn = Txn /\ Txn # 0 /\ Txn \in Nat /\ HelperInv(h) /\ PoolInv(h)
      /\ part[h] \in Parts /\ CtlInv /\ PoolShape /\ DOMAIN ack = Actors /\ h \in Actors
      /\ DOMAIN reopen = Helpers /\ c # NoSnap
  BY <1>1, TickFacts
<1>3. SameMove /\ led' = led /\ ctl' = ctl /\ Rec' = Rec /\ reopen' = reopen
  BY <1>1, <1>2, CtlFrame DEF CtlInv, CtlOK, engineVars, ctlVars, Rec, Record
<1>4. snap'[h] = snap[h] \/ snap'[h] = NoSnap
  BY <1>1, TickSnap
<1>5. c.slot = Rec.old /\ c.map = Rec.from /\ c.cand = Rec.to /\ ctl.state # "PROPOSED"
      /\ c.slot \in Generations /\ PendSlot(c) = 1 - c.slot /\ PendEpoch(c) \in Nat
      /\ PendSlot(c) \in Generations
  <2>1. c.slot = Rec.old /\ c.map = Rec.from /\ c.cand = Rec.to /\ ctl.state # "PROPOSED"
    BY <1>2 DEF Matches, Committing
  <2>2. /\ c.slot \in Generations /\ PendSlot(c) = 1 - c.slot /\ PendEpoch(c) = c.epoch + 1
        /\ c.epoch \in 1 .. MaxTxn + 1
    BY <1>2, ControlFacts DEF Committing
  <2> QED
    BY <2>1, <2>2, BoundAssumption DEF Generations
<1>6. /\ PoolInv(h)' /\ OthersKept(h) /\ PoolLink(h)'
      /\ part'[h].txn = c.txn /\ (part[h].txn # 0 => part' = part)
      /\ part[h].txn = 0 => ~part'[h].committed /\ ~part'[h].built
  <2>1. CASE part[h].txn = 0
    <3>1. ~Rec.committed /\ OldInForce
      BY <1>2, <2>1 DEF HelperInv, SnapPhase, Matches
    <3>2. ReserveSlots(h, c.txn, PendEpoch(c), c.slot, PendSlot(c), c.map, c.cand)
      BY <1>1, <2>1
    <3>3. Dom(h, c.slot) = Owned(h, c.map) /\ Dom(h, PendSlot(c)) = {}
      BY <1>2, <1>5, <2>1, <3>1 DEF HelperInv, PoolLink, OldInForce
    <3>4. /\ PoolInv(h)' /\ Dom(h, c.slot)' = Owned(h, c.map)
          /\ part'[h].txn = c.txn /\ part'[h].old = c.slot
          /\ part'[h].gained = Owned(h, c.cand) \ Owned(h, c.map)
          /\ part'[h].lost = Owned(h, c.map) \ Owned(h, c.cand)
          /\ part'[h].built = FALSE /\ part'[h].committed = FALSE
          /\ ~part'[h].fault => Fits(h, c.cand)
      <4>1. c.txn \in Nat /\ c.txn # 0
        BY <1>2
      <4>2. PoolInv(h)' /\ NewMove(h, c.txn, c.slot, c.map, c.cand)
        BY <1>2, <1>5, <3>2, <3>3, <4>1, ReserveKeeps
      <4> QED
        BY <4>2 DEF NewMove
    <3>5. OthersKept(h)
      BY <1>2, <3>2, CallIsLocal
    <3>6. PoolLink(h)'
      <4>1. Fits(h, ctl.map)'
        BY <1>2, <1>3 DEF HelperInv, PoolLink, Fits, Owned
      <4> QED
        BY <4>1, <1>2, <1>3, <1>5, <3>1, <3>4 DEF PoolLink, Fits, Owned, OldInForce, Dom
    <3> QED
      BY <2>1, <3>4, <3>5, <3>6
  <2>2. CASE part[h].txn # 0
    <3>1. UNCHANGED poolVars
      BY <1>1, <2>2
    <3>2. PoolInv(h)' /\ OthersKept(h) /\ phys' = phys /\ part' = part
      BY <3>1, PoolsKept
    <3>3. PoolLink(h)'
      BY <1>2, <1>3, <1>4, <3>2, HelperFrame
    <3>4. part[h].txn = Txn
      BY <1>2, <2>2 DEF HelperInv, HelperPhase
    <3> QED
      BY <2>2, <3>2, <3>3, <3>4, <1>2
  <2> QED
    BY <2>1, <2>2
<1>7. HelperPhase(h)' /\ SnapPhase(h)'
  <2>1. CASE part[h].txn = 0
    <3>1. ~part[h].committed /\ reopen[h] = 0 /\ ctl.state \notin FromCopying
      BY <2>1, <1>2 DEF PoolInv, Flags, HelperInv, HelperPhase
    <3>2. ~Rec.committed
      BY <1>2, <2>1 DEF HelperInv, SnapPhase, Matches
    <3>3. ctl.state \notin FromPrepared
      BY <3>1 DEF FromCopying, FromPrepared
    <3>4. HelperPhase(h)'
      BY <2>1, <3>1, <3>2, <3>3, <1>2, <1>3, <1>5, <1>6 DEF HelperPhase, Txn
    <3>5. SnapPhase(h)'
      BY <3>2, <1>2, <1>3, <1>4 DEF SnapPhase, FromCopying, FromPrepared
    <3> QED
      BY <3>4, <3>5
  <2>2. CASE part[h].txn # 0
    BY <2>2, <1>2, <1>3, <1>4, <1>6 DEF HelperInv, HelperPhase, SnapPhase, Txn
  <2> QED
    BY <2>1, <2>2
<1>8. /\ DOMAIN ack' = Actors /\ \A a \in Actors : a # h => ack'[a] = ack[a]
      /\ AckPhase(h)'
  <2>1. bad \in BOOLEAN /\ part'[h].fault \in BOOLEAN
    BY <1>6 DEF PoolInv, PoolTyped, Parts
  <2>2. /\ good \in Acks /\ good.txn = c.txn /\ good.phase = "RESERVED" /\ good.fault = FALSE
        /\ fail \in Acks /\ fail.txn = c.txn /\ fail.phase = "RESERVED" /\ fail.fault = TRUE
    BY <1>2, AckFacts
  <2>3. ack[h] \in Acks
    BY <1>2 DEF HelperInv, AckPhase
  <2>4. bad => part'[h].fault
    BY <1>6
  <2>5. ~bad => ~part'[h].fault
    OBVIOUS
  <2> HIDE DEF bad, good, fail
  <2>6. CASE bad
    <3>1. Publish(h, fail)
      BY <1>1, <2>6
    <3>2. /\ DOMAIN ack' = Actors /\ \A a \in Actors : a # h => ack'[a] = ack[a]
          /\ ack'[h] = fail
      BY <3>1, <1>2, PublishFacts
    <3> QED
      BY <3>2, <2>2, <1>2, <1>3 DEF AckPhase, Txn
  <2>7. CASE ~bad
    <3>1. Publish(h, Kept(h, good))
      BY <1>1, <2>7
    <3>2. /\ DOMAIN ack' = Actors /\ \A a \in Actors : a # h => ack'[a] = ack[a]
          /\ ack'[h] \in Acks /\ ack'[h].txn = c.txn /\ ack'[h].phase = "RESERVED"
      BY <3>1, <1>2, <2>2, <2>3, PublishFacts
    <3> QED
      BY <3>2, <2>5, <2>7, <1>2, <1>3, <1>6 DEF AckPhase, Txn
  <2> QED
    BY <2>6, <2>7
<1> QED
  BY <1>1, <1>2, <1>6, <1>7, <1>8, TickStep

\* A participant that goes on in its transaction keeps what is said of it.
LEMMA Onward ==
  ASSUME NEW h \in Helpers, HelperInv(h), SameMove, led' = led, phys'[h] = phys[h],
         reopen'[h] = reopen[h], snap'[h] = snap[h] \/ snap'[h] = NoSnap,
         part'[h].txn = part[h].txn, part'[h].fault = part[h].fault,
         part'[h].old = part[h].old, part'[h].gained = part[h].gained,
         part'[h].lost = part[h].lost, part[h].built => part'[h].built,
         part[h].committed => part'[h].committed,
         part'[h].committed => part[h].committed \/ Rec.committed
  PROVE  /\ HelperPhase(h)' /\ SnapPhase(h)' /\ PoolLink(h)'
         /\ ack'[h] = ack[h] => AckPhase(h)'
<1>1. HelperPhase(h)'
  BY DEF HelperInv, HelperPhase, SameMove, Txn
<1>2. SnapPhase(h)'
  BY DEF HelperInv, SnapPhase, SameMove, Txn
<1>3. PoolLink(h)'
  BY DEF HelperInv, PoolLink, SameMove, Fits, Owned, Dom, OldInForce
<1>4. ack'[h] = ack[h] => AckPhase(h)'
  BY DEF HelperInv, AckPhase, SameMove, Txn
<1> QED
  BY <1>1, <1>2, <1>3, <1>4

\* COPYING: one upload after the other, then the candidate's pointer table.
LEMMA CopyingKeeps ==
  ASSUME PlacementInv, NEW h \in Helpers, TickCopying(h)
  PROVE  PlacementInv'
<1> PICK c : c = snap[h]
  OBVIOUS
<1> DEFINE good == PhaseAck(c, "READY", FALSE)
           fail == PhaseAck(c, "READY", TRUE)
<1>1. /\ TickIn(h, "COPYING") /\ OnlyTick(h) /\ reopen' = reopen
      /\ UNCHANGED <<ctlVars, halted, up, fault, esnap, engineVars>>
  BY DEF TickCopying, Running
<1>2. /\ Ticking(h) /\ c.state = "COPYING" /\ GoodCtl(c) /\ Matches(c) /\ c.txn = Txn
      /\ Txn # 0 /\ Txn \in Nat /\ HelperInv(h) /\ PoolInv(h) /\ part[h] \in Parts
      /\ CtlInv /\ PoolShape
      /\ DOMAIN ack = Actors /\ h \in Actors /\ DOMAIN reopen = Helpers /\ c # NoSnap
  BY <1>1, TickFacts
<1>3. SameMove /\ led' = led /\ ctl' = ctl
  BY <1>1, <1>2, CtlFrame DEF CtlInv, CtlOK, engineVars, ctlVars
<1>4. snap'[h] = snap[h] \/ snap'[h] = NoSnap
  BY <1>1, TickSnap
<1>5. part[h].txn # 0 /\ ~part[h].fault /\ c.state \in FromCopying
  BY <1>2 DEF HelperInv, SnapPhase, FromCopying
<1>6. /\ PoolInv(h)' /\ OthersKept(h) /\ phys' = phys
      /\ \/ part'[h] = part[h] /\ ack' = ack
         \/ part'[h] = part[h] /\ part[h].built /\ Publish(h, Kept(h, good))
         \/ part'[h] = [part[h] EXCEPT !.built = TRUE] /\ Publish(h, Kept(h, good))
         \/ part'[h] = part[h] /\ Publish(h, fail)
  <2>1. CASE UNCHANGED poolVars
    <3>1. PoolInv(h)' /\ OthersKept(h) /\ phys' = phys /\ part' = part
      BY <2>1, PoolsKept
    <3>3. \/ part[h].built /\ Publish(h, Kept(h, good))
          \/ ack' = ack \/ Publish(h, fail)
          \/ BuildBank(h) /\ Publish(h, Kept(h, good))
      BY DEF TickCopying
    <3>4. BuildBank(h) => part'[h] = [part[h] EXCEPT !.built = TRUE]
      BY <1>2, <1>5, BuildKeeps
    <3> QED
      BY <3>1, <3>3, <3>4
  <2>2. CASE StartUpload(h) /\ ack' = ack
    <3>1. PoolInv(h)' /\ part' = part /\ phys' = phys
      BY <2>2, <1>2, <1>5, UploadKeeps
    <3> QED
      BY <3>1, <2>2, <1>2, CallIsLocal
  <2>3. CASE BuildBank(h) /\ Publish(h, Kept(h, good))
    <3>1. PoolInv(h)' /\ phys' = phys /\ part'[h] = [part[h] EXCEPT !.built = TRUE]
      BY <2>3, <1>2, <1>5, BuildKeeps
    <3> QED
      BY <3>1, <2>3, <1>2, CallIsLocal
  <2>4. CASE UploadRefused(h) /\ Publish(h, fail)
    <3>1. PoolInv(h)' /\ part' = part /\ phys' = phys
      BY <2>4, <1>2, <1>5, UploadKeeps
    <3> QED
      BY <3>1, <2>4, <1>2, CallIsLocal
  <2> QED
    BY <2>1, <2>2, <2>3, <2>4 DEF TickCopying
<1>7. /\ part'[h].txn = part[h].txn /\ part'[h].fault = part[h].fault
      /\ part'[h].old = part[h].old /\ part'[h].gained = part[h].gained
      /\ part'[h].lost = part[h].lost /\ (part[h].built => part'[h].built)
      /\ part'[h].committed = part[h].committed
  BY <1>2, <1>6 DEF Parts
<1>8. /\ HelperPhase(h)' /\ SnapPhase(h)' /\ PoolLink(h)'
      /\ ack'[h] = ack[h] => AckPhase(h)'
  BY <1>1, <1>2, <1>3, <1>4, <1>6, <1>7, Onward
<1>9. /\ DOMAIN ack' = Actors /\ \A a \in Actors : a # h => ack'[a] = ack[a]
      /\ AckPhase(h)'
  <2>1. /\ good \in Acks /\ good.txn = c.txn /\ good.phase = "READY" /\ good.fault = FALSE
        /\ fail \in Acks /\ fail.txn = c.txn /\ fail.phase = "READY" /\ fail.fault = TRUE
    BY <1>2, AckFacts
  <2>2. ack[h] \in Acks
    BY <1>2 DEF HelperInv, AckPhase
  <2> HIDE DEF good, fail
  <2>3. CASE ack' = ack
    BY <2>3, <1>2, <1>8
  <2>4. CASE Publish(h, fail)
    <3>1. /\ DOMAIN ack' = Actors /\ \A a \in Actors : a # h => ack'[a] = ack[a]
          /\ ack'[h] = fail
      BY <2>4, <1>2, PublishFacts
    <3> QED
      BY <3>1, <2>1, <1>2, <1>3 DEF AckPhase, Txn
  <2>5. CASE Publish(h, Kept(h, good)) /\ part'[h].built
    <3>1. /\ DOMAIN ack' = Actors /\ \A a \in Actors : a # h => ack'[a] = ack[a]
          /\ ack'[h] \in Acks /\ ack'[h].txn = c.txn /\ ack'[h].phase = "READY"
      BY <2>5, <1>2, <2>1, <2>2, PublishFacts
    <3> QED
      BY <3>1, <2>5, <1>2, <1>3, <1>5, <1>7 DEF AckPhase, Txn
  <2>6. part'[h] = [part[h] EXCEPT !.built = TRUE] => part'[h].built
    BY <1>2 DEF Parts
  <2> QED
    BY <2>3, <2>4, <2>5, <2>6, <1>6
<1> QED
  BY <1>1, <1>2, <1>6, <1>8, <1>9, TickStep

\* QUIESCING: the drained lanes are acknowledged.
LEMMA QuiescingKeeps ==
  ASSUME PlacementInv, NEW h \in Helpers, TickQuiescing(h)
  PROVE  PlacementInv'
<1> PICK c : c = snap[h]
  OBVIOUS
<1> DEFINE good == PhaseAck(c, "QUIESCED", FALSE)
<1>1. /\ TickIn(h, "QUIESCING") /\ OnlyTick(h) /\ UNCHANGED poolVars /\ reopen' = reopen
      /\ ack' = ack \/ Publish(h, Kept(h, good))
      /\ UNCHANGED <<ctlVars, halted, up, fault, esnap, engineVars>>
  BY DEF TickQuiescing, Running
<1>2. /\ Ticking(h) /\ c.state = "QUIESCING" /\ GoodCtl(c) /\ Matches(c) /\ c.txn = Txn
      /\ Txn # 0 /\ Txn \in Nat /\ HelperInv(h) /\ CtlInv
      /\ DOMAIN ack = Actors /\ h \in Actors /\ DOMAIN reopen = Helpers
  BY <1>1, TickFacts
<1>3. SameMove /\ led' = led /\ ctl' = ctl
  BY <1>1, <1>2, CtlFrame DEF CtlInv, CtlOK, engineVars, ctlVars
<1>4. snap'[h] = snap[h] \/ snap'[h] = NoSnap
  BY <1>1, TickSnap
<1>5. PoolInv(h)' /\ OthersKept(h) /\ phys' = phys /\ part' = part
  BY <1>1, PoolsKept
<1>6. /\ HelperPhase(h)' /\ SnapPhase(h)' /\ PoolLink(h)'
      /\ ack'[h] = ack[h] => AckPhase(h)'
  BY <1>1, <1>2, <1>3, <1>4, <1>5, HelperFrame
<1>7. /\ DOMAIN ack' = Actors /\ \A a \in Actors : a # h => ack'[a] = ack[a]
      /\ AckPhase(h)'
  <2>1. good \in Acks /\ good.txn = c.txn /\ good.phase = "QUIESCED"
    BY <1>2, AckFacts
  <2>2. ack[h] \in Acks
    BY <1>2 DEF HelperInv, AckPhase
  <2> HIDE DEF good
  <2>3. CASE Publish(h, Kept(h, good))
    <3>1. /\ DOMAIN ack' = Actors /\ \A a \in Actors : a # h => ack'[a] = ack[a]
          /\ ack'[h] \in Acks /\ ack'[h].txn = c.txn /\ ack'[h].phase = "QUIESCED"
      BY <2>3, <1>2, <2>1, <2>2, PublishFacts
    <3> QED
      BY <3>1, <1>2, <1>3 DEF AckPhase, Txn
  <2> QED
    BY <2>3, <1>1, <1>2, <1>6
<1> QED
  BY <1>1, <1>2, <1>5, <1>6, <1>7, TickStep

\* COMMIT: the candidate becomes the participant's generation.
LEMMA CommitTickKeeps ==
  ASSUME PlacementInv, NEW h \in Helpers, TickCommit(h)
  PROVE  PlacementInv'
<1> PICK c : c = snap[h]
  OBVIOUS
<1> DEFINE good == PhaseAck(c, "COMMITTED", FALSE)
<1>1. /\ TickIn(h, "COMMIT") /\ UNCHANGED <<ctlVars, reopen, halted, esnap, engineVars>>
  BY DEF TickCommit
<1>2. /\ Ticking(h) /\ c.state = "COMMIT" /\ GoodCtl(c) /\ Matches(c) /\ c.txn = Txn
      /\ Txn # 0 /\ Txn \in Nat /\ HelperInv(h) /\ PoolInv(h) /\ part[h] \in Parts
      /\ CtlInv /\ PoolShape
      /\ DOMAIN ack = Actors /\ h \in Actors /\ DOMAIN reopen = Helpers
  BY <1>1, TickFacts
<1>3. CASE StopHelper(h) /\ EndTick(h, "idle") /\ UNCHANGED <<poolVars, ack>>
  <2>1. up' \subseteq Helpers /\ fault' = TRUE /\ halted' \subseteq Helpers
    BY <1>1, <1>3 DEF StopHelper, PlacementInv, Shape
  <2>2. UNCHANGED <<poolVars, ctlVars, ack, reopen>> /\ UNCHANGED <<esnap, engineVars>>
    BY <1>1, <1>3
  <2> QED
    BY <1>3, <2>1, <2>2, QuietTick
<1>4. CASE /\ MayCommit(h, c.txn, c.epoch, c.slot)
           /\ IF part[h].committed THEN UNCHANGED poolVars ELSE CommitSlots(h)
           /\ ack' = ack \/ Publish(h, good)
           /\ Running /\ OnlyTick(h)
  <2>1. SameMove /\ led' = led /\ ctl' = ctl /\ reopen' = reopen
        /\ UNCHANGED <<ctlVars, halted, up, fault, esnap, engineVars>>
    BY <1>1, <1>2, <1>4, CtlFrame DEF CtlInv, CtlOK, engineVars, ctlVars, Running
  <2>2. snap'[h] = snap[h] \/ snap'[h] = NoSnap
    BY <1>4, TickSnap
  <2>3. Rec.committed /\ part[h].built
    BY <1>2, <1>4 DEF Matches, Committing, MayCommit
  <2>4. /\ PoolInv(h)' /\ OthersKept(h) /\ phys' = phys /\ part'[h].committed
        /\ part'[h].txn = part[h].txn /\ part'[h].fault = part[h].fault
        /\ part'[h].old = part[h].old /\ part'[h].gained = part[h].gained
        /\ part'[h].lost = part[h].lost /\ part'[h].built = part[h].built
    <3>1. CASE part[h].committed
      BY <3>1, <1>4, PoolsKept
    <3>2. CASE ~part[h].committed
      <4>1. CommitSlots(h)
        BY <3>2, <1>4
      <4>2. PoolInv(h)' /\ phys' = phys /\ part'[h] = [part[h] EXCEPT !.committed = TRUE]
        BY <4>1, <3>2, <2>3, <1>2, CommitKeeps
      <4>3. OthersKept(h)
        BY <4>1, <1>2, CallIsLocal
      <4> QED
        BY <4>2, <4>3, <1>2 DEF Parts
    <3> QED
      BY <3>1, <3>2
  <2>5. /\ HelperPhase(h)' /\ SnapPhase(h)' /\ PoolLink(h)'
        /\ ack'[h] = ack[h] => AckPhase(h)'
    BY <1>2, <2>1, <2>2, <2>3, <2>4, Onward
  <2>6. /\ DOMAIN ack' = Actors /\ \A a \in Actors : a # h => ack'[a] = ack[a]
        /\ AckPhase(h)'
    <3>1. good \in Acks /\ good.txn = c.txn /\ good.phase = "COMMITTED"
      BY <1>2, AckFacts
    <3> HIDE DEF good
    <3>2. CASE Publish(h, good)
      <4>1. /\ DOMAIN ack' = Actors /\ \A a \in Actors : a # h => ack'[a] = ack[a]
            /\ ack'[h] = good
        BY <3>2, <1>2, PublishFacts
      <4> QED
        BY <4>1, <3>1, <1>2, <2>1, <2>4 DEF AckPhase, Txn
    <3> QED
      BY <3>2, <1>2, <1>4, <2>5
  <2> QED
    BY <1>2, <1>4, <2>1, <2>4, <2>5, <2>6, TickStep
<1> QED
  BY <1>3, <1>4 DEF TickCommit

\* RETIRING: the participant awaits the reopen.
LEMMA RetiringKeeps ==
  ASSUME PlacementInv, NEW h \in Helpers, TickRetiring(h)
  PROVE  PlacementInv'
<1> PICK c : c = snap[h]
  OBVIOUS
<1> DEFINE good == PhaseAck(c, "RETIRED", FALSE)
<1>1. /\ TickIn(h, "RETIRING") /\ OnlyTick(h) /\ UNCHANGED poolVars
      /\ \/ ack' = ack /\ reopen' = reopen
         \/ Publish(h, good) /\ reopen' = [reopen EXCEPT ![h] = c.txn]
      /\ UNCHANGED <<ctlVars, halted, up, fault, esnap, engineVars>>
  BY DEF TickRetiring, Running
<1>2. /\ Ticking(h) /\ c.state = "RETIRING" /\ GoodCtl(c) /\ Matches(c) /\ c.txn = Txn
      /\ Txn # 0 /\ Txn \in Nat /\ HelperInv(h) /\ CtlInv /\ c # NoSnap
      /\ DOMAIN ack = Actors /\ h \in Actors /\ DOMAIN reopen = Helpers
  BY <1>1, TickFacts
<1>3. SameMove /\ led' = led /\ ctl' = ctl
  BY <1>1, <1>2, CtlFrame DEF CtlInv, CtlOK, engineVars, ctlVars
<1>4. snap'[h] = snap[h] \/ snap'[h] = NoSnap
  BY <1>1, TickSnap
<1>5. PoolInv(h)' /\ OthersKept(h) /\ phys' = phys /\ part' = part
  BY <1>1, PoolsKept
<1>6. CASE ack' = ack /\ reopen' = reopen
  <2>1. HelperPhase(h)' /\ SnapPhase(h)' /\ PoolLink(h)' /\ AckPhase(h)'
    BY <1>2, <1>3, <1>4, <1>5, <1>6, HelperFrame
  <2> QED
    BY <1>1, <1>2, <1>5, <1>6, <2>1, TickStep
<1>7. CASE Publish(h, good) /\ reopen' = [reopen EXCEPT ![h] = c.txn]
  <2>1. /\ reopen'[h] = Txn /\ DOMAIN reopen' = Helpers
        /\ \A k \in Helpers : k # h => reopen'[k] = reopen[k]
    BY <1>2, <1>7
  <2>2. good \in Acks /\ good.txn = c.txn /\ good.phase = "RETIRED"
    BY <1>2, AckFacts
  <2> HIDE DEF good
  <2>3. /\ DOMAIN ack' = Actors /\ \A a \in Actors : a # h => ack'[a] = ack[a]
        /\ ack'[h] = good
    BY <1>2, <1>7, PublishFacts
  <2>4. AckPhase(h)'
    BY <2>1, <2>2, <2>3, <1>2, <1>3 DEF AckPhase, Txn
  <2>5. PoolLink(h)'
    BY <1>2, <1>3, <1>5 DEF HelperInv, PoolLink, SameMove, Fits, Owned, Dom, OldInForce
  <2>6. part[h].committed
    BY <1>2 DEF HelperInv, SnapPhase
  <2>7. HelperPhase(h)'
    BY <2>1, <2>6, <1>2, <1>3, <1>5 DEF HelperInv, HelperPhase, SameMove, Txn
  <2>8. SnapPhase(h)'
    BY <1>2, <1>3, <1>4, <1>5 DEF HelperInv, SnapPhase, SameMove, Txn
  <2> QED
    BY <1>1, <1>2, <1>5, <2>1, <2>3, <2>4, <2>5, <2>7, <2>8, TickStep
<1> QED
  BY <1>1, <1>6, <1>7

\* ACTIVE with nothing to reopen: an aborted move is cancelled.
LEMMA CleanupKeeps ==
  ASSUME PlacementInv, NEW h \in Helpers, TickCleanup(h)
  PROVE  PlacementInv'
<1> PICK c : c = snap[h]
  OBVIOUS
<1> DEFINE good == ClosingAck(c, "CLEANED", FALSE)
<1>1. /\ TickIn(h, "ACTIVE") /\ reopen[h] = 0
      /\ UNCHANGED <<ctlVars, reopen, halted, esnap, engineVars>>
  BY DEF TickCleanup
<1>2. /\ Ticking(h) /\ c.state = "ACTIVE" /\ GoodCtl(c) /\ c.txn \in Nat /\ c.txn <= Txn
      /\ (c.txn = Txn => c = ctl) /\ Txn \in Nat /\ HelperInv(h) /\ PoolInv(h)
      /\ part[h] \in Parts /\ CtlInv /\ PoolShape /\ DOMAIN ack = Actors /\ h \in Actors
      /\ DOMAIN reopen = Helpers /\ c # NoSnap /\ Rec \in Records
  BY <1>1, TickFacts
<1>3. good \in Acks /\ good.txn = c.txn /\ good.phase = "CLEANED" /\ good.fault = FALSE
  BY <1>2, AckFacts
<1>4. CASE StopHelper(h) /\ EndTick(h, "idle") /\ UNCHANGED <<poolVars, ack>>
  <2>1. up' \subseteq Helpers /\ fault' = TRUE /\ halted' \subseteq Helpers
    BY <1>1, <1>4 DEF StopHelper, PlacementInv, Shape
  <2>2. UNCHANGED <<poolVars, ctlVars, ack, reopen>> /\ UNCHANGED <<esnap, engineVars>>
    BY <1>1, <1>4
  <2> QED
    BY <1>4, <2>1, <2>2, QuietTick
<1>5. CASE /\ Running /\ OnlyTick(h)
           /\ \/ UNCHANGED poolVars /\ ack' = ack
              \/ UNCHANGED poolVars /\ part[h].txn = 0 /\ Publish(h, good)
              \/ AbortMove(h) /\ (ack' = ack \/ Publish(h, good))
  <2> HIDE DEF good
  <2>1. SameMove /\ led' = led /\ ctl' = ctl /\ reopen' = reopen /\ Rec' = Rec
        /\ UNCHANGED <<ctlVars, halted, up, fault, esnap, engineVars>>
    BY <1>1, <1>2, <1>5, CtlFrame
       DEF CtlInv, CtlOK, engineVars, ctlVars, Running, Rec, Record
  <2>2. snap'[h] = snap[h] \/ snap'[h] = NoSnap
    BY <1>5, TickSnap
  <2>3. /\ PoolInv(h)' /\ OthersKept(h) /\ HelperPhase(h)' /\ SnapPhase(h)'
        /\ PoolLink(h)' /\ (ack'[h] = ack[h] => AckPhase(h)')
        /\ ~UNCHANGED poolVars \/ part[h].txn = 0 => part'[h].txn = 0
    <3>1. CASE UNCHANGED poolVars
      <4>1. PoolInv(h)' /\ OthersKept(h) /\ phys' = phys /\ part' = part
        BY <3>1, PoolsKept
      <4> QED
        BY <3>1, <4>1, <1>2, <2>1, <2>2, HelperFrame
    <3>2. CASE AbortMove(h)
      <4>1. part[h].txn # 0 /\ ~part[h].committed
        BY <3>2 DEF AbortMove
      <4>2. c = ctl /\ ctl.state = "ACTIVE" /\ Txn # 0
        BY <4>1, <1>2 DEF HelperInv, SnapPhase, HelperPhase
      <4>3. ~Rec.committed
        BY <4>1, <4>2, <1>2 DEF HelperInv, HelperPhase
      <4>4. PICK o, d : part[h].old = o /\ part[h].cand = d
        OBVIOUS
      <4>5. PoolInv(h)' /\ part'[h] = NoPart /\ Dom(h, d)' = {} /\ Dom(h, o)' = Dom(h, o)
        BY <3>2, <4>4, <1>2, AbortKeeps
      <4>6. OthersKept(h)
        BY <3>2, <1>2, CallIsLocal
      <4>7. /\ o = ctl.slot /\ d = 1 - ctl.slot /\ Dom(h, o) = Owned(h, ctl.map)
            /\ Fits(h, ctl.map)
        BY <4>1, <4>3, <4>4, <1>2 DEF HelperInv, PoolLink, OldInForce, PoolInv, Tables
      <4>8. led.slot = ctl.slot
        BY <4>3 DEF PlacementInv, EngineInv, EngineLed, LedAtCtl
      <4>9. part'[h].txn = 0 /\ ~part'[h].committed
        BY <4>5 DEF NoPart
      <4>10. PoolLink(h)'
        <5>1. led'.slot = ctl'.slot /\ Fits(h, ctl.map)'
          BY <4>7, <4>8, <2>1 DEF Fits, Owned
        <5>2. Dom(h, ctl.slot)' = Owned(h, ctl.map)' /\ Dom(h, 1 - ctl.slot)' = {}
          BY <4>5, <4>7, <2>1 DEF Dom, Owned
        <5> QED
          BY <5>1, <5>2, <4>9 DEF PoolLink
      <4>11. HelperPhase(h)'
        BY <4>2, <4>9, <1>1, <2>1 DEF HelperPhase, Txn, FromCopying, FromPrepared
      <4>12. SnapPhase(h)'
        BY <4>2, <2>1, <2>2 DEF SnapPhase, Txn, FromCopying, FromPrepared
      <4>13. ack'[h] = ack[h] => AckPhase(h)'
        BY <4>2, <4>9, <1>1, <1>2, <2>1, <2>2 DEF HelperInv, AckPhase, Txn
      <4> QED
        BY <4>5, <4>6, <4>9, <4>10, <4>11, <4>12, <4>13
    <3> QED
      BY <1>5, <3>1, <3>2
  <2>4. /\ DOMAIN ack' = Actors /\ \A a \in Actors : a # h => ack'[a] = ack[a]
        /\ AckPhase(h)'
    <3>1. CASE Publish(h, good) /\ part'[h].txn = 0
      <4>1. /\ DOMAIN ack' = Actors /\ \A a \in Actors : a # h => ack'[a] = ack[a]
            /\ ack'[h] = good
        BY <3>1, <1>2, PublishFacts
      <4> QED
        BY <4>1, <3>1, <1>1, <1>2, <1>3, <2>1, <2>2 DEF AckPhase, Txn
    <3>2. part[h].txn = 0 \/ ~UNCHANGED poolVars => part'[h].txn = 0
      BY <2>3
    <3>3. AbortMove(h) => part'[h].txn = 0
      <4> SUFFICES ASSUME AbortMove(h) PROVE part'[h].txn = 0
        OBVIOUS
      <4>1. part' = [part EXCEPT ![h] = NoPart]
        BY DEF AbortMove, Release
      <4> QED
        BY <4>1, <1>2 DEF PoolShape, NoPart
    <3> QED
      BY <3>1, <3>2, <3>3, <1>2, <1>5, <2>3
  <2> QED
    BY <1>2, <1>5, <2>1, <2>3, <2>4, TickStep
<1> QED
  BY <1>4, <1>5 DEF TickCleanup, AbortAck

\* ACTIVE after a committed move, reopened: what left is reclaimed.
LEMMA ReopenedKeeps ==
  ASSUME PlacementInv, NEW h \in Helpers, TickReopened(h)
  PROVE  PlacementInv'
<1> PICK c : c = snap[h]
  OBVIOUS
<1> DEFINE good == ClosingAck(c, "CLEANED", FALSE)
<1>1. /\ TickIn(h, "ACTIVE") /\ reopen[h] # 0 /\ ReclaimSlots(h) /\ OnlyTick(h)
      /\ ack[FirstRank] = ClosingAck(c, "REOPENED", FALSE) /\ c.txn = reopen[h]
      /\ Publish(h, good) /\ reopen' = [reopen EXCEPT ![h] = 0]
      /\ UNCHANGED <<ctlVars, halted, up, fault, esnap, engineVars>>
  BY DEF TickReopened, ReopenedExactly
<1>2. /\ Ticking(h) /\ c.state = "ACTIVE" /\ GoodCtl(c) /\ c.txn \in Nat /\ c.txn <= Txn
      /\ (c.txn = Txn => c = ctl) /\ Txn \in Nat /\ HelperInv(h) /\ PoolInv(h)
      /\ part[h] \in Parts /\ CtlInv /\ PoolShape /\ DOMAIN ack = Actors /\ h \in Actors
      /\ DOMAIN reopen = Helpers /\ c # NoSnap /\ Rec \in Records
  BY <1>1, TickFacts
<1>3. c = ctl /\ ctl.state = "ACTIVE" /\ Txn # 0 /\ part[h].committed /\ Rec.committed
  BY <1>1, <1>2 DEF HelperInv, HelperPhase
<1>4. LedAtCtl
  <2>1. ack[FirstRank].phase = "REOPENED" /\ ack[FirstRank].txn = Txn
    BY <1>1, <1>3 DEF ClosingAck, Txn
  <2> QED
    BY <2>1, <1>3, ActorsAssumption DEF PlacementInv, EngineInv, RankAck, EngineDone
<1>5. good \in Acks /\ good.txn = c.txn /\ good.phase = "CLEANED" /\ good.fault = FALSE
  BY <1>2, AckFacts
<1> HIDE DEF good
<1>6. SameMove /\ led' = led /\ ctl' = ctl /\ Rec' = Rec
  BY <1>1, <1>2, CtlFrame DEF CtlInv, CtlOK, engineVars, ctlVars, Rec, Record
<1>7. snap'[h] = snap[h] \/ snap'[h] = NoSnap
  BY <1>1, TickSnap
<1>8. PICK o, d : part[h].old = o /\ part[h].cand = d
  OBVIOUS
<1>9. /\ PoolInv(h)' /\ part'[h] = NoPart /\ Dom(h, o)' = {}
      /\ Dom(h, d)' = (Dom(h, o) \ part[h].lost) \cup part[h].gained
  BY <1>1, <1>2, <1>8, ReclaimKeeps
<1>10. OthersKept(h)
  BY <1>1, <1>2, CallIsLocal
<1>11. part[h].txn # 0
  BY <1>2, <1>3 DEF PoolInv, Flags
<1>12. /\ o = Rec.old /\ d = 1 - o /\ o \in Generations /\ Dom(h, o) = Owned(h, Rec.from)
       /\ part[h].gained = Owned(h, Rec.to) \ Owned(h, Rec.from)
       /\ part[h].lost = Owned(h, Rec.from) \ Owned(h, Rec.to) /\ Fits(h, ctl.map)
  BY <1>2, <1>8, <1>11 DEF HelperInv, PoolLink, PoolInv, Tables
<1>13. ctl.slot = 1 - Rec.old /\ ctl.map = Rec.to
  BY <1>2, <1>3 DEF CtlInv, Agree
<1>14. Dom(h, d)' = Owned(h, ctl.map) /\ d = ctl.slot /\ o = 1 - ctl.slot
  BY <1>9, <1>12, <1>13 DEF Generations
<1>15. part'[h].txn = 0 /\ ~part'[h].committed
  BY <1>9 DEF NoPart
<1>16. /\ reopen'[h] = 0 /\ DOMAIN reopen' = Helpers
       /\ \A k \in Helpers : k # h => reopen'[k] = reopen[k]
  BY <1>1, <1>2
<1>17. PoolLink(h)'
  <2>1. led'.slot = ctl'.slot /\ Fits(h, ctl.map)'
    BY <1>4, <1>6, <1>12 DEF Fits, Owned, LedAtCtl
  <2>2. Dom(h, ctl.slot)' = Owned(h, ctl.map)' /\ Dom(h, 1 - ctl.slot)' = {}
    BY <1>6, <1>9, <1>14 DEF Dom, Owned
  <2> QED
    BY <2>1, <2>2, <1>15 DEF PoolLink
<1>18. HelperPhase(h)'
  BY <1>3, <1>6, <1>15, <1>16 DEF HelperPhase, Txn, FromCopying, FromPrepared
<1>19. SnapPhase(h)'
  BY <1>3, <1>6, <1>7 DEF SnapPhase, Txn, FromCopying, FromPrepared
<1>20. /\ DOMAIN ack' = Actors /\ \A a \in Actors : a # h => ack'[a] = ack[a]
       /\ AckPhase(h)'
  <2>1. /\ DOMAIN ack' = Actors /\ \A a \in Actors : a # h => ack'[a] = ack[a]
        /\ ack'[h] = good
    BY <1>1, <1>2, PublishFacts
  <2> QED
    BY <2>1, <1>2, <1>3, <1>5, <1>6, <1>7, <1>15, <1>16 DEF AckPhase, Txn
<1> QED
  BY <1>1, <1>2, <1>9, <1>10, <1>16, <1>17, <1>18, <1>19, <1>20, TickStep

-----------------------------------------------------------------------------
(* The environment.                                                        *)

\* Copy streams, the death of a helper, its watcher, and lanes that drain.
LEMMA EnvironmentKeeps ==
  ASSUME PlacementInv, NEW h \in Helpers,
         StreamStep(h) \/ HelperDies(h) \/ WatchRaises \/ LanesDrain(h)
  PROVE  PlacementInv'
<1>1. /\ UNCHANGED <<ctlVars, ack, reopen, halted, esnap>> /\ (fault => fault')
      /\ fault' \in BOOLEAN /\ UNCHANGED <<gate, led, closing, owner, co>>
      /\ up' \subseteq Helpers /\ halted' \subseteq Helpers /\ drained' \subseteq Helpers
  <2>1. fault \in BOOLEAN /\ up \subseteq Helpers /\ halted \subseteq Helpers
        /\ drained \subseteq Helpers
    BY DEF PlacementInv, Shape, CtlInv, CtlOK
  <2>2. CASE StreamStep(h)
    BY <2>1, <2>2 DEF StreamStep, engineVars
  <2>3. CASE HelperDies(h)
    BY <2>1, <2>3 DEF HelperDies, engineVars
  <2>4. CASE WatchRaises
    BY <2>1, <2>4 DEF WatchRaises, engineVars
  <2>5. CASE LanesDrain(h)
    BY <2>1, <2>5 DEF LanesDrain, HelpersKeep, ctlVars
  <2> QED
    BY <2>2, <2>3, <2>4, <2>5
<1>2. CtlInv' /\ SameMove
  BY <1>1, CtlFrame DEF PlacementInv
<1>3. PoolInv(h)' /\ OthersKept(h) /\ phys' = phys /\ part' = part
  <2>1. CASE StreamStep(h)
    <3>1. UploadLands(h) \/ UploadErrs(h)
      BY <2>1 DEF StreamStep
    <3>2. PoolShape /\ PoolInv(h)
      BY DEF PlacementInv, Shape
    <3> QED
      BY <3>1, <3>2, StreamKeeps, CallIsLocal
  <2>2. CASE ~StreamStep(h)
    <3>1. UNCHANGED poolVars
      BY <2>2 DEF HelperDies, WatchRaises, LanesDrain, HelpersKeep
    <3> QED
      BY <3>1, PoolsKept
  <2> QED
    BY <2>1, <2>2
<1>4. /\ LeaderPc' /\ DOMAIN snap' = Helpers /\ (snap'[h] = snap[h] \/ snap'[h] = NoSnap)
      /\ \A k \in Helpers : k # h => snap'[k] = snap[k]
  <2>1. CASE HelperDies(h)
    <3>1. EndTick(h, "idle")
      BY <2>1 DEF HelperDies, EndTick
    <3>2. reopen' = reopen
      BY <1>1
    <3> QED
      BY <3>1, <3>2, <1>2, <1>3, TickEnds
  <2>2. CASE ~HelperDies(h)
    <3>1. snap' = snap /\ lpc' = lpc
      BY <2>2 DEF StreamStep, WatchRaises, LanesDrain, HelpersKeep
    <3> QED
      BY <3>1, <1>1, <1>2, <1>3, PcFrame DEF PlacementInv, Shape
  <2> QED
    BY <2>1, <2>2
<1>5. HelperInv(h)'
  BY <1>1, <1>2, <1>3, <1>4, HelperFrame DEF PlacementInv
<1> QED
  BY <1>1, <1>2, <1>3, <1>4, <1>5, LocalStep DEF PlacementInv, Shape

-----------------------------------------------------------------------------
(* The controller.  It leaves the pools, the participants, the engine and  *)
(* the acknowledgements alone.                                             *)

\* The end of helper zero's tick.
LeaderEnds == lpc' = "idle" /\ snap' = [snap EXCEPT ![Leader] = NoSnap]

\* It leaves helper zero at the top of its loop and every other copy alone.
LEMMA LeaderEndsFacts ==
  ASSUME PlacementInv, LeaderEnds
  PROVE  /\ LeaderPc' /\ DOMAIN snap' = Helpers
         /\ \A h \in Helpers : snap'[h] = snap[h] \/ snap'[h] = NoSnap
         /\ snap'[Leader] = NoSnap
         /\ \A h \in Helpers : h # Leader => snap'[h] = snap[h]
BY ActorsAssumption DEF PlacementInv, Shape, LeaderEnds, LeaderPc

\* What a poll that ends with nothing more to do does to helper zero.
LEMMA PollEndsFacts ==
  PollEnds("idle") \/ EndTick(Leader, "idle") => LeaderEnds
BY DEF PollEnds, EndTick, LeaderEnds

\* Steps that leave the control what it is.
LEMMA ControlStays ==
  ASSUME PlacementInv, CtlInv', SameMove, LeaderEnds, UNCHANGED <<poolVars, ack>>,
         DOMAIN reopen' = Helpers, \A h \in Helpers : reopen'[h] = reopen[h],
         UNCHANGED <<esnap, engineVars>>, up' \subseteq Helpers, halted' \subseteq Helpers
  PROVE  PlacementInv'
<1>1. Leader \in Helpers
  BY ActorsAssumption
<1>2. PoolInv(Leader)' /\ OthersKept(Leader) /\ phys' = phys /\ part' = part
  BY <1>1, PoolsKept
<1>3. /\ esnap' = esnap /\ gate' = gate /\ led' = led /\ closing' = closing
      /\ owner' = owner /\ co' = co /\ drained' = drained /\ ack' = ack
  BY DEF engineVars
<1>4. HelperInv(Leader)'
  BY <1>1, <1>2, <1>3, LeaderEndsFacts, HelperFrame DEF PlacementInv
<1> QED
  BY <1>1, <1>2, <1>3, <1>4, LeaderEndsFacts, LocalStep DEF PlacementInv, Shape

\* Placement stops: a mark in the journal, and nothing else.
LEMMA StopKeepsCtl ==
  ASSUME CtlInv, StopPlacement, fault' = fault
  PROVE  CtlInv' /\ SameMove
<1>1. /\ Rec \in Records /\ ctl.jix \in 0 .. 1 /\ journal \in [0 .. 1 -> Records]
      /\ Rec = journal[ctl.jix] /\ lead \in Leads /\ fault \in BOOLEAN
  BY RecordFacts DEF CtlInv, JournalOK, LeadOK, CtlOK
<1>2. PICK i : i = ctl.jix
  OBVIOUS
<1>3. /\ ctl' = ctl /\ lead' = [lead EXCEPT !.failed = TRUE]
      /\ journal' = [journal EXCEPT ![i] = [journal[i] EXCEPT !.fault = TRUE, !.cleanup = TRUE]]
  BY <1>1, <1>2 DEF StopPlacement
<1>4. /\ Rec' = journal'[i] /\ journal'[i] \in Records /\ journal'[1 - i] = journal[1 - i]
      /\ journal' \in [0 .. 1 -> Records]
      /\ journal'[i].txn = journal[i].txn /\ journal'[i].epoch = journal[i].epoch
      /\ journal'[i].old = journal[i].old /\ journal'[i].from = journal[i].from
      /\ journal'[i].to = journal[i].to /\ journal'[i].committed = journal[i].committed
  <2>1. Rec' = journal'[i]
    BY <1>2, <1>3 DEF Rec, Record
  <2>2. PICK r : r = [journal[i] EXCEPT !.fault = TRUE, !.cleanup = TRUE]
    OBVIOUS
  <2>3. /\ r \in Records /\ r.txn = journal[i].txn /\ r.epoch = journal[i].epoch
        /\ r.old = journal[i].old /\ r.from = journal[i].from /\ r.to = journal[i].to
        /\ r.committed = journal[i].committed
    BY <2>2, <1>1, <1>2 DEF Records
  <2>4. journal' = [journal EXCEPT ![i] = r]
    BY <2>2, <1>3
  <2> QED
    BY <2>1, <2>3, <2>4, <1>1, <1>2
<1>5. SameMove
  BY <1>1, <1>2, <1>3, <1>4 DEF SameMove
<1>6. /\ lead' \in Leads /\ lead'.last = lead.last /\ lead'.await = lead.await
      /\ lead.last \in 0 .. 2
  BY <1>1, <1>3 DEF Leads
<1>7. \A j \in 0 .. 1 : /\ journal'[j].txn = journal[j].txn
                        /\ journal'[j].committed = journal[j].committed
  BY <1>1, <1>2, <1>4
<1>8. CtlOK' /\ Agree'
  BY <1>5 DEF CtlInv, CtlOK, Agree, SameMove, OldInForce, GoodCtl
<1>9. JournalOK' /\ LeadOK'
  BY <1>1, <1>3, <1>4, <1>5, <1>6, <1>7 DEF CtlInv, JournalOK, LeadOK, SameMove, Txn
<1> QED
  BY <1>5, <1>8, <1>9 DEF CtlInv

\* Stopping placement after a cleanup that failed.
LEMMA StopPlacementKeeps ==
  ASSUME PlacementInv, StopPlacement, LeaderEnds,
         UNCHANGED <<poolVars, ack, reopen, up, fault, esnap, engineVars>>,
         halted' \subseteq Helpers
  PROVE  PlacementInv'
<1>1. CtlInv' /\ SameMove
  BY StopKeepsCtl DEF PlacementInv
<1> QED
  BY <1>1, ControlStays DEF PlacementInv, Shape

\* The controller's polls that wait, stop placement or retire a header.
LEMMA WaitsKeep ==
  ASSUME PlacementInv,
         \/ CleanupFails \/ CleanupExpires \/ PollWaits \/ RetireHeader
         \/ TickAwaitsReopen(Leader)
         \/ PollActive /\ UNCHANGED ctlVars
  PROVE  PlacementInv'
<1>1. Leader \in Helpers /\ halted \subseteq Helpers /\ up \subseteq Helpers /\ CtlInv
      /\ fault \in BOOLEAN
  BY ActorsAssumption DEF PlacementInv, Shape, CtlInv, CtlOK
<1>2. CASE CleanupStops
  <2>1. /\ StopPlacement /\ LeaderEnds /\ halted' \subseteq Helpers
        /\ UNCHANGED <<poolVars, ack, reopen, up, fault, esnap, engineVars>>
    BY <1>1, <1>2, PollEndsFacts DEF CleanupStops
  <2> QED
    BY <2>1, StopPlacementKeeps
<1>3. CASE TickAwaitsReopen(Leader)
  <2>1. CASE UNCHANGED ctlVars
    BY <1>1, <1>3, <2>1, QuietTicksKeep
  <2>2. CASE StopPlacement
    <3>1. /\ LeaderEnds /\ halted' \subseteq Helpers
          /\ UNCHANGED <<poolVars, ack, reopen, up, fault, esnap, engineVars>>
      BY <1>1, <1>3, PollEndsFacts DEF TickAwaitsReopen
    <3> QED
      BY <3>1, <2>2, StopPlacementKeeps
  <2> QED
    BY <1>3, <2>1, <2>2 DEF TickAwaitsReopen
<1>4. CASE PollWaits \/ RetireHeader \/ (PollActive /\ UNCHANGED ctlVars)
  <2>1. /\ LeaderEnds /\ ctl' = ctl /\ journal' = journal /\ lead' = lead
        /\ UNCHANGED <<poolVars, ack, halted, up, fault, esnap, engineVars>>
    <3>1. CASE PollWaits
      BY <3>1, PollEndsFacts DEF PollWaits
    <3>2. CASE RetireHeader
      BY <3>2, PollEndsFacts DEF RetireHeader
    <3>3. CASE PollActive /\ UNCHANGED ctlVars
      BY <3>3, PollEndsFacts DEF PollActive, ctlVars
    <3> QED
      BY <1>4, <3>1, <3>2, <3>3
  <2>2. DOMAIN reopen' = Helpers /\ \A h \in Helpers : reopen'[h] = reopen[h]
    <3>1. CASE RetireHeader
      <4>1. reopen' = [reopen EXCEPT ![Leader] = ctl.txn] /\ reopen[Leader] = ctl.txn
        BY <3>1 DEF RetireHeader, PlacementInv, LeaderPc, Txn
      <4> QED
        BY <4>1 DEF PlacementInv, Shape
    <3>2. CASE PollWaits \/ PollActive
      BY <3>2 DEF PollWaits, PollActive, PlacementInv, Shape
    <3> QED
      BY <1>4, <3>1, <3>2
  <2>3. Rec' = Rec
    BY <2>1 DEF Rec, Record
  <2>4. CtlInv' /\ SameMove
    <3>1. CtlOK' /\ JournalOK' /\ LeadOK' /\ Agree'
      BY <1>1, <2>1, <2>3
         DEF CtlInv, CtlOK, JournalOK, LeadOK, Agree, GoodCtl, OldInForce, Txn
    <3> QED
      BY <3>1, <1>1, <2>1, <2>3 DEF CtlInv, SameMove
  <2> QED
    BY <1>1, <2>1, <2>2, <2>4, ControlStays
<1> QED
  BY <1>2, <1>3, <1>4 DEF CleanupFails, CleanupExpires

\* The record of the transaction keeps what it says of the move.
SameRecord ==
  /\ Rec'.txn = Rec.txn /\ Rec'.epoch = Rec.epoch /\ Rec'.old = Rec.old
  /\ Rec'.from = Rec.from /\ Rec'.to = Rec.to

\* The transaction goes on to a later state, or back to ACTIVE.
Later ==
  /\ ctl.state \in States8 \ {"ACTIVE"} /\ ctl'.txn = ctl.txn /\ ctl'.jix = ctl.jix
  /\ ctl'.state # "PROPOSED"
  /\ ctl.state # "PROPOSED" => ctl'.state # "RESERVING"
                               \/ ctl.state = "RESERVING"
  /\ ctl.state \in FromQuiescing => ctl'.state \in {"ACTIVE"} \cup FromQuiescing
  /\ Rec.committed /\ ctl'.state # "ACTIVE" => ctl'.state \in Committing

\* What the helpers and the engine have done when the control says so.
Earned ==
  /\ ctl'.state \in FromCopying => \A h \in Helpers : part[h].txn # 0 /\ ~part[h].fault
  /\ ctl'.state \in FromPrepared =>
       /\ \A h \in Helpers : part[h].built
       /\ co.uploaded = Txn /\ co.ready = Ranks
  /\ ctl'.state \in {"RETIRING", "ACTIVE"} /\ Rec.committed =>
       \A h \in Helpers : part[h].committed
  /\ ctl'.state = "ACTIVE" /\ Rec.committed => \A h \in Helpers : reopen[h] = Txn
  /\ ctl'.state \in Committing => co.closed = Txn

\* The processes' copies of the control stay what they were: of an earlier
\* transaction, or of this one.
LEMMA CopiesStay ==
  ASSUME NEW c, Seen(c), c # NoSnap, Later, SameRecord, fault => fault',
         (Rec.committed => Rec'.committed) /\ Rec.committed \in BOOLEAN,
         ~Rec'.committed => UNCHANGED <<ctl.slot, ctl.epoch, ctl.map>>
  PROVE  /\ GoodCtl(c) /\ c.txn <= Txn' /\ (c.fault => fault')
         /\ c.state # "ACTIVE" => Matches(c)'
         /\ c.state = "ACTIVE" => c.txn # Txn'
<1>1. Txn' = Txn
  BY DEF Later, Txn
<1>2. GoodCtl(c) /\ c.txn <= Txn' /\ (c.fault => fault')
  BY <1>1 DEF Seen
<1>3. c.state = "ACTIVE" => c.txn # Txn'
  BY <1>1 DEF Seen, Later
<1>4. ASSUME c.state # "ACTIVE" PROVE Matches(c)'
  <2>1. Matches(c)
    BY <1>4 DEF Seen
  <2>2. ~Rec'.committed => OldInForce'
    BY <2>1 DEF Matches, OldInForce, SameRecord
  <2>3. /\ c.state # "PROPOSED" => ctl'.state # "PROPOSED"
        /\ c.state \in FromCopying => ctl'.state \notin {"PROPOSED", "RESERVING"}
        /\ c.state \in FromQuiescing =>
             ctl'.state \notin {"PROPOSED", "RESERVING", "COPYING", "PREPARED"}
    BY <2>1 DEF Matches, Later, FromQuiescing, FromCopying, States8
  <2> QED
    BY <2>1, <2>2, <2>3, <1>1 DEF Matches, SameRecord, Later
<1> QED
  BY <1>2, <1>3, <1>4

\* The controller moves the transaction on: what the helpers and the engine
\* did before is what the new state relies on.
LEMMA ControlMoves ==
  ASSUME PlacementInv, CtlInv', Later, Earned, SameRecord, fault => fault',
         (Rec.committed => Rec'.committed) /\ Rec'.committed \in BOOLEAN,
         \A h \in Helpers : Fits(h, ctl'.map),
         \/ /\ Rec'.committed = Rec.committed
            /\ ctl'.slot = ctl.slot /\ ctl'.epoch = ctl.epoch /\ ctl'.map = ctl.map
         \/ /\ ~Rec.committed /\ Rec'.committed /\ ctl'.state = "COMMIT"
            /\ ctl'.slot = 1 - ctl.slot /\ ctl'.epoch = ctl.epoch + 1
            /\ ctl'.map = Rec.to,
         UNCHANGED <<poolVars, ack, reopen, esnap, engineVars>>,
         up' \subseteq Helpers, halted' \subseteq Helpers, LeaderPc',
         DOMAIN snap' = Helpers,
         \A h \in Helpers : snap'[h] = snap[h] \/ snap'[h] = NoSnap
  PROVE  PlacementInv'
<1>1. /\ Rec.committed \in BOOLEAN /\ ctl \in Controls /\ Txn \in Nat /\ Txn # 0 /\ CtlInv
      /\ Rec.old \in Generations /\ ctl.slot \in Generations /\ Txn' = Txn
      /\ ctl' \in Controls /\ ctl'.slot \in Generations /\ ctl.epoch \in Nat
  <2>1. CtlInv
    BY DEF PlacementInv
  <2>2. ctl' \in Controls
    BY DEF CtlInv, CtlOK, GoodCtl
  <2>3. ctl.epoch \in Nat /\ ctl.slot \in Generations
    BY <2>1, RecordFacts, ControlFacts, BoundAssumption
  <2>4. ctl'.slot \in Generations
    BY <2>2, ControlFacts
  <2>5. Txn # 0
    BY <2>1 DEF CtlInv, CtlOK, GoodCtl, Later, Txn
  <2> QED
    BY <2>1, <2>2, <2>3, <2>4, <2>5, RecordFacts DEF Later, Txn
<1>2. ~Rec'.committed => UNCHANGED <<ctl.slot, ctl.epoch, ctl.map>>
  OBVIOUS
<1>3. /\ phys' = phys /\ part' = part /\ PoolShape' /\ (\A h \in Helpers : PoolInv(h)')
      /\ esnap' = esnap /\ gate' = gate /\ led' = led /\ closing' = closing
      /\ owner' = owner /\ co' = co /\ drained' = drained /\ ack' = ack /\ reopen' = reopen
  BY PoolsKept DEF engineVars
<1>4. ASSUME NEW c, Seen(c) PROVE Seen(c)'
  <2>1. CASE c = NoSnap
    BY <2>1 DEF Seen
  <2>2. CASE c # NoSnap
    <3>1. /\ GoodCtl(c) /\ c.txn <= Txn' /\ (c.fault => fault')
          /\ c.state # "ACTIVE" => Matches(c)'
          /\ c.state = "ACTIVE" => c.txn # Txn'
      BY <1>1, <1>2, <1>4, <2>2, CopiesStay
    <3> QED
      BY <3>1 DEF Seen, GoodCtl
  <2> QED
    BY <2>1, <2>2
<1>5. ASSUME NEW h \in Helpers PROVE HelperInv(h)'
  <2>1. HelperInv(h) /\ PoolInv(h)
    BY DEF PlacementInv
  <2>2. HelperPhase(h)'
    BY <1>1, <1>3, <2>1
       DEF HelperInv, HelperPhase, Earned, Later, Txn, FromCopying, FromPrepared
  <2>3. SnapSeen(h)'
    <3>1. PICK c : c = snap[h]
      OBVIOUS
    <3>2. Seen(c)'
      BY <2>1, <3>1, <1>4 DEF HelperInv, SnapSeen
    <3>3. snap'[h] = c \/ snap'[h] = NoSnap
      BY <3>1
    <3> QED
      BY <3>2, <3>3 DEF SnapSeen, Seen
  <2>4. SnapPhase(h)'
    BY <1>1, <1>3, <2>1 DEF HelperInv, SnapPhase, Earned, Txn, FromCopying
  <2>5. AckPhase(h)'
    BY <1>1, <1>3, <2>1 DEF HelperInv, AckPhase, Later, Txn
  <2>6. PoolLink(h)'
    BY <1>1, <1>3, <2>1 DEF HelperInv, PoolLink, SameRecord, Earned, Fits, Owned, Dom,
                            OldInForce, FromCopying
  <2> QED
    BY <2>2, <2>3, <2>4, <2>5, <2>6 DEF HelperInv
<1>6. EngineInv'
  <2>1. EngineInv
    BY DEF PlacementInv
  <2>2. EngineTyped'
    BY <2>1, <1>3 DEF EngineInv, EngineTyped
  <2>3. EngineGate'
    BY <2>1, <1>1, <1>3
       DEF EngineInv, EngineGate, Later, Earned, Txn, FromQuiescing, Committing,
           States8, FromCopying
  <2>4. EngineLed'
    BY <2>1, <2>3, <1>1, <1>3 DEF EngineInv, EngineGate, EngineLed, Earned, SameRecord, LedAtCtl,
       LedBehind, LedMap, Later, Committing, Generations, Txn, CtlInv, Agree, OldInForce
  <2>5. EngineBitmaps'
    BY <2>1, <1>1, <1>3 DEF EngineInv, EngineBitmaps, SameRecord, Earned, Later, Txn,
       FromPrepared, OldInForce
  <2>6. EngineSeen'
    BY <2>1, <1>3, <1>4 DEF EngineInv, EngineSeen, Seen
  <2>7. ASSUME NEW r \in Ranks PROVE RankAck(r)'
    BY <2>1, <1>1, <1>3 DEF EngineInv, RankAck, EngineDone, Later, Txn
  <2> QED
    BY <2>2, <2>3, <2>4, <2>5, <2>6, <2>7 DEF EngineInv
<1>7. Shape'
  BY <1>3 DEF Shape, PlacementInv
<1> QED
  BY <1>3, <1>5, <1>6, <1>7 DEF PlacementInv

\* What the collected acknowledgements say.
LEMMA ExactFacts ==
  ASSUME NEW a, Exact(a)
  PROVE  /\ ack[a].txn = Txn /\ ack[a].phase = AckOf[ctl.state] /\ ack[a].fault = FALSE
BY DEF Exact, PhaseAck, Txn

\* The states whose entry only changes the state.
Follows(s, t) ==
  \/ s = "PROPOSED" /\ t = "RESERVING"
  \/ s = "RESERVING" /\ t = "COPYING"
  \/ s = "COPYING" /\ t = "PREPARED"
  \/ s = "PREPARED" /\ t = "QUIESCING"
  \/ s = "COMMIT" /\ t = "RETIRING"

\* Publishing the next state of a transaction that earned it.
LEMMA EnterKeeps ==
  ASSUME PlacementInv, NEW t, Enter(t), Follows(ctl.state, t), journal' = journal,
         lead' = lead, fault' = fault, up' = up, halted' = halted, Earned, LeaderEnds,
         UNCHANGED <<poolVars, ack, reopen, esnap, engineVars>>
  PROVE  PlacementInv'
<1>1. /\ CtlInv /\ ctl \in Controls /\ Rec.committed \in BOOLEAN /\ Rec.old \in Generations
      /\ Rec = journal[ctl.jix] /\ fault \in BOOLEAN /\ GoodCtl(ctl)
  <2>1. CtlInv
    BY DEF PlacementInv
  <2> QED
    BY <2>1, RecordFacts DEF CtlInv, CtlOK
<1>2. /\ ctl'.state = t /\ ctl'.txn = ctl.txn /\ ctl'.epoch = ctl.epoch /\ ctl'.slot = ctl.slot
      /\ ctl'.map = ctl.map /\ ctl'.cand = ctl.cand /\ ctl'.jix = ctl.jix
      /\ ctl'.fault = ctl.fault /\ t \in States8 \ {"ACTIVE", "PROPOSED"} /\ ctl' \in Controls
  <2>1. t \in DOMAIN Order /\ t \in States8 \ {"ACTIVE", "PROPOSED"}
    BY OrderFacts DEF Follows, States8, FromCopying
  <2> QED
    BY <2>1, <1>1 DEF Enter, Controls
<1>3. Rec' = Rec
  BY <1>2 DEF Rec, Record
<1>4. t \in Committing <=> ctl.state \in Committing
  BY DEF Follows, Committing
<1>5. ctl.state # "ACTIVE" /\ t # "ACTIVE"
  BY DEF Follows
<1>6. CtlInv'
  <2>1. CtlOK'
    BY <1>1, <1>2, <1>4, <1>5 DEF CtlInv, CtlOK, GoodCtl
  <2>2. JournalOK' /\ LeadOK'
    BY <1>1, <1>2, <1>3, <1>5 DEF CtlInv, JournalOK, LeadOK, Txn
  <2>3. Agree'
    BY <1>1, <1>2, <1>3, <1>4, <1>5 DEF CtlInv, Agree, OldInForce
  <2> QED
    BY <2>1, <2>2, <2>3 DEF CtlInv
<1>7. Later
  BY <1>1, <1>2, <1>4, <1>5, ControlFacts
     DEF Later, Follows, FromQuiescing, CtlInv, Agree
<1>8. SameRecord /\ Rec'.committed = Rec.committed
  BY <1>3 DEF SameRecord
<1>9. \A h \in Helpers : Fits(h, ctl'.map)
  BY <1>2 DEF PlacementInv, HelperInv, PoolLink
<1> QED
  BY <1>1, <1>2, <1>6, <1>7, <1>8, <1>9, LeaderEndsFacts, ControlMoves DEF PlacementInv, Shape

\* start_reserving and begin_quiesce.
LEMMA AdvancesKeep ==
  ASSUME PlacementInv, PollAdvances
  PROVE  PlacementInv'
<1>1. /\ journal' = journal /\ lead' = lead /\ fault' = fault /\ up' = up /\ halted' = halted
      /\ LeaderEnds /\ UNCHANGED <<poolVars, ack, reopen, esnap, engineVars>>
  BY PollEndsFacts DEF PollAdvances
<1>2. CASE ctl.state = "PROPOSED" /\ Enter("RESERVING")
  <2>1. ~Rec.committed /\ ctl'.state = "RESERVING"
    BY <1>2 DEF PlacementInv, CtlInv, CtlOK, GoodCtl, Controls, Agree, Committing, Enter
  <2>2. Earned
    BY <2>1 DEF Earned, FromCopying, FromPrepared, Committing
  <2>8. Follows(ctl.state, "RESERVING")
    BY <1>2 DEF Follows
  <2> QED
    BY <1>1, <1>2, <2>2, <2>8, EnterKeeps
<1>3. CASE ctl.state = "PREPARED" /\ Enter("QUIESCING")
  <2>1. ~Rec.committed /\ ctl'.state = "QUIESCING"
    BY <1>3 DEF PlacementInv, CtlInv, CtlOK, GoodCtl, Controls, Agree, Committing, Enter
  <2>2. \A h \in Helpers : part[h].txn # 0 /\ ~part[h].fault /\ part[h].built
    BY <1>3 DEF PlacementInv, HelperInv, HelperPhase, FromCopying, FromPrepared
  <2>3. co.uploaded = Txn /\ co.ready = Ranks
    BY <1>3 DEF PlacementInv, EngineInv, EngineBitmaps, FromPrepared
  <2>4. Earned
    BY <2>1, <2>2, <2>3 DEF Earned, Committing
  <2>8. Follows(ctl.state, "QUIESCING")
    BY <1>3 DEF Follows
  <2> QED
    BY <1>1, <1>3, <2>4, <2>8, EnterKeeps
<1> QED
  BY <1>2, <1>3 DEF PollAdvances

\* RESERVED, READY and COMMITTED are collected.
LEMMA CollectsEnter ==
  ASSUME PlacementInv, PollCollects, ctl.state \in {"RESERVING", "COPYING", "COMMIT"}
  PROVE  PlacementInv'
<1>1. /\ fault' = fault /\ up' = up /\ halted' = halted /\ journal' = journal /\ lead' = lead
      /\ LeaderEnds /\ UNCHANGED <<poolVars, ack, reopen, esnap, engineVars>>
  BY PollEndsFacts DEF PollCollects
<1>2. \A a \in Actors : /\ ack[a].txn = Txn /\ ack[a].phase = AckOf[ctl.state]
                        /\ ack[a].fault = FALSE
  BY ExactFacts DEF PollCollects, AllExact
<1>3. CASE ctl.state = "RESERVING"
  <2>1. Enter("COPYING") /\ ctl'.state = "COPYING" /\ ~Rec.committed
    BY <1>3 DEF PollCollects, PlacementInv, CtlInv, CtlOK, GoodCtl, Controls, Agree,
       Committing, Enter
  <2>2. \A h \in Helpers : part[h].txn # 0 /\ ~part[h].fault
    BY <1>2, <1>3, AckOfFacts DEF PlacementInv, HelperInv, AckPhase, Actors
  <2>3. Earned
    BY <2>1, <2>2 DEF Earned, FromPrepared, Committing
  <2>8. Follows(ctl.state, "COPYING")
    BY <1>3 DEF Follows
  <2> QED
    BY <1>1, <1>3, <2>1, <2>3, <2>8, EnterKeeps
<1>4. CASE ctl.state = "COPYING"
  <2>1. Enter("PREPARED") /\ ctl'.state = "PREPARED" /\ ~Rec.committed
    BY <1>4 DEF PollCollects, PlacementInv, CtlInv, CtlOK, GoodCtl, Controls, Agree,
       Committing, Enter
  <2>2. \A h \in Helpers : part[h].txn # 0 /\ ~part[h].fault
    BY <1>4 DEF PlacementInv, HelperInv, HelperPhase, FromCopying
  <2>3. \A h \in Helpers : part[h].built
    BY <1>2, <1>4, AckOfFacts DEF PlacementInv, HelperInv, AckPhase, Actors
  <2>4. \A r \in Ranks : co.uploaded = Txn /\ r \in co.ready
    BY <1>2, <1>4, AckOfFacts DEF PlacementInv, EngineInv, RankAck, Actors
  <2>5. co.ready \subseteq Ranks
    BY DEF PlacementInv, EngineInv, EngineTyped, Coordinators
  <2>6. co.uploaded = Txn /\ co.ready = Ranks
    BY <2>4, <2>5, ActorsAssumption
  <2>7. Earned
    BY <2>1, <2>2, <2>3, <2>6 DEF Earned, Committing
  <2>8. Follows(ctl.state, "PREPARED")
    BY <1>4 DEF Follows
  <2> QED
    BY <1>1, <1>4, <2>1, <2>7, <2>8, EnterKeeps
<1>5. CASE ctl.state = "COMMIT"
  <2>1. Enter("RETIRING") /\ ctl'.state = "RETIRING" /\ Rec.committed
    BY <1>5 DEF PollCollects, PlacementInv, CtlInv, CtlOK, GoodCtl, Controls, Agree,
       Committing, Enter
  <2>2. \A h \in Helpers : part[h].txn # 0 /\ ~part[h].fault /\ part[h].built
    BY <1>5 DEF PlacementInv, HelperInv, HelperPhase, FromCopying, FromPrepared
  <2>3. \A h \in Helpers : part[h].committed
    BY <1>2, <1>5, AckOfFacts DEF PlacementInv, HelperInv, AckPhase, Actors
  <2>4. co.uploaded = Txn /\ co.ready = Ranks /\ co.closed = Txn
    BY <1>5 DEF PlacementInv, EngineInv, EngineBitmaps, EngineGate, FromPrepared, Committing
  <2>5. Earned
    BY <2>1, <2>2, <2>3, <2>4 DEF Earned
  <2>8. Follows(ctl.state, "RETIRING")
    BY <1>5 DEF Follows
  <2> QED
    BY <1>1, <1>5, <2>1, <2>5, <2>8, EnterKeeps
<1> QED
  BY <1>3, <1>4, <1>5

\* QUIESCED is collected from every actor: the candidate becomes the placement
\* in force, and the journal says so.
LEMMA CollectsCommit ==
  ASSUME PlacementInv, PollCollects, ctl.state = "QUIESCING"
  PROVE  PlacementInv'
<1>1. /\ fault' = fault /\ up' = up /\ halted' = halted /\ lead' = lead
      /\ LeaderEnds /\ UNCHANGED <<poolVars, ack, reopen, esnap, engineVars>>
      /\ ctl' = [ctl EXCEPT !.state = "COMMIT", !.epoch = PendEpoch(ctl),
                            !.slot = PendSlot(ctl), !.map = ctl.cand]
      /\ journal' = [journal EXCEPT ![ctl.jix].committed = TRUE]
  BY PollEndsFacts DEF PollCollects
<1>2. /\ CtlInv /\ ctl \in Controls /\ Rec \in Records /\ Rec.old \in Generations
      /\ Rec = journal[ctl.jix] /\ fault \in BOOLEAN /\ GoodCtl(ctl)
      /\ journal \in [0 .. 1 -> Records] /\ lead \in Leads /\ ctl.jix \in 0 .. 1
  <2>1. CtlInv
    BY DEF PlacementInv
  <2> QED
    BY <2>1, RecordFacts DEF CtlInv, CtlOK, JournalOK, LeadOK
<1>3. ~Rec.committed /\ OldInForce /\ Rec.to = ctl.cand
  BY <1>2 DEF CtlInv, Agree, Committing
<1>4. /\ PendEpoch(ctl) = ctl.epoch + 1 /\ PendSlot(ctl) = 1 - ctl.slot
      /\ ctl.cand \in OwnerMaps /\ ctl.epoch <= ctl.txn /\ ctl.txn # 0
      /\ ctl.epoch \in 1 .. MaxTxn + 1 /\ ctl.txn \in 0 .. MaxTxn /\ ctl.slot \in Generations
  BY <1>2, ControlFacts DEF GoodCtl, Committing
<1>5. /\ ctl'.state = "COMMIT" /\ ctl'.epoch = ctl.epoch + 1 /\ ctl'.slot = 1 - ctl.slot
      /\ ctl'.map = ctl.cand /\ ctl'.cand = ctl.cand /\ ctl'.txn = ctl.txn
      /\ ctl'.jix = ctl.jix /\ ctl'.fault = ctl.fault
  BY <1>1, <1>2, <1>4 DEF Controls
<1>6. ctl' \in Controls
  <2>1. /\ "COMMIT" \in DOMAIN Order /\ ctl.epoch + 1 \in 1 .. MaxTxn + 1
        /\ 1 - ctl.slot \in Generations
    BY <1>4, BoundAssumption, OrderFacts DEF States8, FromCopying, Generations
  <2> QED
    BY <2>1, <1>1, <1>2, <1>4 DEF Controls
<1>7. /\ Rec'.committed = TRUE /\ SameRecord /\ journal' \in [0 .. 1 -> Records]
      /\ journal'[1 - ctl.jix] = journal[1 - ctl.jix] /\ Rec' = journal'[ctl.jix]
  <2>1. Rec' = journal'[ctl.jix]
    BY <1>5 DEF Rec, Record
  <2>2. PICK r, i : i = ctl.jix /\ r = [journal[i] EXCEPT !.committed = TRUE]
    OBVIOUS
  <2>3. /\ r \in Records /\ r.txn = Rec.txn /\ r.epoch = Rec.epoch
        /\ r.old = Rec.old /\ r.from = Rec.from /\ r.to = Rec.to /\ r.committed = TRUE
    BY <2>2, <1>2 DEF Records
  <2>4. journal' = [journal EXCEPT ![i] = r]
    BY <2>2, <1>1
  <2> QED
    BY <2>1, <2>2, <2>3, <2>4, <1>2 DEF SameRecord
<1>8. CtlInv'
  <2>1. CtlOK'
    BY <1>1, <1>2, <1>4, <1>5, <1>6, BoundAssumption DEF CtlInv, CtlOK, GoodCtl, Committing
  <2>2. JournalOK'
    <3>1. Rec'.from \in OwnerMaps
      BY <1>2, <1>3, <1>7, ControlFacts DEF OldInForce, SameRecord
    <3> QED
      BY <3>1, <1>2, <1>4, <1>5, <1>7 DEF CtlInv, JournalOK, SameRecord, Txn
  <2>3. \A j \in 0 .. 1 : /\ journal'[j].txn = journal[j].txn
                          /\ journal[j].committed => journal'[j].committed
    BY <1>2, <1>7 DEF SameRecord
  <2>4. LeadOK'
    <3>1. lead.last \in 0 .. 2
      BY <1>2 DEF Leads
    <3> QED
      BY <3>1, <1>1, <1>2, <1>5, <2>3 DEF CtlInv, LeadOK
  <2>5. Agree'
    BY <1>3, <1>5, <1>7 DEF Agree, SameRecord, OldInForce, Committing
  <2> QED
    BY <2>1, <2>2, <2>4, <2>5 DEF CtlInv
<1>9. Later
  BY <1>2, <1>3, <1>5, ControlFacts DEF Later, FromQuiescing, Committing
<1>10. Earned
  <2>1. \A h \in Helpers : part[h].txn # 0 /\ ~part[h].fault /\ part[h].built
    BY DEF PlacementInv, HelperInv, HelperPhase, FromCopying, FromPrepared
  <2>2. co.uploaded = Txn /\ co.ready = Ranks
    BY DEF PlacementInv, EngineInv, EngineBitmaps, FromPrepared
  <2>3. Exact(FirstRank) /\ FirstRank \in Ranks
    BY ActorsAssumption DEF PollCollects, AllExact, Actors
  <2>4. ack[FirstRank].txn = Txn /\ ack[FirstRank].phase = "QUIESCED"
    BY <2>3, ExactFacts, AckOfFacts
  <2>5. co.closed = Txn
    BY <2>3, <2>4 DEF PlacementInv, EngineInv, RankAck
  <2> QED
    BY <2>1, <2>2, <2>5, <1>3, <1>5 DEF Earned
<1>11. \A h \in Helpers : Fits(h, ctl'.map)
  <2> SUFFICES ASSUME NEW h \in Helpers PROVE Fits(h, ctl'.map)
    OBVIOUS
  <2>1. part[h].txn # 0 /\ ~part[h].fault
    BY DEF PlacementInv, HelperInv, HelperPhase, FromCopying
  <2> QED
    BY <2>1, <1>3, <1>5 DEF PlacementInv, HelperInv, PoolLink
<1>12. Rec.committed \in BOOLEAN /\ up \subseteq Helpers /\ halted \subseteq Helpers
  BY <1>2 DEF Records, PlacementInv, Shape
<1>13. /\ LeaderPc' /\ DOMAIN snap' = Helpers
       /\ \A h \in Helpers : snap'[h] = snap[h] \/ snap'[h] = NoSnap
  BY <1>1, LeaderEndsFacts
<1>14. ctl'.map = Rec.to
  BY <1>3, <1>5
<1> QED
  BY <1>1, <1>3, <1>5, <1>7, <1>8, <1>9, <1>10, <1>11, <1>12, <1>13, <1>14, ControlMoves

\* The states that go back to ACTIVE, or stop in place: the move stays what it
\* is, and the journal keeps it.
LEMMA ClosesKeep ==
  ASSUME PlacementInv, CtlOK', lead' \in Leads, ctl.state # "ACTIVE",
         ctl'.txn = ctl.txn, ctl'.jix = ctl.jix, ctl'.slot = ctl.slot,
         ctl'.epoch = ctl.epoch, ctl'.map = ctl.map,
         ctl'.state = "ACTIVE" \/ (ctl'.state = ctl.state /\ ctl'.cand = ctl.cand
                                    /\ ctl.state \in Committing),
         journal' = journal \/ journal' = [journal EXCEPT ![ctl.jix].fault = TRUE],
         ctl'.state = "ACTIVE" /\ ~ctl'.fault => lead'.await = Txn,
         lead'.last = lead.last \/ (lead'.last = ctl.jix /\ Rec.committed),
         ctl'.state = "ACTIVE" /\ Rec.committed => \A h \in Helpers : reopen[h] = Txn,
         fault => fault', UNCHANGED <<poolVars, ack, reopen, esnap, engineVars>>,
         up' \subseteq Helpers, halted' \subseteq Helpers, LeaderPc',
         DOMAIN snap' = Helpers,
         \A h \in Helpers : snap'[h] = snap[h] \/ snap'[h] = NoSnap
  PROVE  PlacementInv'
<1>1. /\ CtlInv /\ ctl \in Controls /\ Rec \in Records /\ Rec.old \in Generations
      /\ Rec = journal[ctl.jix] /\ GoodCtl(ctl) /\ Rec.committed \in BOOLEAN
      /\ journal \in [0 .. 1 -> Records] /\ lead \in Leads /\ ctl.jix \in 0 .. 1
  <2>1. CtlInv
    BY DEF PlacementInv
  <2> QED
    BY <2>1, RecordFacts DEF CtlInv, CtlOK, JournalOK, LeadOK
<1>2. /\ Rec'.committed = Rec.committed /\ SameRecord /\ journal' \in [0 .. 1 -> Records]
      /\ \A j \in 0 .. 1 : /\ journal'[j].txn = journal[j].txn
                           /\ journal'[j].committed = journal[j].committed
  <2>1. Rec' = journal'[ctl.jix]
    BY DEF Rec, Record
  <2>2. CASE journal' = journal
    BY <2>1, <2>2, <1>1 DEF SameRecord
  <2>3. CASE journal' = [journal EXCEPT ![ctl.jix].fault = TRUE]
    <3>1. PICK r, i : i = ctl.jix /\ r = [journal[i] EXCEPT !.fault = TRUE]
      OBVIOUS
    <3>2. /\ r \in Records /\ r.txn = Rec.txn /\ r.epoch = Rec.epoch
          /\ r.old = Rec.old /\ r.from = Rec.from /\ r.to = Rec.to
          /\ r.committed = Rec.committed
      BY <3>1, <1>1 DEF Records
    <3>3. journal' = [journal EXCEPT ![i] = r]
      BY <3>1, <2>3
    <3> QED
      BY <2>1, <3>1, <3>2, <3>3, <1>1 DEF SameRecord
  <2> QED
    BY <2>2, <2>3
<1>3. CtlInv'
  <2>1. JournalOK'
    BY <1>1, <1>2 DEF CtlInv, JournalOK, SameRecord, Txn
  <2>2. LeadOK'
    <3>1. lead.last \in 0 .. 2
      BY <1>1 DEF Leads
    <3> QED
      BY <3>1, <1>1, <1>2 DEF CtlInv, LeadOK, Txn
  <2>3. Agree'
    BY <1>1, <1>2 DEF CtlInv, Agree, SameRecord, OldInForce
  <2> QED
    BY <2>1, <2>2, <2>3 DEF CtlInv
<1>4. ctl.state \in States8 /\ (Rec.committed <=> ctl.state \in Committing)
  BY <1>1, ControlFacts DEF CtlInv, Agree
<1>5. Later
  BY <1>4 DEF Later, FromQuiescing, Committing
<1>6. Earned
  <2>1. CASE ctl'.state = "ACTIVE"
    <3>1. Rec.committed => \A h \in Helpers : part[h].committed
      BY <2>1, <1>1 DEF PlacementInv, HelperInv, HelperPhase, CtlInv, CtlOK, GoodCtl, Txn
    <3> QED
      BY <2>1, <3>1 DEF Earned, FromCopying, FromPrepared, Committing
  <2>2. CASE ctl'.state = ctl.state /\ ctl.state \in Committing
    <3>1. ctl.state \in FromPrepared /\ ctl.state \in FromCopying
      BY <2>2 DEF Committing, FromPrepared, FromCopying
    <3>2. \A h \in Helpers : part[h].txn # 0 /\ ~part[h].fault /\ part[h].built
      BY <3>1 DEF PlacementInv, HelperInv, HelperPhase
    <3>3. co.uploaded = Txn /\ co.ready = Ranks /\ co.closed = Txn
      BY <3>1, <2>2 DEF PlacementInv, EngineInv, EngineBitmaps, EngineGate
    <3>4. ctl'.state = "RETIRING" => \A h \in Helpers : part[h].committed
      BY <2>2, <3>2, <1>4 DEF PlacementInv, HelperInv, HelperPhase
    <3> QED
      BY <2>2, <3>2, <3>3, <3>4 DEF Earned, Committing
  <2> QED
    BY <2>1, <2>2
<1>7. \A h \in Helpers : Fits(h, ctl'.map)
  BY DEF PlacementInv, HelperInv, PoolLink
<1> QED
  BY <1>1, <1>2, <1>3, <1>5, <1>6, <1>7, ControlMoves

\* RETIRED is collected: the transaction ends with the new map.
LEMMA CollectsRetired ==
  ASSUME PlacementInv, PollCollects, ctl.state = "RETIRING"
  PROVE  PlacementInv'
<1>1. /\ fault' = fault /\ up' = up /\ halted' = halted /\ journal' = journal
      /\ UNCHANGED <<poolVars, ack, reopen, esnap, engineVars>>
      /\ ctl' = [ctl EXCEPT !.state = "ACTIVE", !.cand = NoMap]
      /\ lead' = [lead EXCEPT !.await = ctl.txn, !.committed = TRUE, !.last = ctl.jix]
      /\ lpc' = "retire" /\ snap' = [snap EXCEPT ![Leader] = @]
  BY DEF PollCollects, PollEnds
<1>2. /\ CtlInv /\ ctl \in Controls /\ GoodCtl(ctl) /\ lead \in Leads /\ ctl.jix \in 0 .. 1
      /\ ctl.txn \in 0 .. MaxTxn /\ fault \in BOOLEAN /\ (ctl.fault => fault)
  <2>1. CtlInv
    BY DEF PlacementInv
  <2> QED
    BY <2>1, RecordFacts, ControlFacts DEF CtlInv, CtlOK, LeadOK
<1>3. Rec.committed
  BY <1>2 DEF CtlInv, Agree, Committing
<1>4. /\ ctl'.state = "ACTIVE" /\ ctl'.txn = ctl.txn /\ ctl'.jix = ctl.jix
      /\ ctl'.slot = ctl.slot /\ ctl'.epoch = ctl.epoch /\ ctl'.map = ctl.map
      /\ ctl'.fault = ctl.fault /\ ctl' \in Controls
  <2>1. "ACTIVE" \in DOMAIN Order
    BY OrderFacts DEF States8
  <2> QED
    BY <2>1, <1>1, <1>2 DEF Controls
<1>5. CtlOK'
  BY <1>1, <1>2, <1>4 DEF CtlOK, GoodCtl
<1>6. lead' \in Leads /\ lead'.await = Txn /\ lead'.last = ctl.jix
  <2>1. ctl.jix \in 0 .. 2
    BY <1>2
  <2> QED
    BY <2>1, <1>1, <1>2 DEF Leads, Txn
<1>7. \A h \in Helpers : reopen[h] = Txn
  <2>1. \A a \in Actors : /\ ack[a].txn = Txn /\ ack[a].phase = AckOf[ctl.state]
                          /\ ack[a].fault = FALSE
    BY ExactFacts DEF PollCollects, AllExact
  <2>2. \A h \in Helpers : ack[h].txn = Txn /\ ack[h].phase = "RETIRED" /\ ~ack[h].fault
    BY <2>1, AckOfFacts DEF Actors
  <2> QED
    BY <2>2 DEF PlacementInv, HelperInv, AckPhase
<1>8. DOMAIN snap' = Helpers /\ \A h \in Helpers : snap'[h] = snap[h]
  BY <1>1 DEF PlacementInv, Shape
<1>9. LeaderPc'
  <2>1. Leader \in Helpers /\ lpc = "poll"
    BY ActorsAssumption DEF PollCollects, Collecting, Polling
  <2>2. snap[Leader] # NoSnap
    BY <2>1 DEF PlacementInv, LeaderPc
  <2>3. part[Leader].txn # 0
    BY <2>1 DEF PlacementInv, HelperInv, HelperPhase, FromCopying
  <2>4. Rec' = Rec /\ part' = part /\ reopen' = reopen
    BY <1>1, <1>4 DEF Rec, Record, poolVars
  <2>5. Txn' = Txn
    BY <1>4 DEF Txn
  <2> QED
    BY <2>1, <2>2, <2>3, <2>4, <2>5, <1>1, <1>3, <1>4, <1>7, <1>8 DEF LeaderPc
<1> QED
  BY <1>1, <1>3, <1>4, <1>5, <1>6, <1>7, <1>8, <1>9, ClosesKeep DEF PlacementInv, Shape

\* The transaction fails: abort before QUIESCING, fail closed later.
LEMMA FailKeeps ==
  ASSUME PlacementInv, Fail, ctl.state # "ACTIVE", LeaderEnds,
         Quiescing(ctl) => fault' = TRUE, fault => fault', fault' \in BOOLEAN,
         UNCHANGED <<poolVars, ack, reopen, esnap, engineVars>>,
         up' \subseteq Helpers, halted' \subseteq Helpers
  PROVE  PlacementInv'
<1>1. /\ CtlInv /\ ctl \in Controls /\ GoodCtl(ctl) /\ lead \in Leads /\ ctl.jix \in 0 .. 1
      /\ ctl.txn \in 0 .. MaxTxn /\ fault \in BOOLEAN /\ (ctl.fault => fault)
      /\ ctl.fault \in BOOLEAN /\ ctl.state \in States8
      /\ (Committed(ctl) <=> ctl.state \in Committing)
      /\ (Quiescing(ctl) <=> ctl.state \in FromQuiescing)
  <2>1. CtlInv
    BY DEF PlacementInv
  <2> QED
    BY <2>1, RecordFacts, ControlFacts DEF CtlInv, CtlOK, LeadOK
<1>2. journal' = [journal EXCEPT ![ctl.jix].fault = TRUE]
  BY DEF Fail
<1>3. /\ lead' \in Leads /\ lead'.last = lead.last
      /\ ~Quiescing(ctl) => lead'.await = Txn
  BY <1>1 DEF Fail, Leads, Txn
<1>4. "ACTIVE" \in DOMAIN Order /\ NoMap \in OwnerMaps \cup {NoMap}
  BY OrderFacts DEF States8
<1>5. /\ ctl'.txn = ctl.txn /\ ctl'.jix = ctl.jix /\ ctl'.slot = ctl.slot
      /\ ctl'.epoch = ctl.epoch /\ ctl'.map = ctl.map /\ ctl' \in Controls
      /\ Committed(ctl) => ctl'.state = ctl.state /\ ctl'.cand = ctl.cand /\ ctl'.fault = TRUE
      /\ ~Committed(ctl) => ctl'.state = "ACTIVE" /\ (ctl'.fault <=> Quiescing(ctl))
  <2>1. CASE Committed(ctl)
    BY <2>1, <1>1 DEF Fail, Controls
  <2>2. CASE ~Committed(ctl)
    <3>1. PICK q : q = Quiescing(ctl)
      OBVIOUS
    <3>2. q \in BOOLEAN
      BY <3>1 DEF Quiescing
    <3>3. ctl' = [ctl EXCEPT !.state = "ACTIVE", !.cand = NoMap, !.fault = q]
      BY <2>2, <3>1 DEF Fail
    <3> QED
      BY <3>1, <3>2, <3>3, <2>2, <1>1, <1>4 DEF Controls
  <2> QED
    BY <2>1, <2>2
<1>6. Committed(ctl) => Quiescing(ctl)
  BY <1>1 DEF Committing, FromQuiescing
<1>7. CtlOK'
  BY <1>1, <1>5, <1>6 DEF CtlOK, GoodCtl
<1>8. /\ LeaderPc' /\ DOMAIN snap' = Helpers
      /\ \A h \in Helpers : snap'[h] = snap[h] \/ snap'[h] = NoSnap
  BY LeaderEndsFacts
<1>9. ~Committed(ctl) => ~Rec.committed
  BY <1>1 DEF CtlInv, Agree
<1> QED
  BY <1>1, <1>2, <1>3, <1>5, <1>6, <1>7, <1>8, <1>9, ClosesKeep

\* The two places a transaction fails at.
LEMMA FailsKeep ==
  ASSUME PlacementInv, PollFails \/ TickInvalid(Leader)
  PROVE  PlacementInv'
<1>1. /\ Leader \in Helpers /\ fault \in BOOLEAN /\ up \subseteq Helpers
      /\ halted \subseteq Helpers
  BY ActorsAssumption DEF PlacementInv, Shape, CtlInv, CtlOK
<1>2. CASE PollFails
  <2>1. /\ Fail /\ LeaderEnds /\ UNCHANGED <<poolVars, ack, reopen, esnap, engineVars>>
        /\ (Quiescing(ctl) => fault' = TRUE) /\ (fault => fault') /\ fault' \in BOOLEAN
        /\ up' \subseteq Helpers /\ halted' \subseteq Helpers
    BY <1>1, <1>2, PollEndsFacts DEF PollFails, StopHelper, Running
  <2>2. ctl.state # "ACTIVE"
    BY <1>2, AckOfFacts DEF PollFails, Collecting
  <2> QED
    BY <2>1, <2>2, FailKeeps
<1>3. CASE TickInvalid(Leader)
  <2>1. CASE UNCHANGED ctlVars
    BY <1>1, <1>3, <2>1, QuietTicksKeep
  <2>2. CASE Fail /\ Running /\ ~Quiescing(snap[Leader])
    <3>1. snap[Leader] = ctl
      BY <1>3 DEF TickInvalid, Ticking, PlacementInv, LeaderPc
    <3>2. /\ LeaderEnds /\ UNCHANGED <<poolVars, ack, reopen, esnap, engineVars>>
          /\ halted' \subseteq Helpers /\ ctl.state # "ACTIVE"
      BY <1>1, <1>3, <3>1, PollEndsFacts DEF TickInvalid
    <3> QED
      BY <1>1, <2>2, <3>1, <3>2, FailKeeps DEF Running
  <2> QED
    BY <1>3, <2>1, <2>2 DEF TickInvalid
<1> QED
  BY <1>2, <1>3

\* All actors closed the transaction before: everything is at rest.
LEMMA ClosedIsIdle ==
  ASSUME PlacementInv, CanPropose
  PROVE  /\ EngineDone
         /\ \A h \in Helpers : /\ part[h].txn = 0 /\ reopen[h] = 0
                               /\ snap[h] # NoSnap => snap[h].state = "ACTIVE"
<1>1. /\ ctl.state = "ACTIVE" /\ ~ctl.fault /\ PreviousClosed /\ CtlInv /\ ctl \in Controls
      /\ lead.await = Txn /\ Txn \in Nat /\ EngineInv
  <2>1. CtlInv /\ EngineInv
    BY DEF PlacementInv
  <2> QED
    BY <2>1, RecordFacts DEF CanPropose, CtlInv, LeadOK
<1>2. CASE Txn = 0
  <2>1. ASSUME NEW c, Seen(c), c # NoSnap
        PROVE  c.state = "ACTIVE"
    BY <2>1, <1>1, <1>2, ControlFacts DEF Seen, GoodCtl, Matches
  <2>2. ASSUME NEW h \in Helpers
        PROVE  /\ part[h].txn = 0 /\ reopen[h] = 0
               /\ snap[h] # NoSnap => snap[h].state = "ACTIVE"
    BY <2>1, <1>2 DEF PlacementInv, HelperInv, HelperPhase, SnapSeen
  <2>3. esnap # NoSnap => esnap.state = "ACTIVE"
    BY <2>1, <1>1 DEF EngineInv, EngineSeen
  <2>4. co.closed = 0 /\ ~closing
    BY <2>3, <1>1, <1>2 DEF EngineInv, EngineGate
  <2>5. \A r \in Ranks, g \in Generations : owner[r][g].event \notin {"busy", "failed"}
    BY <1>1, <1>2 DEF EngineInv, EngineBitmaps
  <2>6. LedAtCtl
    BY <1>1, <1>2 DEF EngineInv, EngineLed, CtlInv, JournalOK
  <2> QED
    BY <2>2, <2>3, <2>4, <2>5, <2>6, <1>1 DEF EngineDone
<1>3. CASE Txn # 0
  <2>1. /\ \/ CloseAck(FirstRank, "REOPENED")
           \/ \A r \in Ranks : CloseAck(r, "CLEANED")
        /\ \A h \in Helpers : CloseAck(h, "CLEANED")
    BY <1>1, <1>3 DEF PreviousClosed
  <2>2. ASSUME NEW a, NEW p, CloseAck(a, p)
        PROVE  ack[a].txn = Txn /\ ack[a].phase = p /\ ack[a].fault = FALSE
    BY <2>2, <1>1 DEF CloseAck, ClosingAck
  <2>3. EngineDone
    BY <2>1, <2>2, <1>1, <1>3, ActorsAssumption DEF EngineInv, RankAck
  <2>4. ASSUME NEW h \in Helpers
        PROVE  /\ part[h].txn = 0 /\ reopen[h] = 0
               /\ snap[h] # NoSnap => snap[h].state = "ACTIVE"
    <3>1. ack[h].txn = Txn /\ ack[h].phase = "CLEANED"
      BY <2>1, <2>2
    <3> QED
      BY <3>1, <1>3 DEF PlacementInv, HelperInv, AckPhase
  <2> QED
    BY <2>3, <2>4
<1> QED
  BY <1>2, <1>3

\* A new transaction finds everything at rest and leaves it so.
LEMMA NewTransaction ==
  ASSUME PlacementInv, CanPropose, CtlInv', LeaderEnds, ctl'.txn = Txn + 1,
         ctl'.state \in {"ACTIVE", "PROPOSED"}, ~Rec'.committed,
         ctl'.slot = ctl.slot, ctl'.epoch = ctl.epoch, ctl'.map = ctl.map,
         UNCHANGED <<poolVars, ack, reopen, up, halted, fault, esnap, engineVars>>
  PROVE  PlacementInv'
<1>1. /\ EngineDone
      /\ \A h \in Helpers : /\ part[h].txn = 0 /\ reopen[h] = 0
                            /\ snap[h] # NoSnap => snap[h].state = "ACTIVE"
  BY ClosedIsIdle
<1>2. Txn \in Nat /\ Txn' = Txn + 1 /\ EngineInv /\ CtlInv
  BY RecordFacts DEF PlacementInv, Txn
<1>3. /\ phys' = phys /\ part' = part /\ PoolShape' /\ (\A h \in Helpers : PoolInv(h)')
      /\ esnap' = esnap /\ gate' = gate /\ led' = led /\ closing' = closing
      /\ owner' = owner /\ co' = co /\ drained' = drained /\ ack' = ack /\ reopen' = reopen
      /\ fault' = fault
  BY PoolsKept DEF engineVars
<1>4. /\ LeaderPc' /\ DOMAIN snap' = Helpers
      /\ \A h \in Helpers : snap'[h] = snap[h] \/ snap'[h] = NoSnap
  BY LeaderEndsFacts
<1>5. ASSUME NEW c, Seen(c), c # NoSnap, c.state = "ACTIVE"
      PROVE  Seen(c)' /\ c.txn # Txn'
  <2>1. c.txn \in Nat /\ c.txn <= Txn /\ GoodCtl(c) /\ (c.fault => fault)
    BY <1>5, ControlFacts, BoundAssumption DEF Seen, GoodCtl
  <2>2. c.txn <= Txn' /\ c.txn # Txn'
    BY <2>1, <1>2
  <2> QED
    BY <2>1, <2>2, <1>3, <1>5 DEF Seen, GoodCtl
<1>6. ASSUME NEW h \in Helpers PROVE HelperInv(h)'
  <2>1. HelperInv(h) /\ PoolInv(h) /\ part[h].txn = 0 /\ reopen[h] = 0
    BY <1>1 DEF PlacementInv
  <2>2. ~part[h].committed
    BY <2>1 DEF PoolInv, AtRest, NoPart
  <2>3. HelperPhase(h)'
    BY <2>1, <2>2, <1>3 DEF HelperPhase, FromCopying, FromPrepared
  <2>4. PICK c : c = snap[h]
    OBVIOUS
  <2>5. c # NoSnap => c.state = "ACTIVE" /\ Seen(c)' /\ c.txn # Txn'
    BY <2>1, <2>4, <1>1, <1>5 DEF HelperInv, SnapSeen
  <2>6. snap'[h] = c \/ snap'[h] = NoSnap
    BY <2>4, <1>4
  <2>7. SnapSeen(h)'
    BY <2>5, <2>6 DEF SnapSeen, Seen
  <2>8. SnapPhase(h)'
    BY <2>1, <2>5, <2>6, <1>3 DEF SnapPhase, FromCopying, FromPrepared
  <2>9. AckPhase(h)'
    <3>1. ack[h] \in Acks /\ ack[h].txn <= Txn /\ ack[h].txn \in Nat
      BY <2>1, BoundAssumption DEF HelperInv, AckPhase, Acks
    <3>2. ack'[h].txn <= Txn' /\ ack'[h].txn # Txn'
      BY <3>1, <1>2, <1>3
    <3> QED
      BY <3>1, <3>2, <1>3 DEF AckPhase
  <2>10. PoolLink(h)'
    BY <2>1, <1>3 DEF HelperInv, PoolLink, Fits, Owned, Dom
  <2> QED
    BY <2>3, <2>7, <2>8, <2>9, <2>10 DEF HelperInv
<1>7. EngineInv'
  <2>1. co.uploaded \in Nat /\ co.uploaded <= Txn /\ co.closed = 0 /\ ~closing /\ LedAtCtl
        /\ \A r \in Ranks, g \in Generations : owner[r][g].event \notin {"busy", "failed"}
    BY <1>1, <1>2, BoundAssumption
       DEF EngineInv, EngineTyped, Coordinators, EngineBitmaps, EngineDone
  <2>2. EngineTyped'
    BY <1>2, <1>3 DEF EngineInv, EngineTyped
  <2>3. EngineLed'
    BY <2>1, <1>2, <1>3 DEF EngineInv, EngineLed, LedAtCtl, LedMap
  <2>4. EngineBitmaps'
    BY <2>1, <1>2, <1>3 DEF EngineInv, EngineBitmaps, FromPrepared
  <2>5. EngineGate'
    BY <2>1, <1>2, <1>3 DEF EngineInv, EngineGate, Committing
  <2>6. EngineSeen'
    <3>1. esnap # NoSnap => Seen(esnap) /\ esnap.state = "ACTIVE"
      BY <1>1, <1>2 DEF EngineInv, EngineSeen, EngineDone
    <3>2. PICK c : c = esnap
      OBVIOUS
    <3>3. c # NoSnap => Seen(c)'
      BY <3>1, <3>2, <1>5
    <3> QED
      BY <3>2, <3>3, <1>3 DEF EngineSeen, Seen
  <2>7. ASSUME NEW r \in Ranks PROVE RankAck(r)'
    <3>1. ack[r] \in Acks /\ ack[r].txn <= Txn /\ ack[r].txn \in Nat
      BY <1>2, BoundAssumption DEF EngineInv, RankAck, Acks
    <3>2. ack'[r].txn <= Txn' /\ ack'[r].txn # Txn'
      BY <3>1, <1>2, <1>3
    <3> QED
      BY <3>1, <3>2, <1>3 DEF RankAck
  <2> QED
    BY <2>2, <2>3, <2>4, <2>5, <2>6, <2>7 DEF EngineInv
<1>8. Shape'
  BY <1>3, <1>4 DEF Shape, PlacementInv
<1> QED
  BY <1>3, <1>4, <1>6, <1>7, <1>8 DEF PlacementInv

\* The journal record a new transaction takes is not the committed one.
LEMMA NextIndexFacts ==
  ASSUME CtlInv
  PROVE  /\ NextIndex \in 0 .. 1
         /\ journal[1 - NextIndex].txn # 0 => journal[1 - NextIndex].committed
         /\ lead.last = 2 => NextIndex = 0
         /\ lead.last # 2 => NextIndex = 1 - lead.last /\ lead.last \in 0 .. 1
<1>1. lead.last \in 0 .. 2
  BY DEF CtlInv, LeadOK, Leads
<1>2. CASE lead.last = 2
  BY <1>2 DEF NextIndex, CtlInv, LeadOK
<1>3. CASE lead.last # 2
  <2>1. lead.last \in 0 .. 1
    BY <1>1, <1>3
  <2>2. NextIndex = 1 - lead.last
    BY <2>1 DEF NextIndex
  <2>3. 1 - NextIndex = lead.last
    BY <2>1, <2>2
  <2> QED
    BY <1>3, <2>1, <2>2, <2>3 DEF CtlInv, LeadOK
<1> QED
  BY <1>2, <1>3

\* A proposal, or a staging that is rejected.
Proposal == (\E m \in Candidates : Propose(m)) \/ RejectStaging

\* A proposal finds everybody idle, so its record and its control say nothing
\* false about anybody.
LEMMA ProposalsKeep ==
  ASSUME PlacementInv, PollActive, Proposal
  PROVE  PlacementInv'
<1>1. /\ LeaderEnds
      /\ UNCHANGED <<poolVars, ack, reopen, up, halted, fault, esnap, engineVars>>
  BY PollEndsFacts DEF PollActive
<1>2. CanPropose /\ ctl.txn < MaxTxn
  <2>1. ASSUME NEW m \in Candidates, Propose(m)
        PROVE  CanPropose /\ ctl.txn < MaxTxn
    BY <2>1 DEF Propose
  <2>2. ASSUME RejectStaging
        PROVE  CanPropose /\ ctl.txn < MaxTxn
    BY <2>2 DEF RejectStaging
  <2> QED
    BY <2>1, <2>2 DEF Proposal
<1>3. CtlInv /\ ctl \in Controls /\ GoodCtl(ctl) /\ Txn \in Nat
      /\ journal \in [0 .. 1 -> Records] /\ lead \in Leads /\ (ctl.fault => fault)
      /\ fault \in BOOLEAN
  <2>1. CtlInv
    BY DEF PlacementInv
  <2> QED
    BY <2>1, RecordFacts DEF CtlInv, CtlOK, JournalOK, LeadOK
<1>4. /\ ctl.txn \in Nat /\ ctl.txn + 1 \in 0 .. MaxTxn /\ ctl.epoch \in 1 .. MaxTxn + 1
      /\ ctl.slot \in Generations /\ ctl.map \in OwnerMaps /\ ctl.epoch <= ctl.txn + 1
      /\ ctl.epoch \in 0 .. MaxTxn + 1 /\ 0 \in Generations /\ ctl.fault \in BOOLEAN
  BY <1>2, <1>3, ControlFacts, BoundAssumption DEF GoodCtl, Generations
<1>5. PICK i : i = NextIndex
  OBVIOUS
<1>6. /\ i \in 0 .. 1 /\ 1 - i \in 0 .. 1
      /\ journal[1 - i].txn # 0 => journal[1 - i].committed
      /\ lead.last = 2 => i = 0
      /\ lead.last # 2 => i = 1 - lead.last /\ lead.last \in 0 .. 1
  <2>1. 1 - i \in 0 .. 1
    BY <1>3, <1>5, NextIndexFacts
  <2> QED
    BY <2>1, <1>3, <1>5, NextIndexFacts
<1>7. PICK r : /\ journal' = [journal EXCEPT ![i] = r] /\ r \in Records
               /\ r.txn = ctl.txn + 1 /\ r.committed = FALSE
               /\ ctl'.txn = ctl.txn + 1 /\ ctl'.jix = i /\ ctl'.slot = ctl.slot
               /\ ctl'.epoch = ctl.epoch /\ ctl'.map = ctl.map /\ ctl'.fault = ctl.fault
               /\ ctl' \in Controls /\ lead' \in Leads /\ lead'.last = lead.last
               /\ \/ /\ ctl'.state = "PROPOSED" /\ ctl'.cand = r.to /\ r.to \in OwnerMaps
                     /\ r.old = ctl.slot /\ r.epoch = ctl.epoch /\ r.from = ctl.map
                  \/ ctl'.state = "ACTIVE" /\ lead'.await = ctl.txn + 1
  <2>1. ASSUME NEW m \in Candidates, Propose(m)
        PROVE  \E r : /\ journal' = [journal EXCEPT ![i] = r] /\ r \in Records
               /\ r.txn = ctl.txn + 1 /\ r.committed = FALSE
               /\ ctl'.txn = ctl.txn + 1 /\ ctl'.jix = i /\ ctl'.slot = ctl.slot
               /\ ctl'.epoch = ctl.epoch /\ ctl'.map = ctl.map /\ ctl'.fault = ctl.fault
               /\ ctl' \in Controls /\ lead' \in Leads /\ lead'.last = lead.last
               /\ ctl'.state = "PROPOSED" /\ ctl'.cand = r.to /\ r.to \in OwnerMaps
               /\ r.old = ctl.slot /\ r.epoch = ctl.epoch /\ r.from = ctl.map
    <3>1. PICK r : r = [NoRecord EXCEPT !.txn = ctl.txn + 1, !.epoch = ctl.epoch,
                                        !.old = ctl.slot, !.from = ctl.map, !.to = m]
      OBVIOUS
    <3>2. m \in OwnerMaps
      BY <2>1, CandidatesAssumption
    <3>3. /\ r \in Records /\ r.txn = ctl.txn + 1 /\ r.committed = FALSE /\ r.to = m
          /\ r.old = ctl.slot /\ r.epoch = ctl.epoch /\ r.from = ctl.map
      BY <3>1, <3>2, <1>4 DEF NoRecord, Records
    <3>4. "PROPOSED" \in DOMAIN Order
      BY OrderFacts DEF States8
    <3>5. ctl' = [ctl EXCEPT !.state = "PROPOSED", !.txn = ctl.txn + 1, !.cand = m, !.jix = i]
      BY <2>1, <1>5 DEF Propose
    <3>6. /\ ctl'.txn = ctl.txn + 1 /\ ctl'.jix = i /\ ctl'.slot = ctl.slot
          /\ ctl'.epoch = ctl.epoch /\ ctl'.map = ctl.map /\ ctl'.fault = ctl.fault
          /\ ctl' \in Controls /\ ctl'.state = "PROPOSED" /\ ctl'.cand = m
      BY <3>2, <3>4, <3>5, <1>3, <1>4, <1>6 DEF Controls
    <3>7. journal' = [journal EXCEPT ![i] = r] /\ lead' = lead
      BY <2>1, <3>1, <1>5 DEF Propose
    <3> QED
      BY <3>2, <3>3, <3>6, <3>7, <1>3
  <2>2. ASSUME RejectStaging
        PROVE  \E r : /\ journal' = [journal EXCEPT ![i] = r] /\ r \in Records
               /\ r.txn = ctl.txn + 1 /\ r.committed = FALSE
               /\ ctl'.txn = ctl.txn + 1 /\ ctl'.jix = i /\ ctl'.slot = ctl.slot
               /\ ctl'.epoch = ctl.epoch /\ ctl'.map = ctl.map /\ ctl'.fault = ctl.fault
               /\ ctl' \in Controls /\ lead' \in Leads /\ lead'.last = lead.last
               /\ ctl'.state = "ACTIVE" /\ lead'.await = ctl.txn + 1
    <3>1. PICK r : r = [NoRecord EXCEPT !.txn = ctl.txn + 1, !.epoch = ctl.epoch,
                                        !.from = ctl.map, !.fault = TRUE]
      OBVIOUS
    <3>2. /\ r \in Records /\ r.txn = ctl.txn + 1 /\ r.committed = FALSE
      BY <3>1, <1>4 DEF NoRecord, Records, Generations
    <3>3. ctl' = [ctl EXCEPT !.txn = ctl.txn + 1, !.jix = i]
      BY <2>2, <1>5 DEF RejectStaging
    <3>4. ctl.state = "ACTIVE"
      BY <1>2 DEF CanPropose
    <3>5. /\ ctl'.txn = ctl.txn + 1 /\ ctl'.jix = i /\ ctl'.slot = ctl.slot
          /\ ctl'.epoch = ctl.epoch /\ ctl'.map = ctl.map /\ ctl'.fault = ctl.fault
          /\ ctl' \in Controls /\ ctl'.state = "ACTIVE"
      BY <3>3, <3>4, <1>3, <1>4, <1>6 DEF Controls
    <3>6. lead' \in Leads /\ lead'.last = lead.last /\ lead'.await = ctl.txn + 1
      BY <2>2, <1>3, <1>4 DEF RejectStaging, Leads
    <3>7. journal' = [journal EXCEPT ![i] = r]
      BY <2>2, <3>1, <1>5 DEF RejectStaging
    <3> QED
      BY <3>2, <3>5, <3>6, <3>7
  <2> QED
    BY <2>1, <2>2 DEF Proposal
<1>8. /\ Rec' = r /\ journal' \in [0 .. 1 -> Records] /\ journal'[i] = r
      /\ journal'[1 - i] = journal[1 - i]
  <2>1. 1 - i # i
    BY <1>6
  <2>2. journal' \in [0 .. 1 -> Records] /\ journal'[i] = r /\ journal'[1 - i] = journal[1 - i]
    BY <2>1, <1>3, <1>6, <1>7
  <2>3. Rec' = journal'[i]
    BY <1>7 DEF Rec, Record
  <2> QED
    BY <2>2, <2>3
<1>9. CtlInv'
  <2>1. CtlOK'
    BY <1>1, <1>3, <1>4, <1>7 DEF CtlOK, GoodCtl, Committing
  <2>2. JournalOK'
    BY <1>4, <1>6, <1>7, <1>8 DEF JournalOK, Txn
  <2>3. LeadOK'
    <3>1. lead.last = 2 => journal[1].txn = 0 /\ i = 0
      BY <1>3, <1>6 DEF CtlInv, LeadOK
    <3>2. lead.last # 2 => journal[lead.last].committed /\ lead.last = 1 - i
      BY <1>3, <1>6 DEF CtlInv, LeadOK
    <3> QED
      BY <3>1, <3>2, <1>6, <1>7, <1>8 DEF LeadOK, Txn
  <2>4. Agree'
    BY <1>7, <1>8 DEF Agree, OldInForce, Committing
  <2> QED
    BY <2>1, <2>2, <2>3, <2>4 DEF CtlInv
<1>10. ~Rec'.committed /\ ctl'.txn = Txn + 1 /\ ctl'.state \in {"ACTIVE", "PROPOSED"}
  BY <1>7, <1>8 DEF Txn
<1> QED
  BY <1>1, <1>2, <1>7, <1>9, <1>10, NewTransaction

\* Every step of the controller.
LEMMA ControllerKeeps ==
  ASSUME PlacementInv, ControllerStep
  PROVE  PlacementInv'
<1>1. CASE CleanupFails \/ CleanupExpires \/ PollWaits \/ RetireHeader
  BY <1>1, WaitsKeep
<1>2. CASE PollActive
  <2>1. CASE UNCHANGED ctlVars
    BY <1>2, <2>1, WaitsKeep
  <2>2. CASE ~UNCHANGED ctlVars
    <3>1. Proposal
      BY <1>2, <2>2 DEF PollActive, Proposal
    <3> QED
      BY <1>2, <3>1, ProposalsKeep
  <2> QED
    BY <2>1, <2>2
<1>3. CASE PollAdvances
  BY <1>3, AdvancesKeep
<1>4. CASE PollFails
  BY <1>4, FailsKeep
<1>5. CASE PollCollects
  <2>1. ctl.state \in {"RESERVING", "COPYING", "QUIESCING", "COMMIT", "RETIRING"}
    BY <1>5, AckOfFacts DEF PollCollects, Collecting
  <2> QED
    BY <1>5, <2>1, CollectsEnter, CollectsCommit, CollectsRetired
<1> QED
  BY <1>1, <1>2, <1>3, <1>4, <1>5 DEF ControllerStep

\* Every tick of a helper.
LEMMA TicksKeep ==
  ASSUME PlacementInv, NEW h \in Helpers, Tick(h)
  PROVE  PlacementInv'
<1>1. CASE TickFaulted(h) \/ TickIdle(h) \/ CleanupHalt(h)
  BY <1>1, QuietTicksKeep
<1>2. CASE TickInvalid(h)
  <2>1. CASE UNCHANGED ctlVars
    BY <1>2, <2>1, QuietTicksKeep
  <2>2. CASE ~UNCHANGED ctlVars
    <3>1. h = Leader
      BY <1>2, <2>2 DEF TickInvalid
    <3> QED
      BY <1>2, <3>1, FailsKeep
  <2> QED
    BY <2>1, <2>2
<1>3. CASE TickAwaitsReopen(h)
  <2>1. CASE UNCHANGED ctlVars
    BY <1>3, <2>1, QuietTicksKeep
  <2>2. CASE ~UNCHANGED ctlVars
    <3>1. h = Leader
      BY <1>3, <2>2 DEF TickAwaitsReopen
    <3> QED
      BY <1>3, <3>1, WaitsKeep
  <2> QED
    BY <2>1, <2>2
<1>4. CASE TickReserving(h) \/ TickCopying(h) \/ TickQuiescing(h) \/ TickCommit(h)
  BY <1>4, ReservingKeeps, CopyingKeeps, QuiescingKeeps, CommitTickKeeps
<1>5. CASE TickRetiring(h) \/ TickCleanup(h) \/ TickReopened(h)
  BY <1>5, RetiringKeeps, CleanupKeeps, ReopenedKeeps
<1> QED
  BY <1>1, <1>2, <1>3, <1>4, <1>5 DEF Tick

-----------------------------------------------------------------------------
(* The engine.                                                             *)

\* A step of the engine leaves the helpers and the control alone.
LEMMA EngineOnly ==
  ASSUME PlacementInv, HelpersKeep, fault => fault', fault' \in BOOLEAN,
         led' = led \/ led'.slot = ctl.slot, DOMAIN ack' = Actors,
         \A h \in Helpers : ack'[h] = ack[h], drained' \subseteq Helpers, EngineInv'
  PROVE  PlacementInv'
<1>1. /\ UNCHANGED <<poolVars, ctlVars>> /\ lpc' = lpc /\ snap' = snap /\ reopen' = reopen
      /\ halted' = halted /\ up' = up
  BY DEF HelpersKeep
<1>2. CtlInv' /\ SameMove
  BY <1>1, CtlFrame DEF PlacementInv
<1>3. /\ phys' = phys /\ part' = part /\ PoolShape' /\ \A h \in Helpers : PoolInv(h)'
  BY <1>1, PoolsKept
<1>4. LeaderPc'
  BY <1>1, <1>2, <1>3, PcFrame DEF PlacementInv
<1>5. ASSUME NEW h \in Helpers PROVE HelperInv(h)'
  <2>1. HelperInv(h)
    BY DEF PlacementInv
  <2>2. HelperPhase(h)' /\ SnapPhase(h)' /\ AckPhase(h)'
    BY <2>1, <1>1, <1>2, <1>3 DEF HelperInv, HelperPhase, SnapPhase, AckPhase, SameMove, Txn
  <2>3. SnapSeen(h)'
    BY <2>1, <1>1, <1>2, SnapFrame DEF HelperInv
  <2>4. PoolLink(h)'
    BY <2>1, <1>2, <1>3 DEF HelperInv, PoolLink, SameMove, Fits, Owned, Dom, OldInForce
  <2> QED
    BY <2>2, <2>3, <2>4 DEF HelperInv
<1>6. Shape'
  BY <1>1, <1>3 DEF Shape, PlacementInv
<1> QED
  BY <1>2, <1>3, <1>4, <1>5, <1>6 DEF PlacementInv

\* What holds of the engine while the control and the helpers stay.
LEMMA EngineFacts ==
  ASSUME PlacementInv, HelpersKeep
  PROVE  /\ EngineInv /\ CtlInv /\ ctl' = ctl /\ Rec' = Rec /\ Txn' = Txn /\ Txn \in Nat
         /\ ctl \in Controls /\ Rec \in Records /\ Rec.old \in Generations
         /\ Rec.committed \in BOOLEAN /\ Rec = journal[ctl.jix] /\ fault \in BOOLEAN
         /\ drained \subseteq Helpers /\ DOMAIN ack = Actors /\ Rec.epoch \in Nat
<1>1. CtlInv
  BY DEF PlacementInv
<1>2. ctl' = ctl /\ journal' = journal
  BY DEF HelpersKeep, ctlVars
<1> QED
  BY <1>1, <1>2, RecordFacts DEF PlacementInv, Shape, CtlInv, CtlOK, Rec, Record, Txn

\* The parts of EngineInv a step keeps that changes only acknowledgements, the
\* gate and the engine's copy of the control.
LEMMA EngineParts ==
  ASSUME EngineInv, ctl' = ctl, Rec' = Rec, Txn' = Txn, led' = led, owner' = owner
  PROVE  /\ co'.uploaded = co.uploaded /\ co'.issued = co.issued /\ co'.ready = co.ready
              => EngineBitmaps'
         /\ (Rec.committed => closing' = closing) /\ (gate' = "open" => gate = "open")
              => EngineLed'
<1>1. co'.uploaded = co.uploaded /\ co'.issued = co.issued /\ co'.ready = co.ready
              => EngineBitmaps'
  BY DEF EngineInv, EngineBitmaps, OldInForce
<1>2. (Rec.committed => closing' = closing) /\ (gate' = "open" => gate = "open") => EngineLed'
  BY DEF EngineInv, EngineLed, LedAtCtl, LedBehind, LedMap
<1> QED
  BY <1>1, <1>2

\* The copy of the control the engine's step works on.
LEMMA StepFacts ==
  ASSUME PlacementInv, NEW s, Stepping(s), NEW c, c = esnap
  PROVE  /\ c # NoSnap /\ c.state = s /\ ~closing /\ gate # "faulted" /\ ~fault
         /\ Seen(c) /\ GoodCtl(c) /\ c \in Controls /\ c.txn \in Nat /\ c.txn <= Txn
         /\ s # "ACTIVE" => Matches(c) /\ c.txn = Txn /\ Txn # 0
         /\ s = "ACTIVE" /\ c.txn = Txn => c = ctl
         /\ s # "ACTIVE" => ~EngineDone
<1>1. EngineInv /\ CtlInv
  BY DEF PlacementInv
<1>2. c # NoSnap /\ c.state = s /\ ~closing /\ gate # "faulted" /\ ~fault
  BY DEF Stepping, Stopped
<1>3. Seen(c) /\ GoodCtl(c) /\ c \in Controls /\ c.txn \in Nat /\ c.txn <= Txn
  BY <1>1, <1>2, ControlFacts, BoundAssumption DEF EngineInv, EngineSeen, Seen, GoodCtl
<1> QED
  BY <1>2, <1>3 DEF Seen, GoodCtl, Matches, EngineDone

\* The control just read may be acted on.
LEMMA CtlSeen ==
  ASSUME CtlInv
  PROVE  Seen(ctl)
<1>1. ctl \in Controls /\ Txn \in Nat
  BY RecordFacts
<1>2. ctl.state # "ACTIVE" => Matches(ctl)
  BY DEF CtlInv, Agree, Matches, OldInForce, Txn, FromCopying, FromQuiescing
<1> QED
  BY <1>1, <1>2 DEF Seen, CtlInv, CtlOK, Txn

\* The engine reads the control.
LEMMA LooksKeep ==
  ASSUME PlacementInv, EngineLooks
  PROVE  PlacementInv'
<1>1. /\ HelpersKeep /\ ~closing /\ esnap = NoSnap /\ esnap' = ctl /\ ack' = ack
      /\ fault' = fault /\ gate' = gate /\ led' = led /\ closing' = closing
      /\ drained' = drained /\ owner' = owner /\ co' = co
  BY DEF EngineLooks, HelpersKeep, engineVars
<1>2. /\ EngineInv /\ CtlInv /\ ctl' = ctl /\ Rec' = Rec /\ Txn' = Txn /\ ctl \in Controls
      /\ fault \in BOOLEAN /\ drained \subseteq Helpers /\ DOMAIN ack = Actors
  BY <1>1, EngineFacts
<1>3. EngineTyped' /\ EngineLed' /\ EngineBitmaps'
  BY <1>1, <1>2, EngineParts DEF EngineInv, EngineTyped
<1>4. EngineGate'
  BY <1>1, <1>2 DEF EngineInv, EngineGate, CtlInv, Agree, Txn
<1>5. EngineSeen'
  BY <1>1, <1>2, CtlSeen DEF EngineSeen, Seen, GoodCtl, Matches, OldInForce, Txn
<1>6. EngineDone => EngineDone'
  BY <1>1, <1>2 DEF EngineDone, LedAtCtl
<1>7. ASSUME NEW r \in Ranks PROVE RankAck(r)'
  BY <1>1, <1>2, <1>6 DEF EngineInv, RankAck
<1>8. EngineInv'
  BY <1>3, <1>4, <1>5, <1>7 DEF EngineInv
<1> QED
  BY <1>1, <1>2, <1>8, EngineOnly

\* Acknowledgements of all ranks, or of some.
LEMMA RanksPublish ==
  ASSUME DOMAIN ack = Actors, NEW S \in SUBSET Ranks, NEW new,
         PublishAll(S, new) \/ KeepAll(S, new)
  PROVE  /\ DOMAIN ack' = Actors /\ \A h \in Helpers : ack'[h] = ack[h]
         /\ \A r \in Ranks : r \notin S => ack'[r] = ack[r]
         /\ \A r \in S : /\ ack'[r] = ack[r] \/ ack'[r] = new
                         /\ ack'[r].txn = new.txn /\ ack'[r].phase = new.phase
         /\ PublishAll(S, new) => \A r \in S : ack'[r] = new
<1>1. \A a \in Actors : ack'[a] = ack[a] \/ a \in S
  BY DEF PublishAll, KeepAll
<1>2. \A h \in Helpers : h \in Actors /\ h \notin S
  BY ActorsAssumption DEF Actors
<1>3. \A r \in Ranks : r \in Actors
  BY DEF Actors
<1>4. DOMAIN ack' = Actors
  BY DEF PublishAll, KeepAll
<1>5. ASSUME NEW r \in S
      PROVE  /\ ack'[r] = ack[r] \/ ack'[r] = new
             /\ ack'[r].txn = new.txn /\ ack'[r].phase = new.phase
             /\ PublishAll(S, new) => ack'[r] = new
  BY <1>3 DEF PublishAll, KeepAll, Kept
<1> QED
  BY <1>1, <1>2, <1>3, <1>4, <1>5

\* A step whose acknowledgements are of a phase that proves nothing more.
LEMMA PlainAcks ==
  ASSUME PlacementInv, HelpersKeep, ~EngineDone, co'.uploaded = co.uploaded,
         co'.ready = co.ready, co'.closed = co.closed,
         \A r \in Ranks : \/ ack'[r] = ack[r]
                          \/ /\ ack'[r] \in Acks /\ ack'[r].txn <= Txn
                             /\ ack'[r].phase \in {"RESERVED", "COMMITTED", "RETIRED"}
  PROVE  \A r \in Ranks : RankAck(r)'
<1> SUFFICES ASSUME NEW r \in Ranks PROVE RankAck(r)'
  OBVIOUS
<1>1. EngineInv /\ ctl' = ctl /\ Txn' = Txn
  BY EngineFacts
<1> QED
  BY <1>1 DEF EngineInv, RankAck

\* The engine's loop ends, or a step finds nothing to do.
LEMMA StopsAndIdlesKeep ==
  ASSUME PlacementInv, EngineStops \/ EngineIdles
  PROVE  PlacementInv'
<1>1. /\ HelpersKeep /\ ~closing /\ esnap' = NoSnap /\ ack' = ack /\ fault' = fault
      /\ led' = led /\ closing' = closing /\ drained' = drained /\ owner' = owner /\ co' = co
      /\ gate' = gate \/ gate' = "faulted"
      /\ gate' = "faulted" => fault \/ gate = "faulted"
  <2>1. EngineInv
    BY DEF PlacementInv
  <2>2. CASE EngineStops
    BY <2>1, <2>2 DEF EngineStops, EndStep, EngineInv, EngineSeen, Seen
  <2>3. CASE EngineIdles
    BY <2>3 DEF EngineIdles, EndStep, engineVars, Stepping
  <2> QED
    BY <2>2, <2>3
<1>2. /\ EngineInv /\ ctl' = ctl /\ Rec' = Rec /\ Txn' = Txn
      /\ fault \in BOOLEAN /\ drained \subseteq Helpers /\ DOMAIN ack = Actors
  BY <1>1, EngineFacts
<1>3. EngineTyped' /\ EngineLed' /\ EngineBitmaps'
  BY <1>1, <1>2, EngineParts DEF EngineInv, EngineTyped
<1>4. EngineGate' /\ EngineSeen'
  BY <1>1, <1>2 DEF EngineInv, EngineGate, EngineSeen, Seen
<1>5. EngineDone => EngineDone'
  BY <1>1, <1>2 DEF EngineDone, LedAtCtl
<1>6. ASSUME NEW r \in Ranks PROVE RankAck(r)'
  BY <1>1, <1>2, <1>5 DEF EngineInv, RankAck
<1>7. EngineInv'
  BY <1>3, <1>4, <1>6 DEF EngineInv
<1> QED
  BY <1>1, <1>2, <1>7, EngineOnly

\* Steps that acknowledge a phase, or fail closed: RESERVING, COMMIT, RETIRING.
LEMMA PhasesKeep ==
  ASSUME PlacementInv, EngineReserving \/ EngineCommits \/ EngineRetires
  PROVE  PlacementInv'
<1> PICK c : c = esnap
  OBVIOUS
<1>1. PICK p, s : /\ p \in {"RESERVED", "COMMITTED", "RETIRED"} /\ s # "ACTIVE" /\ Stepping(s)
                  /\ HelpersKeep /\ esnap' = NoSnap /\ led' = led /\ closing' = closing
                  /\ drained' = drained /\ owner' = owner
                  /\ \/ co' = co
                     \/ co' = [co EXCEPT !.committed = Ranks]
                  /\ \/ Fatal /\ ack' = ack
                     \/ /\ gate' = gate /\ fault' = fault
                        /\ \E bad \in BOOLEAN : \/ PublishAll(Ranks, PhaseAck(c, p, bad))
                                               \/ KeepAll(Ranks, PhaseAck(c, p, bad))
  <2>1. CASE EngineReserving
    <3>1. /\ Stepping("RESERVING") /\ HelpersKeep /\ esnap' = NoSnap /\ led' = led
          /\ closing' = closing /\ drained' = drained /\ owner' = owner /\ co' = co
          /\ gate' = gate /\ fault' = fault
          /\ \E bad \in BOOLEAN : \/ PublishAll(Ranks, PhaseAck(c, "RESERVED", bad))
                                 \/ KeepAll(Ranks, PhaseAck(c, "RESERVED", bad))
      BY <2>1 DEF EngineReserving, EndStep, engineVars
    <3> QED
      BY <3>1
  <2>2. CASE EngineCommits
    <3>1. /\ Stepping("COMMIT") /\ HelpersKeep /\ esnap' = NoSnap /\ led' = led
          /\ closing' = closing /\ drained' = drained /\ owner' = owner
          /\ \/ co' = co \/ co' = [co EXCEPT !.committed = Ranks]
          /\ \/ Fatal /\ ack' = ack
             \/ /\ gate' = gate /\ fault' = fault
                /\ KeepAll(Ranks, PhaseAck(c, "COMMITTED", FALSE))
      BY <2>2 DEF EngineCommits, EndStep
    <3> QED
      BY <3>1
  <2>3. CASE EngineRetires
    <3>1. /\ Stepping("RETIRING") /\ HelpersKeep /\ esnap' = NoSnap /\ led' = led
          /\ closing' = closing /\ drained' = drained /\ owner' = owner /\ co' = co
          /\ \/ Fatal /\ ack' = ack
             \/ /\ gate' = gate /\ fault' = fault
                /\ KeepAll(Ranks, PhaseAck(c, "RETIRED", FALSE))
      BY <2>3 DEF EngineRetires, EndStep
    <3> QED
      BY <3>1
  <2> QED
    BY <2>1, <2>2, <2>3
<1>2. /\ EngineInv /\ ctl' = ctl /\ Rec' = Rec /\ Txn' = Txn /\ Txn \in Nat
      /\ fault \in BOOLEAN /\ drained \subseteq Helpers /\ DOMAIN ack = Actors
  BY <1>1, EngineFacts
<1>3. /\ c # NoSnap /\ ~closing /\ GoodCtl(c) /\ c.txn = Txn /\ ~EngineDone /\ c.state = s
  BY <1>1, StepFacts
<1>4. /\ DOMAIN ack' = Actors /\ (\A h \in Helpers : ack'[h] = ack[h])
      /\ \A r \in Ranks : \/ ack'[r] = ack[r]
                          \/ /\ ack'[r] \in Acks /\ ack'[r].txn <= Txn
                             /\ ack'[r].phase \in {"RESERVED", "COMMITTED", "RETIRED"}
  <2>1. CASE ack' = ack
    BY <2>1, <1>2
  <2>2. ASSUME NEW bad \in BOOLEAN,
               \/ PublishAll(Ranks, PhaseAck(c, p, bad)) \/ KeepAll(Ranks, PhaseAck(c, p, bad))
        PROVE  /\ DOMAIN ack' = Actors /\ (\A h \in Helpers : ack'[h] = ack[h])
               /\ \A r \in Ranks : ack'[r] = ack[r] \/ ack'[r] = PhaseAck(c, p, bad)
    BY <2>2, <1>2, RanksPublish
  <2>3. ASSUME NEW bad \in BOOLEAN
        PROVE  /\ PhaseAck(c, p, bad) \in Acks /\ PhaseAck(c, p, bad).txn <= Txn
               /\ PhaseAck(c, p, bad).phase = p
    BY <1>1, <1>2, <1>3, AckFacts
  <2> QED
    BY <1>1, <2>1, <2>2, <2>3
<1>5. /\ co'.uploaded = co.uploaded /\ co'.issued = co.issued /\ co'.ready = co.ready
      /\ co'.closed = co.closed /\ co'.oldEpoch = co.oldEpoch /\ co' \in Coordinators
  BY <1>1, <1>2 DEF EngineInv, EngineTyped, Coordinators
<1>6. /\ gate' = gate \/ gate' = "faulted"
      /\ (gate' = "faulted" => fault') /\ (fault => fault') /\ fault' \in BOOLEAN
  BY <1>1, <1>2 DEF Fatal, EngineInv, EngineTyped
<1>7. \A r \in Ranks : RankAck(r)'
  BY <1>1, <1>3, <1>4, <1>5, PlainAcks
<1>8. EngineTyped' /\ EngineLed' /\ EngineBitmaps'
  <2>1. gate \in {"open", "closed", "faulted"} /\ closing \in BOOLEAN
        /\ led \in [epoch : Nat, slot : Generations]
        /\ owner \in [Ranks -> [Generations -> Bitmaps]]
    BY <1>2 DEF EngineInv, EngineTyped
  <2>2. EngineTyped'
    BY <2>1, <1>1, <1>5, <1>6 DEF EngineTyped
  <2> QED
    BY <2>2, <1>1, <1>2, <1>5, <1>6, EngineParts
<1>9. EngineGate' /\ EngineSeen'
  BY <1>1, <1>2, <1>3, <1>5, <1>6 DEF EngineInv, EngineGate, EngineSeen, Seen
<1>10. EngineInv'
  BY <1>7, <1>8, <1>9 DEF EngineInv
<1> QED
  BY <1>1, <1>2, <1>4, <1>6, <1>10, EngineOnly

\* QUIESCING: admission closes, and the lanes are asked to drain.
LEMMA ClosesGateKeep ==
  ASSUME PlacementInv, EngineCloses
  PROVE  PlacementInv'
<1> PICK c : c = esnap
  OBVIOUS
<1>1. /\ HelpersKeep /\ Stepping("QUIESCING") /\ co.closed # c.txn /\ ack' = ack /\ led' = led
      /\ drained' = drained /\ owner' = owner /\ co' = co
      /\ \/ gate' = "closed" /\ closing' = TRUE /\ fault' = fault /\ esnap' = esnap
         \/ Fatal /\ esnap' = NoSnap /\ closing' = closing
  BY DEF EngineCloses, EndStep
<1>2. /\ EngineInv /\ ctl' = ctl /\ Rec' = Rec /\ Txn' = Txn /\ Txn \in Nat
      /\ fault \in BOOLEAN /\ drained \subseteq Helpers /\ DOMAIN ack = Actors
      /\ Rec.committed \in BOOLEAN
  BY <1>1, EngineFacts
<1>3. /\ c # NoSnap /\ ~closing /\ c.txn = Txn /\ ~EngineDone /\ c.state = "QUIESCING"
      /\ Seen(c)
  BY <1>1, StepFacts
<1>4. ~Rec.committed
  BY <1>1, <1>2, <1>3 DEF EngineInv, EngineGate
<1>5. /\ (gate' = "faulted" => fault') /\ (fault => fault') /\ fault' \in BOOLEAN
      /\ gate' \in {"closed", "faulted"} /\ closing' \in BOOLEAN
  BY <1>1, <1>2, <1>3 DEF Fatal, EngineInv, EngineTyped
<1>6. EngineTyped' /\ EngineLed' /\ EngineBitmaps'
  <2>1. led \in [epoch : Nat, slot : Generations] /\ co \in Coordinators
        /\ owner \in [Ranks -> [Generations -> Bitmaps]]
    BY <1>2 DEF EngineInv, EngineTyped
  <2>2. EngineTyped'
    BY <2>1, <1>1, <1>5 DEF EngineTyped
  <2> QED
    BY <2>2, <1>1, <1>2, <1>4, <1>5, EngineParts
<1>7. EngineGate'
  BY <1>1, <1>2, <1>3, <1>4, <1>5 DEF EngineInv, EngineGate, Fatal
<1>8. EngineSeen'
  BY <1>1, <1>2, <1>3 DEF EngineInv, EngineSeen, Seen, GoodCtl, Matches, OldInForce
<1>9. ASSUME NEW r \in Ranks PROVE RankAck(r)'
  BY <1>1, <1>2, <1>3 DEF EngineInv, RankAck
<1>10. EngineInv'
  BY <1>6, <1>7, <1>8, <1>9 DEF EngineInv
<1> QED
  BY <1>1, <1>2, <1>5, <1>10, EngineOnly

\* close_and_wait returns.
LEMMA DrainedKeeps ==
  ASSUME PlacementInv, EngineDrained
  PROVE  PlacementInv'
<1> PICK c : c = esnap
  OBVIOUS
<1> DEFINE good == PhaseAck(c, "QUIESCED", FALSE)
<1>1. /\ HelpersKeep /\ closing /\ closing' = FALSE /\ esnap' = NoSnap /\ led' = led
      /\ drained' = drained /\ owner' = owner
      /\ \/ /\ ~Stopped /\ co' = [co EXCEPT !.closed = c.txn, !.oldEpoch = led.epoch]
            /\ PublishAll(Ranks, good) /\ gate' = gate /\ fault' = fault
         \/ Fatal /\ ack' = ack /\ co' = co
  BY DEF EngineDrained, EndStep
<1>2. /\ EngineInv /\ ctl' = ctl /\ Rec' = Rec /\ Txn' = Txn /\ Txn \in Nat /\ ctl \in Controls
      /\ fault \in BOOLEAN /\ drained \subseteq Helpers /\ DOMAIN ack = Actors
      /\ Rec.committed \in BOOLEAN
  BY <1>1, EngineFacts
<1>3. /\ c # NoSnap /\ c.state = "QUIESCING" /\ gate # "open" /\ ~Rec.committed /\ Seen(c)
      /\ ~EngineDone /\ co.closed # Txn
  BY <1>1, <1>2 DEF EngineInv, EngineGate, EngineSeen, EngineDone
<1>4. Matches(c) /\ GoodCtl(c) /\ c.txn = Txn /\ Txn # 0
  BY <1>3 DEF Seen, Matches, GoodCtl
<1>5. ctl.state \in {"ACTIVE"} \cup FromQuiescing
  BY <1>2, <1>3, <1>4, ControlFacts DEF Matches, FromQuiescing, States8, FromCopying
<1>6. good \in Acks /\ good.txn = Txn /\ good.phase = "QUIESCED"
  BY <1>3, <1>4, AckFacts
<1> HIDE DEF good
<1>7. /\ led \in [epoch : Nat, slot : Generations] /\ co \in Coordinators
      /\ owner \in [Ranks -> [Generations -> Bitmaps]] /\ led.epoch \in Nat
      /\ Txn \in 0 .. MaxTxn
  BY <1>2, ControlFacts DEF EngineInv, EngineTyped, Txn
<1>8. /\ co'.uploaded = co.uploaded /\ co'.issued = co.issued /\ co'.ready = co.ready
      /\ co' \in Coordinators
      /\ \/ co'.closed = Txn /\ co'.oldEpoch = led.epoch /\ gate' # "faulted"
         \/ co' = co /\ gate' = "faulted"
  BY <1>1, <1>4, <1>7 DEF Coordinators, Stopped, Fatal
<1>9. /\ DOMAIN ack' = Actors /\ (\A h \in Helpers : ack'[h] = ack[h])
      /\ \A r \in Ranks : \/ ack'[r] = ack[r] /\ co' = co
                          \/ ack'[r] = good /\ co'.closed = Txn
  <2>1. Ranks \in SUBSET Ranks
    OBVIOUS
  <2>2. CASE PublishAll(Ranks, good) /\ co' = [co EXCEPT !.closed = c.txn, !.oldEpoch = led.epoch]
    <3>1. co'.closed = Txn
      BY <2>2, <1>4, <1>7 DEF Coordinators
    <3> QED
      BY <2>1, <2>2, <3>1, <1>2, RanksPublish
  <2>3. CASE ack' = ack /\ co' = co
    BY <2>3, <1>2
  <2> QED
    BY <2>2, <2>3, <1>1
<1>10. /\ (gate' = "faulted" => fault') /\ (fault => fault') /\ fault' \in BOOLEAN
       /\ gate' \in {"closed", "faulted"} /\ gate' # "open"
  BY <1>1, <1>2, <1>3 DEF Fatal, EngineInv, EngineTyped
<1>11. EngineTyped' /\ EngineLed' /\ EngineBitmaps'
  <2>1. EngineTyped'
    BY <1>1, <1>7, <1>8, <1>10 DEF EngineTyped
  <2> QED
    BY <2>1, <1>1, <1>2, <1>3, <1>8, <1>10, EngineParts
<1>12. EngineGate' /\ EngineSeen'
  <2>1. EngineGate'
    BY <1>1, <1>2, <1>3, <1>4, <1>5, <1>8, <1>10 DEF EngineInv, EngineGate, Committing
  <2> QED
    BY <2>1, <1>1 DEF EngineSeen, Seen
<1>13. ASSUME NEW r \in Ranks PROVE RankAck(r)'
  BY <1>2, <1>3, <1>6, <1>9 DEF EngineInv, RankAck
<1>14. EngineInv'
  BY <1>11, <1>12, <1>13 DEF EngineInv
<1> QED
  BY <1>1, <1>2, <1>9, <1>10, <1>14, EngineOnly


\* A copy of a bitmap ends.
LEMMA BitmapLandsKeeps ==
  ASSUME PlacementInv, NEW r \in Ranks, NEW g \in Generations, BitmapLands(r, g)
  PROVE  PlacementInv'
<1>1. PICK ev \in {"done", "failed"} : owner' = [owner EXCEPT ![r][g].event = ev]
  BY DEF BitmapLands
<1>2. /\ HelpersKeep /\ owner[r][g].event = "busy" /\ ack' = ack /\ fault' = fault
      /\ esnap' = esnap /\ gate' = gate /\ led' = led /\ closing' = closing
      /\ drained' = drained /\ co' = co
  BY DEF BitmapLands
<1>3. /\ EngineInv /\ ctl' = ctl /\ Rec' = Rec /\ Txn' = Txn /\ Txn \in Nat
      /\ fault \in BOOLEAN /\ drained \subseteq Helpers /\ DOMAIN ack = Actors
      /\ Rec.old \in Generations
  BY <1>2, EngineFacts
<1>4. /\ owner \in [Ranks -> [Generations -> Bitmaps]] /\ led.slot \in Generations
      /\ Txn # 0 /\ co.uploaded = Txn /\ r \in co.issued /\ g = 1 - Rec.old /\ ~EngineDone
      /\ co.ready \subseteq Ranks
  BY <1>2, <1>3 DEF EngineInv, EngineTyped, EngineBitmaps, EngineDone, Coordinators
<1>5. g # led.slot /\ r \notin co.ready
  BY <1>2, <1>3, <1>4 DEF EngineInv, EngineLed, EngineBitmaps
<1>6. /\ owner' \in [Ranks -> [Generations -> Bitmaps]]
      /\ \A q \in Ranks, k \in Generations :
           /\ owner'[q][k].epoch = owner[q][k].epoch /\ owner'[q][k].map = owner[q][k].map
           /\ (q # r \/ k # g) => owner'[q][k].event = owner[q][k].event
  <2>1. owner[r] \in [Generations -> Bitmaps] /\ owner[r][g] \in Bitmaps
    BY <1>4
  <2>2. PICK b : b = [owner[r][g] EXCEPT !.event = ev]
    OBVIOUS
  <2>3. b \in Bitmaps /\ b.epoch = owner[r][g].epoch /\ b.map = owner[r][g].map
    BY <2>1, <2>2, <1>1 DEF Bitmaps
  <2>4. owner' = [owner EXCEPT ![r][g] = b]
    BY <1>1, <2>2
  <2> QED
    BY <2>1, <2>3, <2>4, <1>4
<1>7. EngineTyped' /\ EngineGate' /\ EngineSeen'
  <2>1. EngineTyped'
    BY <1>2, <1>3, <1>6 DEF EngineInv, EngineTyped
  <2>2. EngineGate'
    BY <1>2, <1>3 DEF EngineInv, EngineGate
  <2>3. EngineSeen'
    BY <1>2, <1>3 DEF EngineInv, EngineSeen, Seen, GoodCtl, Matches, OldInForce
  <2> QED
    BY <2>1, <2>2, <2>3
<1>8. EngineLed'
  <2>1. \A q \in Ranks : /\ owner'[q][led.slot].event = owner[q][led.slot].event
                         /\ owner'[q][led.slot].map = owner[q][led.slot].map
    BY <1>4, <1>5, <1>6
  <2> QED
    BY <2>1, <1>2, <1>3 DEF EngineInv, EngineLed, LedAtCtl, LedBehind, LedMap
<1>9. EngineBitmaps'
  <2>1. 1 - Rec.old \in Generations
    BY <1>3 DEF Generations
  <2>2. co.issued \subseteq Ranks
    BY <1>3 DEF EngineInv, EngineTyped, Coordinators
  <2>3. EngineBitmaps
    BY <1>3 DEF EngineInv
  <2>4. \A q \in co.issued : /\ owner'[q][1 - Rec.old].epoch = Rec.epoch + 1
                            /\ owner'[q][1 - Rec.old].map = Rec.to
    BY <2>1, <2>2, <2>3, <1>4, <1>6 DEF EngineBitmaps
  <2>5. \A q \in co.ready : owner'[q][1 - Rec.old].event = "done"
    BY <2>1, <2>3, <1>4, <1>5, <1>6 DEF EngineBitmaps
  <2>6. \A q \in Ranks, k \in Generations : owner'[q][k].event \in {"busy", "failed"} =>
          Txn # 0 /\ co.uploaded = Txn /\ q \in co.issued /\ k = 1 - Rec.old
    BY <2>3, <1>4, <1>6 DEF EngineBitmaps
  <2> QED
    BY <2>3, <2>4, <2>5, <2>6, <1>2, <1>3 DEF EngineBitmaps, OldInForce
<1>10. ASSUME NEW q \in Ranks PROVE RankAck(q)'
  BY <1>2, <1>3, <1>4 DEF EngineInv, RankAck
<1>11. EngineInv'
  BY <1>7, <1>8, <1>9, <1>10 DEF EngineInv
<1> QED
  BY <1>2, <1>3, <1>11, EngineOnly

\* What a step in COPYING does to the bitmaps and the coordinator: q are the
\* ranks whose upload it queues, l those whose bank it clears in vain, d those
\* whose copy it finds complete.
Uploads(c, q, l, d) ==
  /\ q \subseteq Ranks \ Issued(c) /\ l \subseteq Ranks \ Issued(c) /\ q \cap l = {}
  /\ \A r \in q \cup l : MayUpload(r, c)
  /\ d \subseteq Issued(c) /\ \A r \in d : owner[r][PendSlot(c)].event = "done"
  /\ owner' = [r \in Ranks |->
       IF r \in q THEN [owner[r] EXCEPT ![PendSlot(c)] =
                          [epoch |-> PendEpoch(c), map |-> c.cand, event |-> "busy"]]
       ELSE IF r \in l THEN [owner[r] EXCEPT ![PendSlot(c)] = NoBitmap] ELSE owner[r]]
  /\ co' \in Coordinators /\ co'.uploaded = c.txn /\ co'.issued = Issued(c) \cup q
  /\ co'.ready = ReadyRanks(c) \cup d /\ co'.closed = co.closed /\ co'.oldEpoch = co.oldEpoch

\* ... and to the acknowledgements.
Copied(c, q, l, d) ==
  /\ Uploads(c, q, l, d)
  /\ \/ PublishAll(Ranks, PhaseAck(c, "READY", TRUE))
     \/ KeepAll(d \ ReadyRanks(c), PhaseAck(c, "READY", FALSE))

\* What the coordinator knows of the transaction it is in.
LEMMA IssuedFacts ==
  ASSUME PlacementInv, Stepping("COPYING"), NEW c, c = esnap
  PROVE  /\ Issued(c) \subseteq Ranks /\ ReadyRanks(c) \subseteq Issued(c)
         /\ PendSlot(c) = 1 - Rec.old /\ PendEpoch(c) = Rec.epoch + 1 /\ c.cand = Rec.to
         /\ PendSlot(c) \in Generations /\ PendEpoch(c) \in Nat /\ c.cand \in OwnerMaps
         /\ \A r \in Issued(c) : /\ owner[r][PendSlot(c)].epoch = PendEpoch(c)
                                 /\ owner[r][PendSlot(c)].map = c.cand
         /\ \A r \in ReadyRanks(c) : owner[r][PendSlot(c)].event = "done"
         /\ \A r \in Ranks, g \in Generations :
              owner[r][g].event \in {"busy", "failed"} => r \in Issued(c) /\ g = PendSlot(c)
         /\ ctl.state \in FromPrepared \/ Rec.committed => ReadyRanks(c) = Ranks
         /\ ctl.state \notin {"PROPOSED", "RESERVING"} /\ (~Rec.committed => OldInForce)
<1>1. EngineInv /\ CtlInv /\ Rec.old \in Generations /\ Rec.epoch \in Nat
  BY RecordFacts DEF PlacementInv
<1>2. /\ c.state = "COPYING" /\ GoodCtl(c) /\ c \in Controls /\ Matches(c) /\ c.txn = Txn
      /\ Txn # 0
  BY StepFacts
<1>3. /\ PendSlot(c) = 1 - Rec.old /\ PendEpoch(c) = Rec.epoch + 1 /\ c.cand = Rec.to
      /\ c.cand \in OwnerMaps
  BY <1>2, ControlFacts DEF Matches, Committing, GoodCtl
<1>4. PendSlot(c) \in Generations /\ PendEpoch(c) \in Nat
  BY <1>1, <1>3 DEF Generations
<1>5. ctl.state \notin {"PROPOSED", "RESERVING"} /\ (~Rec.committed => OldInForce)
  BY <1>2 DEF Matches, FromCopying
<1>6. Issued(c) \subseteq Ranks /\ ReadyRanks(c) \subseteq Issued(c)
  BY <1>1 DEF Issued, ReadyRanks, EngineInv, EngineTyped, Coordinators, EngineBitmaps
<1>7. /\ \A r \in Issued(c) : /\ owner[r][PendSlot(c)].epoch = PendEpoch(c)
                              /\ owner[r][PendSlot(c)].map = c.cand
      /\ \A r \in ReadyRanks(c) : owner[r][PendSlot(c)].event = "done"
      /\ \A r \in Ranks, g \in Generations :
           owner[r][g].event \in {"busy", "failed"} => r \in Issued(c) /\ g = PendSlot(c)
      /\ ctl.state \in FromPrepared \/ Rec.committed => ReadyRanks(c) = Ranks
  BY <1>1, <1>2, <1>3 DEF Issued, ReadyRanks, EngineInv, EngineBitmaps
<1> QED
  BY <1>3, <1>4, <1>5, <1>6, <1>7

\* Every way a step in COPYING may go.
LEMMA CopyingUploads ==
  ASSUME PlacementInv, EngineCopying
  PROVE  /\ Stepping("COPYING") /\ HelpersKeep /\ esnap' = NoSnap /\ fault' = fault
         /\ gate' = gate /\ led' = led /\ closing' = closing /\ drained' = drained
         /\ \E q, l, d \in SUBSET Ranks : Copied(esnap, q, l, d)
<1> DEFINE c == esnap
           s == PendSlot(c)
           todo == Ranks \ Issued(c)
           queued == [epoch |-> PendEpoch(c), map |-> c.cand, event |-> "busy"]
           upload(q, l) == [r \in Ranks |->
             IF r \in q THEN [owner[r] EXCEPT ![s] = queued]
             ELSE IF r \in l THEN [owner[r] EXCEPT ![s] = NoBitmap] ELSE owner[r]]
           landed == {r \in Issued(c) : owner[r][s].event = "done" /\ Pending(c)}
           seen == [co EXCEPT !.uploaded = c.txn, !.issued = Issued(c),
                              !.ready = ReadyRanks(c),
                              !.committed = IF co.uploaded = c.txn THEN @ ELSE {}]
           refused == PublishAll(Ranks, PhaseAck(c, "READY", TRUE))
<1>1. /\ Stepping("COPYING") /\ HelpersKeep /\ esnap' = NoSnap /\ fault' = fault
      /\ gate' = gate /\ led' = led /\ closing' = closing /\ drained' = drained
  <2>1. /\ Stepping("COPYING") /\ EndStep /\ HelpersKeep
        /\ UNCHANGED <<fault, gate, led, closing, drained>>
    BY Zenon DEF EngineCopying
  <2> QED
    BY <2>1 DEF EndStep
<1>2. \/ refused /\ co' = seen /\ owner' = owner
      \/ /\ \A r \in todo : MayUpload(r, c)
         /\ owner' = upload(todo, {})
         /\ co' = [seen EXCEPT !.issued = Ranks, !.ready = @ \cup landed]
         /\ KeepAll(landed \ ReadyRanks(c), PhaseAck(c, "READY", FALSE))
      \/ /\ refused
         /\ \E bad \in todo, q \in SUBSET {r \in todo : MayUpload(r, c)} :
              /\ bad \notin q
              /\ owner' = upload(q, {bad} \cap {r \in todo : MayUpload(r, c)})
              /\ co' = [seen EXCEPT !.issued = @ \cup q]
  BY Zenon DEF EngineCopying
<1>3. /\ co \in Coordinators /\ owner \in [Ranks -> [Generations -> Bitmaps]]
      /\ Issued(c) \subseteq Ranks /\ ReadyRanks(c) \subseteq Issued(c)
      /\ c.txn \in 0 .. MaxTxn
  BY <1>1, IssuedFacts, StepFacts, ControlFacts DEF PlacementInv, EngineInv, EngineTyped
<1>4. seen \in Coordinators /\ seen.uploaded = c.txn /\ seen.issued = Issued(c)
      /\ seen.ready = ReadyRanks(c) /\ seen.closed = co.closed /\ seen.oldEpoch = co.oldEpoch
  BY <1>3 DEF Coordinators
<1>5. landed \subseteq Issued(c) /\ \A r \in landed : owner[r][s].event = "done"
  OBVIOUS
<1>6. upload({}, {}) = owner
  BY <1>3
<1> HIDE DEF seen, landed, c
<1>7. ASSUME refused /\ co' = seen /\ owner' = owner
      PROVE  \E v, l, d \in SUBSET Ranks : Copied(c, v, l, d)
  <2>1. Uploads(c, {}, {}, {})
    BY <1>3, <1>4, <1>6, <1>7 DEF Uploads
  <2>2. Copied(c, {}, {}, {})
    BY <2>1, <1>7 DEF Copied
  <2> QED
    BY <2>2
<1>8. ASSUME /\ \A r \in todo : MayUpload(r, c)
             /\ owner' = upload(todo, {})
             /\ co' = [seen EXCEPT !.issued = Ranks, !.ready = @ \cup landed]
             /\ KeepAll(landed \ ReadyRanks(c), PhaseAck(c, "READY", FALSE))
      PROVE  \E v, l, d \in SUBSET Ranks : Copied(c, v, l, d)
  <2>1. /\ co' \in Coordinators /\ co'.uploaded = c.txn /\ co'.issued = Ranks
        /\ co'.ready = ReadyRanks(c) \cup landed /\ co'.closed = co.closed
        /\ co'.oldEpoch = co.oldEpoch
    BY <1>3, <1>4, <1>5, <1>8 DEF Coordinators
  <2>2. Ranks = Issued(c) \cup todo
    BY <1>3
  <2>3. Uploads(c, todo, {}, landed)
    BY <1>5, <1>8, <2>1, <2>2 DEF Uploads
  <2>4. Copied(c, todo, {}, landed)
    BY <2>3, <1>8 DEF Copied
  <2> QED
    BY <2>4, <1>3, <1>5
<1>9. ASSUME refused, NEW bad \in todo, NEW q \in SUBSET {r \in todo : MayUpload(r, c)},
             bad \notin q, owner' = upload(q, {bad} \cap {r \in todo : MayUpload(r, c)}),
             co' = [seen EXCEPT !.issued = @ \cup q]
      PROVE  \E v, l, d \in SUBSET Ranks : Copied(c, v, l, d)
  <2>1. PICK l : l = {bad} \cap {r \in todo : MayUpload(r, c)}
    OBVIOUS
  <2>2. /\ co' \in Coordinators /\ co'.uploaded = c.txn /\ co'.issued = Issued(c) \cup q
        /\ co'.ready = ReadyRanks(c) /\ co'.closed = co.closed
        /\ co'.oldEpoch = co.oldEpoch
    BY <1>3, <1>4, <1>9 DEF Coordinators
  <2>3. l \subseteq todo /\ q \subseteq todo /\ q \cap l = {} /\ \A r \in q \cup l : MayUpload(r, c)
    BY <1>9, <2>1
  <2>4. owner' = upload(q, l)
    BY <1>9, <2>1
  <2>5. Uploads(c, q, l, {})
    BY <2>2, <2>3, <2>4 DEF Uploads
  <2>6. Copied(c, q, l, {})
    BY <2>5, <1>9 DEF Copied
  <2> QED
    BY <2>3, <2>6
<1>10. \E v, l, d \in SUBSET Ranks : Copied(c, v, l, d)
  <2> HIDE DEF todo, upload, refused
  <2> QED
    BY <1>2, <1>7, <1>8, <1>9
<1> QED
  BY <1>1, <1>10 DEF c

\* The uploads leave the bank in use alone, and the others name the pending map.
LEMMA UploadsKeep ==
  ASSUME PlacementInv, Stepping("COPYING"), HelpersKeep, NEW c, c = esnap,
         NEW q, NEW l, NEW d, Uploads(c, q, l, d), gate' = gate, fault' = fault,
         led' = led, closing' = closing
  PROVE  EngineTyped' /\ EngineLed' /\ EngineBitmaps'
<1>1. /\ EngineInv /\ ctl' = ctl /\ Rec' = Rec /\ Txn' = Txn /\ Txn \in Nat
      /\ Rec.old \in Generations
  BY EngineFacts
<1>2. c.txn = Txn /\ Txn # 0
  BY StepFacts
<1>3. PICK s : s = PendSlot(c)
  OBVIOUS
<1>4. /\ Issued(c) \subseteq Ranks /\ ReadyRanks(c) \subseteq Issued(c)
      /\ s = 1 - Rec.old /\ PendEpoch(c) = Rec.epoch + 1 /\ c.cand = Rec.to
      /\ s \in Generations /\ PendEpoch(c) \in Nat /\ c.cand \in OwnerMaps
      /\ \A r \in Issued(c) : owner[r][s].epoch = PendEpoch(c) /\ owner[r][s].map = c.cand
      /\ \A r \in ReadyRanks(c) : owner[r][s].event = "done"
      /\ \A r \in Ranks, g \in Generations :
           owner[r][g].event \in {"busy", "failed"} => r \in Issued(c) /\ g = s
      /\ ctl.state \in FromPrepared \/ Rec.committed => ReadyRanks(c) = Ranks
      /\ ctl.state \notin {"PROPOSED", "RESERVING"} /\ (~Rec.committed => OldInForce)
  BY <1>3, IssuedFacts
<1>5. /\ owner \in [Ranks -> [Generations -> Bitmaps]] /\ led.slot \in Generations
  BY <1>1 DEF EngineInv, EngineTyped
<1>6. PICK b : b = [epoch |-> PendEpoch(c), map |-> c.cand, event |-> "busy"]
  OBVIOUS
<1>7. /\ b \in Bitmaps /\ b.epoch = Rec.epoch + 1 /\ b.map = Rec.to /\ b.event = "busy"
      /\ NoBitmap \in Bitmaps /\ NoBitmap.event = "none"
  BY <1>4, <1>6 DEF Bitmaps, NoBitmap
<1>8. /\ q \subseteq Ranks \ Issued(c) /\ l \subseteq Ranks \ Issued(c) /\ q \cap l = {}
      /\ \A r \in q \cup l : s # led.slot
      /\ d \subseteq Issued(c) /\ \A r \in d : owner[r][s].event = "done"
      /\ owner' = [r \in Ranks |-> IF r \in q THEN [owner[r] EXCEPT ![s] = b]
           ELSE IF r \in l THEN [owner[r] EXCEPT ![s] = NoBitmap] ELSE owner[r]]
      /\ co' \in Coordinators /\ co'.uploaded = Txn /\ co'.issued = Issued(c) \cup q
      /\ co'.ready = ReadyRanks(c) \cup d
  BY <1>2, <1>3, <1>6 DEF Uploads, MayUpload
<1>9. /\ owner' \in [Ranks -> [Generations -> Bitmaps]]
      /\ \A r \in Ranks, g \in Generations :
           /\ r \in q /\ g = s => owner'[r][g] = b
           /\ r \in l /\ g = s => owner'[r][g] = NoBitmap
           /\ (r \notin q /\ r \notin l) \/ g # s => owner'[r][g] = owner[r][g]
  <2>1. ASSUME NEW r \in Ranks
        PROVE  /\ owner'[r] \in [Generations -> Bitmaps]
               /\ \A g \in Generations :
                    /\ r \in q /\ g = s => owner'[r][g] = b
                    /\ r \in l /\ g = s => owner'[r][g] = NoBitmap
                    /\ (r \notin q /\ r \notin l) \/ g # s => owner'[r][g] = owner[r][g]
    <3>1. owner[r] \in [Generations -> Bitmaps]
      BY <1>5
    <3>2. CASE r \in q
      <4>1. owner'[r] = [owner[r] EXCEPT ![s] = b] /\ r \notin l
        BY <3>2, <1>8
      <4> QED
        BY <3>1, <3>2, <4>1, <1>4, <1>7
    <3>3. CASE r \in l
      <4>1. owner'[r] = [owner[r] EXCEPT ![s] = NoBitmap] /\ r \notin q
        BY <3>3, <1>8
      <4> QED
        BY <3>1, <3>3, <4>1, <1>4, <1>7
    <3>4. CASE r \notin q /\ r \notin l
      BY <3>1, <3>4, <1>8
    <3> QED
      BY <3>2, <3>3, <3>4
  <2>2. owner' = [r \in Ranks |-> owner'[r]]
    BY <1>8
  <2> QED
    BY <2>1, <2>2
<1>10. EngineTyped'
  BY <1>1, <1>8, <1>9 DEF EngineInv, EngineTyped
<1>11. EngineLed'
  <2>1. \A r \in Ranks : owner'[r][led.slot] = owner[r][led.slot]
    BY <1>5, <1>8, <1>9
  <2> QED
    BY <2>1, <1>1 DEF EngineInv, EngineLed, LedAtCtl, LedBehind, LedMap
<1>12. EngineBitmaps'
  <2>1. co'.ready \subseteq co'.issued
    BY <1>4, <1>8
  <2>2. ASSUME NEW r \in co'.issued
        PROVE  owner'[r][s].epoch = Rec.epoch + 1 /\ owner'[r][s].map = Rec.to
    BY <2>2, <1>4, <1>7, <1>8, <1>9
  <2>3. ASSUME NEW r \in co'.ready
        PROVE  owner'[r][s].event = "done"
    BY <2>3, <1>4, <1>7, <1>8, <1>9
  <2>4. ASSUME NEW r \in Ranks, NEW g \in Generations,
               owner'[r][g].event \in {"busy", "failed"}
        PROVE  r \in co'.issued /\ g = s
    BY <2>4, <1>4, <1>7, <1>8, <1>9
  <2>5. ctl.state \in FromPrepared \/ Rec.committed => co'.ready = Ranks
    BY <1>4, <1>8
  <2>6. /\ s = 1 - Rec.old /\ ctl.state \notin {"PROPOSED", "RESERVING"}
        /\ (~Rec.committed => OldInForce) /\ co'.uploaded = Txn /\ Txn <= Txn
    BY <1>1, <1>4, <1>8
  <2>7. /\ \A r \in co'.issued : /\ owner'[r][1 - Rec'.old].epoch = Rec'.epoch + 1
                                /\ owner'[r][1 - Rec'.old].map = Rec'.to
        /\ \A r \in co'.ready : owner'[r][1 - Rec'.old].event = "done"
        /\ \A r \in Ranks, g \in Generations :
             owner'[r][g].event \in {"busy", "failed"} => r \in co'.issued /\ g = 1 - Rec'.old
    BY <2>2, <2>3, <2>4, <2>6, <1>1
  <2>8. /\ ctl'.state \notin {"PROPOSED", "RESERVING"} /\ (~Rec'.committed => OldInForce')
        /\ co'.uploaded = Txn' /\ Txn' # 0 /\ Txn' <= Txn'
        /\ (ctl'.state \in FromPrepared \/ Rec'.committed => co'.ready = Ranks)
    BY <2>5, <2>6, <1>1, <1>2 DEF OldInForce
  <2> QED
    BY <2>1, <2>7, <2>8 DEF EngineBitmaps
<1> QED
  BY <1>10, <1>11, <1>12

\* COPYING: the bitmaps of the candidate are uploaded and found complete.
LEMMA EngineCopyingKeeps ==
  ASSUME PlacementInv, EngineCopying
  PROVE  PlacementInv'
<1> PICK c : c = esnap
  OBVIOUS
<1>1. /\ Stepping("COPYING") /\ HelpersKeep /\ esnap' = NoSnap /\ fault' = fault
      /\ gate' = gate /\ led' = led /\ closing' = closing /\ drained' = drained
  BY CopyingUploads
<1>2. PICK q, l, d \in SUBSET Ranks : Copied(c, q, l, d)
  BY CopyingUploads
<1>2a. /\ Uploads(c, q, l, d)
       /\ \/ PublishAll(Ranks, PhaseAck(c, "READY", TRUE))
          \/ KeepAll(d \ ReadyRanks(c), PhaseAck(c, "READY", FALSE))
  BY <1>2 DEF Copied
<1>3. /\ EngineInv /\ ctl' = ctl /\ Rec' = Rec /\ Txn' = Txn /\ Txn \in Nat
      /\ fault \in BOOLEAN /\ drained \subseteq Helpers /\ DOMAIN ack = Actors
  BY <1>1, EngineFacts
<1>4. /\ c # NoSnap /\ ~closing /\ GoodCtl(c) /\ c.txn = Txn /\ ~EngineDone /\ Txn # 0
      /\ c.state = "COPYING"
  BY <1>1, StepFacts
<1>5. /\ co'.uploaded = Txn /\ co'.ready = ReadyRanks(c) \cup d
      /\ co'.closed = co.closed /\ co'.oldEpoch = co.oldEpoch
  BY <1>2a, <1>4 DEF Uploads
<1>6. EngineTyped' /\ EngineLed' /\ EngineBitmaps'
  BY <1>1, <1>2a, UploadsKeep
<1>7. EngineGate' /\ EngineSeen'
  BY <1>1, <1>3, <1>4, <1>5 DEF EngineInv, EngineGate, EngineSeen, Seen
<1>8. /\ DOMAIN ack' = Actors /\ (\A h \in Helpers : ack'[h] = ack[h])
      /\ \A r \in Ranks : \/ ack'[r] = ack[r]
                          \/ ack'[r] = PhaseAck(c, "READY", TRUE)
                          \/ ack'[r] = PhaseAck(c, "READY", FALSE) /\ r \in co'.ready
  <2>1. Ranks \in SUBSET Ranks /\ d \ ReadyRanks(c) \in SUBSET Ranks
    OBVIOUS
  <2>2. CASE PublishAll(Ranks, PhaseAck(c, "READY", TRUE))
    <3>1. PICK new : new = PhaseAck(c, "READY", TRUE)
      OBVIOUS
    <3>2. PublishAll(Ranks, new)
      BY <2>2, <3>1
    <3>3. /\ DOMAIN ack' = Actors /\ (\A h \in Helpers : ack'[h] = ack[h])
          /\ \A r \in Ranks : ack'[r] = new
      BY <2>1, <3>2, <1>3, RanksPublish
    <3> QED
      BY <3>1, <3>3
  <2>3. CASE KeepAll(d \ ReadyRanks(c), PhaseAck(c, "READY", FALSE))
    <3>1. /\ DOMAIN ack' = Actors /\ (\A h \in Helpers : ack'[h] = ack[h])
          /\ \A r \in Ranks : r \notin d \ ReadyRanks(c) => ack'[r] = ack[r]
          /\ \A r \in d \ ReadyRanks(c) :
               ack'[r] = ack[r] \/ ack'[r] = PhaseAck(c, "READY", FALSE)
      <4>1. PICK new, S : new = PhaseAck(c, "READY", FALSE) /\ S = d \ ReadyRanks(c)
        OBVIOUS
      <4>2. KeepAll(S, new) /\ S \in SUBSET Ranks
        BY <2>1, <2>3, <4>1
      <4>3. /\ DOMAIN ack' = Actors /\ (\A h \in Helpers : ack'[h] = ack[h])
            /\ \A r \in Ranks : r \notin S => ack'[r] = ack[r]
            /\ \A r \in S : ack'[r] = ack[r] \/ ack'[r] = new
        BY <4>2, <1>3, RanksPublish
      <4> QED
        BY <4>1, <4>3
    <3> QED
      BY <3>1, <1>5
  <2> QED
    BY <2>2, <2>3, <1>2a
<1>9. ASSUME NEW bad \in BOOLEAN
      PROVE  /\ PhaseAck(c, "READY", bad) \in Acks /\ PhaseAck(c, "READY", bad).txn = Txn
             /\ PhaseAck(c, "READY", bad).phase = "READY"
             /\ PhaseAck(c, "READY", bad).fault = bad
  BY <1>4, AckFacts
<1>10. ASSUME NEW r \in Ranks PROVE RankAck(r)'
  <2>1. co.uploaded = Txn /\ r \in co.ready => r \in co'.ready
    BY <1>4, <1>5 DEF ReadyRanks
  <2>2. RankAck(r)
    BY <1>3 DEF EngineInv
  <2>3. CASE ack'[r] = ack[r]
    BY <2>1, <2>2, <2>3, <1>3, <1>4, <1>5 DEF RankAck
  <2>4. CASE ack'[r] = PhaseAck(c, "READY", TRUE)
    <3>1. ack'[r] \in Acks /\ ack'[r].txn = Txn /\ ack'[r].phase = "READY" /\ ack'[r].fault
      BY <2>4, <1>9
    <3> QED
      BY <3>1, <1>3 DEF RankAck
  <2>5. CASE ack'[r] = PhaseAck(c, "READY", FALSE) /\ r \in co'.ready
    <3>1. /\ ack'[r] \in Acks /\ ack'[r].txn = Txn /\ ack'[r].phase = "READY"
          /\ r \in co'.ready /\ co'.uploaded = Txn
      BY <2>5, <1>5, <1>9
    <3> QED
      BY <3>1, <1>3 DEF RankAck
  <2> QED
    BY <2>3, <2>4, <2>5, <1>8
<1>11. EngineInv'
  BY <1>6, <1>7, <1>10 DEF EngineInv
<1> QED
  BY <1>1, <1>3, <1>8, <1>11, EngineOnly

\* ACTIVE after a commit: the ledger reopens on the new generation, or fails.
LEMMA ReopensKeep ==
  ASSUME PlacementInv, EngineReopens
  PROVE  PlacementInv'
<1> PICK c : c = esnap
  OBVIOUS
<1> DEFINE proved ==
             /\ c.epoch = co.oldEpoch + 1 /\ co.ready = Ranks
             /\ \A r \in Ranks : owner[r][c.slot] =
                  [epoch |-> c.epoch, map |-> c.map, event |-> "done"]
             /\ gate' = "open" /\ led' = [epoch |-> c.epoch, slot |-> c.slot]
             /\ Publish(FirstRank, ClosingAck(c, "REOPENED", FALSE))
             /\ co' = [co EXCEPT !.closed = 0, !.oldEpoch = 0]
             /\ fault' = fault
<1>1. /\ Stepping("ACTIVE") /\ HelpersKeep /\ co.closed # 0 /\ drained' = {}
      /\ esnap' = NoSnap /\ closing' = closing /\ owner' = owner
      /\ proved \/ (Fatal /\ led' = led /\ ack' = ack /\ co' = co)
  BY DEF EngineReopens, EndStep
<1>2. /\ EngineInv /\ ctl' = ctl /\ Rec' = Rec /\ Txn' = Txn /\ Txn \in Nat /\ ctl \in Controls
      /\ fault \in BOOLEAN /\ DOMAIN ack = Actors /\ Rec.committed \in BOOLEAN
      /\ Rec.old \in Generations /\ CtlInv
  BY <1>1, EngineFacts
<1>3. /\ c # NoSnap /\ ~closing /\ GoodCtl(c) /\ c.state = "ACTIVE" /\ gate # "faulted" /\ ~fault
      /\ (c.txn = Txn => c = ctl)
  BY <1>1, StepFacts
<1>4. /\ co.closed = Txn /\ Txn # 0 /\ co.oldEpoch = led.epoch /\ c = ctl
  BY <1>1, <1>2, <1>3 DEF EngineInv, EngineGate
<1>5. ctl.state = "ACTIVE" /\ ~EngineDone
  BY <1>1, <1>3, <1>4 DEF EngineDone
<1>6. /\ led \in [epoch : Nat, slot : Generations] /\ co \in Coordinators /\ closing \in BOOLEAN
      /\ owner \in [Ranks -> [Generations -> Bitmaps]] /\ led.epoch \in Nat
      /\ ctl.epoch \in Nat /\ ctl.slot \in Generations
  BY <1>2, ControlFacts DEF EngineInv, EngineTyped
<1>7. CASE proved
  <2>1. Rec.committed
    BY <1>2, <1>4, <1>6, <1>7 DEF EngineInv, EngineLed, LedAtCtl
  <2>2. /\ led' \in [epoch : Nat, slot : Generations] /\ led'.slot = ctl.slot
        /\ led'.epoch = ctl.epoch
    BY <1>4, <1>6, <1>7
  <2>3. /\ co' \in Coordinators /\ co'.closed = 0 /\ co'.uploaded = co.uploaded
        /\ co'.issued = co.issued /\ co'.ready = co.ready
    <3>1. 0 \in 0 .. MaxTxn
      BY BoundAssumption
    <3> QED
      BY <3>1, <1>6, <1>7 DEF Coordinators
  <2>4. \A r \in Ranks : owner[r][ctl.slot].event = "done" /\ owner[r][ctl.slot].map = ctl.map
    BY <1>4, <1>7
  <2>5. EngineTyped'
    BY <2>2, <2>3, <1>1, <1>2, <1>3, <1>6, <1>7 DEF EngineTyped
  <2>6. LedAtCtl' /\ EngineLed'
    <3>1. LedAtCtl'
      BY <2>2, <1>2 DEF LedAtCtl
    <3>2. led'.slot = ctl'.slot /\ LedMap' = ctl.map
      BY <2>2, <1>2 DEF LedMap
    <3>3. \A r \in Ranks : owner'[r][led'.slot].event = "done" /\ owner'[r][led'.slot].map = LedMap'
      BY <3>2, <2>4, <1>1, <1>2
    <3> QED
      BY <3>1, <3>3, <2>1, <1>2, <1>5 DEF EngineLed
  <2>7. EngineBitmaps'
    BY <2>3, <1>1, <1>2 DEF EngineInv, EngineBitmaps, OldInForce
  <2>8. EngineGate' /\ EngineSeen'
    BY <2>1, <2>3, <1>1, <1>2, <1>3, <1>5, <1>7 DEF EngineGate, EngineSeen, Seen, Committing
  <2>9. EngineDone'
    <3>1. ASSUME NEW r \in Ranks, NEW g \in Generations
          PROVE  owner[r][g].event \notin {"busy", "failed"}
      BY <2>1, <1>2, <1>4 DEF EngineInv, EngineBitmaps
    <3> QED
      BY <3>1, <2>3, <2>6, <1>1, <1>2, <1>3, <1>5 DEF EngineDone
  <2> DEFINE new == ClosingAck(c, "REOPENED", FALSE)
  <2>11. new \in Acks /\ new.txn = Txn
    <3>1. new.txn = c.txn /\ new \in Acks
      BY <1>3, AckFacts
    <3> QED
      BY <3>1, <1>4 DEF Txn
  <2>12. FirstRank \in Actors /\ (\A h \in Helpers : h \in Actors /\ h # FirstRank)
         /\ \A r \in Ranks : r \in Actors
    BY ActorsAssumption DEF Actors
  <2>13. Publish(FirstRank, new)
    BY <1>7
  <2> HIDE DEF new
  <2>14. /\ DOMAIN ack' = Actors /\ \A a \in Actors : a # FirstRank => ack'[a] = ack[a]
         /\ ack'[FirstRank] = new
    BY <2>12, <2>13, <1>2, PublishFacts
  <2>15. ASSUME NEW r \in Ranks PROVE RankAck(r)'
    BY <2>9, <2>11, <2>12, <2>14, <1>2, <1>5 DEF EngineInv, RankAck
  <2>16. EngineInv'
    BY <2>5, <2>6, <2>7, <2>8, <2>15 DEF EngineInv
  <2>17. fault' = fault /\ drained' \subseteq Helpers /\ \A h \in Helpers : ack'[h] = ack[h]
    BY <2>12, <2>14, <1>1, <1>7
  <2> QED
    BY <2>2, <2>14, <2>16, <2>17, <1>1, <1>2, EngineOnly
<1>8. CASE Fatal /\ led' = led /\ ack' = ack /\ co' = co
  <2>1. gate' = "faulted" /\ fault' = TRUE
    BY <1>8 DEF Fatal
  <2>2. EngineTyped'
    BY <2>1, <1>1, <1>6, <1>8 DEF EngineTyped
  <2>3. EngineLed' /\ EngineBitmaps'
    BY <2>1, <1>1, <1>2, <1>8, EngineParts
  <2>4. EngineGate' /\ EngineSeen'
    BY <2>1, <1>1, <1>2, <1>3, <1>4, <1>5, <1>8 DEF EngineGate, EngineSeen, Seen, Committing
  <2>5. ASSUME NEW r \in Ranks PROVE RankAck(r)'
    BY <1>2, <1>5, <1>8 DEF EngineInv, RankAck
  <2>6. EngineInv'
    BY <2>2, <2>3, <2>4, <2>5 DEF EngineInv
  <2>7. drained' \subseteq Helpers
    BY <1>1
  <2> QED
    BY <2>1, <2>6, <2>7, <1>1, <1>2, <1>8, EngineOnly
<1> QED
  BY <1>1, <1>7, <1>8

\* Only the transaction the control names can have been aborted.
LEMMA AbortedIsLast ==
  ASSUME CtlInv, NEW c, GoodCtl(c), c.txn <= Txn, c.txn = Txn => c = ctl, Aborted(c)
  PROVE  c = ctl /\ Txn # 0 /\ ~Rec.committed
<1>1. /\ ctl.jix \in 0 .. 1 /\ Rec = journal[ctl.jix] /\ Rec.txn = Txn
      /\ journal[1 - ctl.jix].txn # 0 => journal[1 - ctl.jix].committed
  BY RecordFacts DEF CtlInv, JournalOK
<1>2. c.jix \in 0 .. 1
  BY ControlFacts DEF GoodCtl
<1>3. /\ c.txn # 0 /\ journal[c.jix].txn = c.txn /\ ~journal[c.jix].committed
  BY DEF Aborted, Record
<1>4. c.jix = ctl.jix
  <2>1. c.jix = ctl.jix \/ c.jix = 1 - ctl.jix
    BY <1>1, <1>2
  <2> QED
    BY <2>1, <1>1, <1>3
<1> QED
  BY <1>1, <1>3, <1>4

\* ACTIVE after an abort: the ranks certify the inactive bank.
LEMMA CleansKeep ==
  ASSUME PlacementInv, EngineCleans
  PROVE  PlacementInv'
<1> PICK c : c = esnap
  OBVIOUS
<1> DEFINE s == 1 - Record(c).old
           emptied == [co EXCEPT !.issued = {}, !.ready = {}, !.committed = {}, !.uploaded = 0]
<1>1. /\ Stepping("ACTIVE") /\ HelpersKeep /\ co.closed = 0 /\ Aborted(c)
      /\ esnap' = NoSnap /\ fault' = fault /\ gate' = gate /\ led' = led
      /\ closing' = closing /\ drained' = drained /\ owner' = owner
      /\ \/ ack' = ack /\ co' = co
         \/ /\ co' = [co EXCEPT !.badAbort = c.txn]
            /\ \E r \in Issued(c) : Publish(r, ClosingAck(c, "CLEANED", TRUE))
         \/ /\ \A r \in Issued(c) : owner[r][s].event = "done"
            /\ PublishAll(Ranks, ClosingAck(c, "CLEANED", FALSE))
            /\ co' = emptied
  BY DEF EngineCleans, EndStep
<1>2. /\ EngineInv /\ ctl' = ctl /\ Rec' = Rec /\ Txn' = Txn /\ Txn \in Nat /\ ctl \in Controls
      /\ fault \in BOOLEAN /\ DOMAIN ack = Actors /\ drained \subseteq Helpers
      /\ Rec.old \in Generations /\ CtlInv
  BY <1>1, EngineFacts
<1>3. /\ ~closing /\ GoodCtl(c) /\ c.state = "ACTIVE" /\ c.txn <= Txn
      /\ (c.txn = Txn => c = ctl)
  BY <1>1, StepFacts
<1>4. c = ctl /\ Txn # 0 /\ ~Rec.committed
  BY <1>1, <1>2, <1>3, AbortedIsLast
<1>5. /\ ctl.state = "ACTIVE" /\ c.txn = Txn /\ Record(c) = Rec /\ LedAtCtl
  BY <1>2, <1>3, <1>4 DEF Rec, Txn, EngineInv, EngineLed
<1>6. co \in Coordinators /\ co.closed = 0 /\ Txn \in 0 .. MaxTxn /\ Issued(c) \subseteq Ranks
  BY <1>1, <1>2, ControlFacts DEF EngineInv, EngineTyped, Txn, Coordinators, Issued
<1>7. ASSUME NEW bad \in BOOLEAN
      PROVE  /\ ClosingAck(c, "CLEANED", bad) \in Acks
             /\ ClosingAck(c, "CLEANED", bad).txn = Txn
             /\ ClosingAck(c, "CLEANED", bad).phase = "CLEANED"
             /\ ClosingAck(c, "CLEANED", bad).fault = bad
  BY <1>3, <1>5, AckFacts
<1>8. /\ FirstRank \in Actors /\ (\A h \in Helpers : h \in Actors /\ h \notin Ranks)
      /\ \A r \in Ranks : r \in Actors
  BY ActorsAssumption DEF Actors
<1>9. ASSUME co' \in Coordinators, co'.closed = 0, EngineBitmaps',
             DOMAIN ack' = Actors, \A h \in Helpers : ack'[h] = ack[h],
             \A r \in Ranks : RankAck(r)'
      PROVE  PlacementInv'
  <2>1. EngineTyped'
    BY <1>1, <1>2, <1>9 DEF EngineInv, EngineTyped
  <2>2. EngineLed'
    BY <1>1, <1>2 DEF EngineInv, EngineLed, LedAtCtl, LedBehind, LedMap
  <2>3. EngineGate' /\ EngineSeen'
    BY <1>1, <1>2, <1>3, <1>5, <1>6, <1>9 DEF EngineInv, EngineGate, EngineSeen, Seen, Committing
  <2>4. EngineInv'
    BY <2>1, <2>2, <2>3, <1>9 DEF EngineInv
  <2> QED
    BY <2>4, <1>1, <1>2, <1>9, EngineOnly
<1>10. EngineDone /\ co'.closed = 0 => EngineDone'
  BY <1>1, <1>2 DEF EngineDone, LedAtCtl
<1>11. co'.uploaded = co.uploaded /\ co'.issued = co.issued /\ co'.ready = co.ready
         => EngineBitmaps'
  BY <1>1, <1>2, EngineParts
<1>12. CASE ack' = ack /\ co' = co
  <2>1. ASSUME NEW r \in Ranks PROVE RankAck(r)'
    BY <1>2, <1>5, <1>6, <1>10, <1>12 DEF EngineInv, RankAck
  <2> QED
    BY <2>1, <1>2, <1>6, <1>9, <1>11, <1>12
<1>13. ASSUME co' = [co EXCEPT !.badAbort = c.txn], NEW q \in Issued(c),
              Publish(q, ClosingAck(c, "CLEANED", TRUE))
       PROVE  PlacementInv'
  <2>1. /\ co' \in Coordinators /\ co'.closed = 0 /\ co'.uploaded = co.uploaded
        /\ co'.issued = co.issued /\ co'.ready = co.ready
    BY <1>5, <1>6, <1>13 DEF Coordinators
  <2>2. PICK new : new = ClosingAck(c, "CLEANED", TRUE)
    OBVIOUS
  <2>3. new \in Acks /\ new.txn = Txn /\ new.phase = "CLEANED" /\ new.fault
    BY <2>2, <1>7
  <2>4. q \in Ranks /\ q \in Actors /\ Publish(q, new)
    BY <2>2, <1>6, <1>8, <1>13
  <2>5. /\ DOMAIN ack' = Actors /\ \A a \in Actors : a # q => ack'[a] = ack[a]
        /\ ack'[q] = new
    BY <2>4, <1>2, PublishFacts
  <2>6. ASSUME NEW r \in Ranks PROVE RankAck(r)'
    <3>1. CASE r = q
      BY <3>1, <2>3, <2>5, <1>2, <1>5 DEF RankAck
    <3>2. CASE r # q
      BY <3>2, <2>1, <2>5, <1>2, <1>5, <1>8, <1>10 DEF EngineInv, RankAck
    <3> QED
      BY <3>1, <3>2
  <2>7. \A h \in Helpers : ack'[h] = ack[h]
    BY <2>4, <2>5, <1>8
  <2> QED
    BY <2>1, <2>5, <2>6, <2>7, <1>9, <1>11
<1>14. CASE /\ \A r \in Issued(c) : owner[r][s].event = "done"
            /\ PublishAll(Ranks, ClosingAck(c, "CLEANED", FALSE))
            /\ co' = emptied
  <2>1. /\ co' \in Coordinators /\ co'.closed = 0 /\ co'.uploaded = 0
        /\ co'.issued = {} /\ co'.ready = {}
    <3>1. 0 \in 0 .. MaxTxn
      BY BoundAssumption
    <3> QED
      BY <3>1, <1>6, <1>14 DEF Coordinators
  <2>2. ASSUME NEW r \in Ranks, NEW g \in Generations
        PROVE  owner[r][g].event \notin {"busy", "failed"}
    BY <1>2, <1>5, <1>14 DEF EngineInv, EngineBitmaps, Issued
  <2>3. EngineBitmaps'
    BY <2>1, <2>2, <1>1, <1>2, <1>4, <1>5 DEF EngineBitmaps, FromPrepared
  <2>4. EngineDone'
    BY <2>1, <2>2, <1>1, <1>2, <1>3, <1>5 DEF EngineDone, LedAtCtl
  <2> DEFINE new == ClosingAck(c, "CLEANED", FALSE)
  <2>6. new \in Acks /\ new.txn = Txn /\ new.phase = "CLEANED"
    BY <1>7
  <2>7. PublishAll(Ranks, new) /\ Ranks \in SUBSET Ranks
    BY <1>14
  <2> HIDE DEF new
  <2>8. /\ DOMAIN ack' = Actors /\ (\A h \in Helpers : ack'[h] = ack[h])
        /\ \A r \in Ranks : ack'[r] = new
    BY <2>7, <1>2, RanksPublish
  <2>9. ASSUME NEW r \in Ranks PROVE RankAck(r)'
    BY <2>4, <2>6, <2>8, <1>2, <1>5 DEF RankAck
  <2> QED
    BY <2>1, <2>3, <2>8, <2>9, <1>9
<1> QED
  BY <1>1, <1>12, <1>13, <1>14

\* Every step of the engine.
LEMMA EngineKeeps ==
  ASSUME PlacementInv, EngineStep
  PROVE  PlacementInv'
BY StopsAndIdlesKeep, PhasesKeep, EngineCopyingKeeps, ClosesGateKeep, DrainedKeeps,
   ReopensKeep, CleansKeep DEF EngineStep

\* Stuttering.
LEMMA StutterKeeps ==
  ASSUME PlacementInv, UNCHANGED placementVars
  PROVE  PlacementInv'
<1>1. /\ HelpersKeep /\ ack' = ack /\ fault' = fault /\ esnap' = esnap /\ gate' = gate
      /\ led' = led /\ closing' = closing /\ drained' = drained /\ owner' = owner /\ co' = co
  BY DEF placementVars, HelpersKeep, engineVars
<1>2. /\ EngineInv /\ CtlInv /\ ctl' = ctl /\ Rec' = Rec /\ Txn' = Txn
      /\ fault \in BOOLEAN /\ drained \subseteq Helpers /\ DOMAIN ack = Actors
  BY <1>1, EngineFacts
<1>3. EngineTyped' /\ EngineLed' /\ EngineBitmaps'
  BY <1>1, <1>2, EngineParts DEF EngineInv, EngineTyped
<1>4. EngineGate'
  BY <1>1, <1>2 DEF EngineInv, EngineGate
<1>5. EngineSeen'
  BY <1>1, <1>2 DEF EngineInv, EngineSeen, Seen, GoodCtl, Matches, OldInForce
<1>6. EngineDone => EngineDone'
  BY <1>1, <1>2 DEF EngineDone, LedAtCtl
<1>7. ASSUME NEW r \in Ranks PROVE RankAck(r)'
  BY <1>1, <1>2, <1>6 DEF EngineInv, RankAck
<1>8. EngineInv'
  BY <1>3, <1>4, <1>5, <1>7 DEF EngineInv
<1> QED
  BY <1>1, <1>2, <1>8, EngineOnly

\* PlacementInv is inductive.
LEMMA PlacementStepKeeps ==
  ASSUME PlacementInv, [PlacementNext]_placementVars
  PROVE  PlacementInv'
<1>1. CASE UNCHANGED placementVars
  BY <1>1, StutterKeeps
<1>2. ASSUME NEW h \in Helpers,
             Snapshot(h) \/ Tick(h) \/ StreamStep(h) \/ LanesDrain(h) \/ HelperDies(h)
      PROVE  PlacementInv'
  BY <1>2, SnapshotKeeps, TicksKeep, EnvironmentKeeps
<1>3. CASE WatchRaises
  <2>1. Leader \in Helpers
    BY ActorsAssumption
  <2> QED
    BY <2>1, <1>3, EnvironmentKeeps
<1>4. ASSUME NEW r \in Ranks, NEW g \in Generations, BitmapLands(r, g)
      PROVE  PlacementInv'
  BY <1>4, BitmapLandsKeeps
<1>5. CASE ControllerStep \/ EngineLooks \/ EngineStep
  BY <1>5, ControllerKeeps, LooksKeep, EngineKeeps
<1> QED
  BY <1>1, <1>2, <1>3, <1>4, <1>5 DEF PlacementNext, Ended

-----------------------------------------------------------------------------
(* The initial state.                                                      *)

\* Bootstrap publishes the initial map in generation zero, transaction zero.
LEMMA ControlStarts ==
  ASSUME PlacementInit
  PROVE  /\ ctl.state = "ACTIVE" /\ Txn = 0 /\ ctl.epoch = 1 /\ ctl.slot = 0
         /\ ctl.map = InitialOwners /\ ~ctl.fault /\ CtlInv /\ ~Rec.committed
<1>1. ctl = [state |-> "ACTIVE", txn |-> 0, epoch |-> 1, slot |-> 0,
             map |-> InitialOwners, cand |-> NoMap, jix |-> 1, fault |-> FALSE]
  BY DEF PlacementInit
<1>2. /\ journal = [i \in 0 .. 1 |-> NoRecord] /\ fault = FALSE
      /\ lead = [await |-> 0, committed |-> FALSE, last |-> 2, failed |-> FALSE]
  BY DEF PlacementInit
<1>3. InitialOwners \in OwnerMaps /\ 0 \in 0 .. MaxTxn /\ 1 \in 1 .. MaxTxn + 1
      /\ 0 \in 0 .. MaxTxn + 1 /\ 0 \in Generations
  BY OwnersAssumption, BoundAssumption DEF OwnerMaps, Generations
<1>4. "ACTIVE" \in DOMAIN Order
  BY OrderFacts DEF States8
<1>5. ctl \in Controls
  BY <1>1, <1>3, <1>4 DEF Controls
<1>6. NoRecord \in Records /\ NoRecord.txn = 0 /\ NoRecord.committed = FALSE
  BY <1>3 DEF NoRecord, Records
<1>7. journal \in [0 .. 1 -> Records] /\ journal[0] = NoRecord /\ journal[1] = NoRecord
  BY <1>2, <1>6
<1>8. /\ ctl.state = "ACTIVE" /\ Txn = 0 /\ ctl.epoch = 1 /\ ctl.slot = 0 /\ ctl.jix = 1
      /\ ctl.map = InitialOwners /\ ctl.fault = FALSE /\ Rec = NoRecord
  BY <1>1, <1>7 DEF Txn, Rec, Record
<1>9. CtlOK
  <2>1. GoodCtl(ctl)
    BY <1>5, <1>8 DEF GoodCtl, Txn
  <2>2. (ctl.fault => fault) /\ fault \in BOOLEAN
    BY <1>2, <1>8
  <2> QED
    BY <2>1, <2>2 DEF CtlOK
<1>10. JournalOK
  BY <1>6, <1>7, <1>8 DEF JournalOK
<1>11. LeadOK
  <2>1. lead \in Leads
    BY <1>2, <1>3 DEF Leads
  <2> QED
    BY <2>1, <1>2, <1>6, <1>7, <1>8 DEF LeadOK
<1>12. Agree
  BY <1>6, <1>8 DEF Agree
<1> QED
  BY <1>6, <1>8, <1>9, <1>10, <1>11, <1>12 DEF CtlInv

\* The engine starts with admission open on generation zero.
LEMMA EngineStarts ==
  ASSUME PlacementInit
  PROVE  EngineInv
<1>1. /\ ctl.state = "ACTIVE" /\ Txn = 0 /\ ctl.epoch = 1 /\ ctl.slot = 0
      /\ ctl.map = InitialOwners /\ ~Rec.committed
  BY ControlStarts
<1>2. /\ gate = "open" /\ led = [epoch |-> 1, slot |-> 0] /\ esnap = NoSnap
      /\ closing = FALSE /\ ack = [a \in Actors |-> NoAck]
      /\ owner = [r \in Ranks |-> [g \in Generations |->
                IF g = 0 THEN [epoch |-> 1, map |-> InitialOwners, event |-> "done"]
                ELSE NoBitmap]]
      /\ co = [uploaded |-> 0, closed |-> 0, oldEpoch |-> 0,
               issued |-> {}, ready |-> {}, committed |-> {}, badAbort |-> 0]
  BY DEF PlacementInit
<1>3. InitialOwners \in OwnerMaps /\ 0 \in 0 .. MaxTxn /\ 0 \in 0 .. MaxTxn + 1
      /\ 0 \in Generations
  BY OwnersAssumption, BoundAssumption DEF OwnerMaps, Generations
<1>4. PICK b : b = [epoch |-> 1, map |-> InitialOwners, event |-> "done"]
  OBVIOUS
<1>5. /\ b \in Bitmaps /\ b.event = "done" /\ b.map = InitialOwners
      /\ NoBitmap \in Bitmaps /\ NoBitmap.event = "none"
  BY <1>3, <1>4 DEF Bitmaps, NoBitmap
<1>6. /\ owner \in [Ranks -> [Generations -> Bitmaps]]
      /\ \A r \in Ranks, g \in Generations :
           (g = 0 => owner[r][g] = b) /\ (g # 0 => owner[r][g] = NoBitmap)
  <2>1. owner = [r \in Ranks |-> [g \in Generations |-> IF g = 0 THEN b ELSE NoBitmap]]
    BY <1>2, <1>4
  <2> QED
    BY <2>1, <1>5
<1>7. co \in Coordinators /\ co.uploaded = 0 /\ co.closed = 0 /\ co.issued = {} /\ co.ready = {}
  BY <1>2, <1>3 DEF Coordinators
<1>8. led \in [epoch : Nat, slot : Generations] /\ led.slot = 0 /\ led.epoch = 1
  BY <1>2, <1>3
<1>9. EngineTyped
  BY <1>2, <1>6, <1>7, <1>8 DEF EngineTyped
<1>10. EngineLed
  <2>1. LedAtCtl /\ LedMap = InitialOwners
    BY <1>1, <1>8 DEF LedAtCtl, LedMap
  <2>2. \A r \in Ranks : owner[r][led.slot] = b
    BY <1>3, <1>6, <1>8
  <2> QED
    BY <2>1, <2>2, <1>1, <1>5 DEF EngineLed
<1>11. EngineBitmaps
  BY <1>1, <1>5, <1>6, <1>7 DEF EngineBitmaps, FromPrepared
<1>12. EngineGate /\ EngineSeen
  BY <1>1, <1>2, <1>7 DEF EngineGate, EngineSeen, Seen, Committing
<1>13. ASSUME NEW r \in Ranks PROVE RankAck(r)
  <2>1. ack[r] = NoAck
    BY <1>2 DEF Actors
  <2>2. NoAck \in Acks /\ NoAck.txn = 0
    BY <1>3 DEF NoAck, Acks
  <2> QED
    BY <2>1, <2>2, <1>1 DEF RankAck
<1> QED
  BY <1>9, <1>10, <1>11, <1>12, <1>13 DEF EngineInv

\* PlacementInv holds at the start.
LEMMA PlacementStarts ==
  ASSUME PlacementInit
  PROVE  PlacementInv
<1>1. /\ ctl.state = "ACTIVE" /\ Txn = 0 /\ ctl.epoch = 1 /\ ctl.slot = 0
      /\ ctl.map = InitialOwners /\ CtlInv /\ ~Rec.committed
  BY ControlStarts
<1>2. /\ PoolInit /\ ack = [a \in Actors |-> NoAck] /\ lpc = "idle"
      /\ snap = [h \in Helpers |-> NoSnap] /\ reopen = [h \in Helpers |-> 0]
      /\ halted = {} /\ up = Helpers /\ drained = {} /\ led = [epoch |-> 1, slot |-> 0]
  BY DEF PlacementInit
<1>3. /\ PoolShape
      /\ \A h \in Helpers :
           /\ PoolInv(h) /\ part[h] = NoPart /\ Fits(h, InitialOwners)
           /\ Dom(h, 0) = Owned(h, InitialOwners) /\ Dom(h, 1) = {}
  BY <1>2, PoolStarts
<1>4. NoPart.txn = 0 /\ NoPart.committed = FALSE
  BY DEF NoPart
<1>5. NoAck \in Acks /\ NoAck.txn = 0
  <2>1. 0 \in 0 .. MaxTxn /\ 0 \in 0 .. MaxTxn + 1 /\ 0 \in Generations
    BY BoundAssumption DEF Generations
  <2> QED
    BY <2>1 DEF NoAck, Acks
<1>6. ASSUME NEW h \in Helpers PROVE HelperInv(h)
  <2>1. /\ part[h] = NoPart /\ ack[h] = NoAck /\ snap[h] = NoSnap /\ reopen[h] = 0
        /\ Fits(h, InitialOwners) /\ Dom(h, 0) = Owned(h, InitialOwners) /\ Dom(h, 1) = {}
    BY <1>2, <1>3 DEF Actors
  <2>2. HelperPhase(h)
    BY <2>1, <1>1, <1>4 DEF HelperPhase, FromCopying, FromPrepared
  <2>3. SnapSeen(h) /\ SnapPhase(h)
    BY <2>1 DEF SnapSeen, Seen, SnapPhase
  <2>4. AckPhase(h)
    BY <2>1, <1>1, <1>5 DEF AckPhase
  <2>5. PoolLink(h)
    BY <2>1, <1>1, <1>2, <1>4 DEF PoolLink
  <2> QED
    BY <2>2, <2>3, <2>4, <2>5 DEF HelperInv
<1>7. LeaderPc
  BY <1>2, ActorsAssumption DEF LeaderPc
<1>8. Shape
  BY <1>2, <1>3 DEF Shape
<1> QED
  BY <1>1, <1>3, <1>6, <1>7, <1>8, EngineStarts DEF PlacementInv

\* The invariant holds in every state EpochCycle::tick, Controller::poll,
\* EngineRankCoordinator::step, deaths and the watch can reach.
THEOREM PlacementSafe ==
  PlacementSpec => []PlacementInv
<1>1. PlacementInit => PlacementInv
  BY PlacementStarts
<1>2. PlacementInv /\ [PlacementNext]_placementVars => PlacementInv'
  BY PlacementStepKeeps
<1> QED
  BY <1>1, <1>2, PTL DEF PlacementSpec

-----------------------------------------------------------------------------
(* What it says.                                                           *)

\* The invariant includes the types.
LEMMA TypesFollow ==
  ASSUME PlacementInv
  PROVE  PlacementTypeOK
<1>1. /\ Shape /\ CtlInv /\ LeaderPc /\ EngineInv
      /\ \A h \in Helpers : PoolInv(h) /\ HelperInv(h)
  BY DEF PlacementInv
<1>2. PoolTypeOK
  BY <1>1, PoolsTyped DEF Shape
<1>3. ctl \in Controls
  BY <1>1, RecordFacts
<1>4. ASSUME NEW a \in Actors PROVE ack[a] \in Acks
  BY <1>1 DEF HelperInv, AckPhase, EngineInv, RankAck, Actors
<1>5. ASSUME NEW h \in Helpers PROVE snap[h] \in Controls \cup {NoSnap}
  BY <1>1 DEF HelperInv, SnapSeen, Seen, GoodCtl
<1>6. esnap \in Controls \cup {NoSnap}
  BY <1>1 DEF EngineInv, EngineSeen, Seen, GoodCtl
<1>7. /\ lpc \in {"idle", "tick", "poll", "retire"}
      /\ up \subseteq Helpers /\ halted \subseteq Helpers /\ drained \subseteq Helpers
  BY <1>1 DEF LeaderPc, Shape
<1>8. /\ gate \in {"open", "closed", "faulted"} /\ led.slot \in Generations
      /\ owner \in [Ranks -> [Generations -> Bitmaps]]
  BY <1>1 DEF EngineInv, EngineTyped
<1>9. \A r \in Ranks, g \in Generations :
        owner[r][g].event \in {"none", "busy", "done", "failed"}
  BY <1>8 DEF Bitmaps
<1> QED
  BY <1>2, <1>3, <1>4, <1>5, <1>6, <1>7, <1>8, <1>9 DEF PlacementTypeOK

\* What the pending generation of a helper whose pool is prepared holds.
LEMMA PendingHeld ==
  ASSUME PlacementInv, NEW h \in Helpers, part[h].txn # 0, part[h].built
  PROVE  Owned(h, Rec.to) \subseteq Dom(h, 1 - Rec.old)
<1>1. PoolInv(h) /\ HelperInv(h)
  BY DEF PlacementInv
<1>2. /\ part[h].old = Rec.old /\ Dom(h, Rec.old) = Owned(h, Rec.from)
      /\ part[h].gained = Owned(h, Rec.to) \ Owned(h, Rec.from)
      /\ part[h].lost = Owned(h, Rec.from) \ Owned(h, Rec.to)
  BY <1>1 DEF HelperInv, PoolLink
<1>3. ~part[h].fault
  BY <1>1 DEF PoolInv, Flags
<1>4. /\ part[h].cand = 1 - Rec.old
      /\ Dom(h, Rec.old) \ part[h].lost \subseteq Dom(h, 1 - Rec.old)
      /\ part[h].gained \subseteq Dom(h, 1 - Rec.old)
  BY <1>1, <1>2, <1>3 DEF PoolInv, Tables
<1> QED
  BY <1>2, <1>4

\* The experts of the map the engine routes by are resident, in the table of
\* the generation the ledger is on.
LEMMA LedResident ==
  ASSUME PlacementInv, NEW h \in Helpers, NEW e \in Owned(h, LedMap)
  PROVE  /\ bank[h][led.slot][e] \in Ids(h)
         /\ weights[h][bank[h][led.slot][e]] = e
<1>1. PoolInv(h) /\ HelperInv(h) /\ EngineInv /\ CtlInv
  BY DEF PlacementInv
<1>2. led.slot \in Generations /\ Rec.old \in Generations /\ Rec.committed \in BOOLEAN
      /\ ctl.slot \in Generations
  BY <1>1, RecordFacts, ControlFacts DEF EngineInv, EngineTyped
<1>3. /\ e \in Dom(h, led.slot)
      /\ part[h].txn # 0 => part[h].built \/ led.slot = part[h].old
  <2>1. CASE part[h].txn = 0
    BY <2>1, <1>1 DEF HelperInv, PoolLink, LedMap
  <2>2. CASE part[h].txn # 0
    <3>1. /\ part[h].old = Rec.old /\ Dom(h, Rec.old) = Owned(h, Rec.from)
          /\ (~Rec.committed => OldInForce)
      BY <2>2, <1>1 DEF HelperInv, PoolLink
    <3>2. CASE ~Rec.committed
      BY <3>1, <3>2, <1>1 DEF EngineInv, EngineLed, LedAtCtl, OldInForce, LedMap
    <3>3. CASE Rec.committed /\ LedBehind
      <4>1. led.slot = Rec.old /\ led.slot # ctl.slot
        BY <3>3, <1>1, <1>2 DEF LedBehind, CtlInv, Agree, Generations
      <4> QED
        BY <3>1, <4>1 DEF LedMap
    <3>4. CASE Rec.committed /\ ~LedBehind
      <4>1. ctl.state = "ACTIVE" /\ led.slot = ctl.slot /\ LedMap = ctl.map
        BY <3>4, <1>1 DEF EngineInv, EngineLed, LedAtCtl, LedMap
      <4>2. ctl.slot = 1 - Rec.old /\ ctl.map = Rec.to
        BY <3>4, <1>1 DEF CtlInv, Agree
      <4>3. part[h].built
        BY <2>2, <3>4, <4>1, <1>1 DEF HelperInv, HelperPhase, PoolInv, Flags
      <4> QED
        BY <2>2, <4>1, <4>2, <4>3, PendingHeld
    <3> QED
      BY <3>2, <3>3, <3>4, <1>2
  <2> QED
    BY <2>1, <2>2
<1>4. /\ bank[h][led.slot][e] = phys[h][led.slot][e] /\ phys[h][led.slot][e] \in Ids(h)
      /\ weights[h][phys[h][led.slot][e]] = e
  BY <1>1, <1>2, <1>3, TableResident
<1> QED
  BY <1>4

\* The map the engine routes by names an owner for every expert.
LEMMA LedIsMap ==
  ASSUME PlacementInv
  PROVE  LedMap \in OwnerMaps
<1>1. EngineInv /\ CtlInv
  BY DEF PlacementInv
<1>2. CASE led.slot = ctl.slot
  BY <1>1, <1>2, RecordFacts, ControlFacts DEF LedMap
<1>3. CASE led.slot # ctl.slot
  BY <1>1, <1>3, RecordFacts DEF LedMap, EngineInv, EngineLed, LedAtCtl, CtlInv, JournalOK
<1> QED
  BY <1>2, <1>3

\* The map in force is the control's or the journal's old one, and its pools
\* hold it.
LEMMA RoutedFollows ==
  ASSUME PlacementInv
  PROVE  RoutedExpertsResident
<1> SUFFICES ASSUME NEW r \in Ranks, NEW e \in Experts
             PROVE  LET b == owner[r][led.slot]
                        i == bank[b.map[e]][led.slot][e]
                    IN b.event = "done" /\ i # Nothing /\ weights[b.map[e]][i] = e
  BY DEF RoutedExpertsResident
<1>1. EngineInv /\ CtlInv
  BY DEF PlacementInv
<1>2. owner[r][led.slot].event = "done" /\ owner[r][led.slot].map = LedMap
  BY <1>1 DEF EngineInv, EngineLed
<1>3. LedMap \in OwnerMaps
  BY LedIsMap
<1>4. LedMap[e] \in Helpers /\ e \in Owned(LedMap[e], LedMap)
  BY <1>3 DEF OwnerMaps, Owned
<1>5. /\ bank[LedMap[e]][led.slot][e] \in Ids(LedMap[e])
      /\ weights[LedMap[e]][bank[LedMap[e]][led.slot][e]] = e
  BY <1>4, LedResident
<1>6. Nothing \notin Ids(LedMap[e])
  BY <1>4, BudgetAssumption DEF Nothing, Ids
<1> QED
  BY <1>2, <1>5, <1>6

\* A proposed control has the old placement in force and nobody inside it.
LEMMA ProposalsFollow ==
  ASSUME PlacementInv
  PROVE  ProposalsFindAllIdle
<1> SUFFICES ASSUME ctl.state = "PROPOSED", ~fault
             PROVE  /\ gate = "open" /\ led.slot = ctl.slot /\ led.epoch = ctl.epoch
                    /\ \A h \in Helpers : part[h].txn = 0 /\ copy[h] # "busy"
                    /\ \A r \in Ranks : owner[r][PendSlot(ctl)].event # "busy"
  BY DEF ProposalsFindAllIdle
<1>1. EngineInv /\ CtlInv /\ ctl \in Controls
  BY RecordFacts DEF PlacementInv
<1>2. ~Rec.committed
  BY <1>1 DEF CtlInv, Agree, Committing
<1>3. led.slot = ctl.slot /\ led.epoch = ctl.epoch
  BY <1>1, <1>2 DEF EngineInv, EngineLed, LedAtCtl
<1>4. ~closing
  <2>1. SUFFICES ASSUME closing PROVE FALSE
    OBVIOUS
  <2>2. esnap # NoSnap /\ esnap.state = "QUIESCING"
    BY <2>1, <1>1 DEF EngineInv, EngineGate
  <2>3. Matches(esnap)
    BY <2>2, <1>1 DEF EngineInv, EngineSeen, Seen
  <2> QED
    BY <2>2, <2>3 DEF Matches
<1>5. gate = "open"
  <2>1. gate \in {"open", "closed"}
    BY <1>1 DEF EngineInv, EngineTyped
  <2>2. ~(co.closed = Txn /\ Txn # 0)
    BY <1>1 DEF EngineInv, EngineGate, FromQuiescing
  <2> QED
    BY <2>1, <2>2, <1>1, <1>4 DEF EngineInv, EngineGate
<1>6. ASSUME NEW h \in Helpers PROVE part[h].txn = 0 /\ copy[h] # "busy"
  <2>1. HelperInv(h) /\ PoolInv(h)
    BY DEF PlacementInv
  <2>2. part[h].txn = 0
    BY <2>1 DEF HelperInv, HelperPhase
  <2> QED
    BY <2>1, <2>2 DEF PoolInv, Flags, Building
<1>7. ASSUME NEW r \in Ranks PROVE owner[r][PendSlot(ctl)].event # "busy"
  <2>1. PendSlot(ctl) \in Generations
    BY <1>1, ControlFacts DEF Committing, Generations
  <2> QED
    BY <2>1, <1>1 DEF EngineInv, EngineBitmaps
<1> QED
  BY <1>3, <1>5, <1>6, <1>7

\* A prepared control has built participants and complete bitmaps.
LEMMA CommitFollows ==
  ASSUME PlacementInv
  PROVE  CommitIsUnanimous
<1>1. EngineInv /\ CtlInv /\ ctl \in Controls /\ Rec.old \in Generations
      /\ Rec.committed \in BOOLEAN /\ Rec.epoch \in Nat
  BY RecordFacts DEF PlacementInv
<1>2. Order[ctl.state] >= Order["PREPARED"] => ctl.state \in FromPrepared
  BY <1>1, OrderFacts, ControlFacts DEF States8, FromCopying, FromPrepared
<1> SUFFICES ASSUME ctl.state \in FromPrepared
             PROVE  /\ \A h \in Helpers : /\ part[h].txn = ctl.txn /\ part[h].built
                                          /\ \A e \in Owned(h, ctl.cand) :
                                               bank[h][PendSlot(ctl)][e] # Nothing
                    /\ \A r \in Ranks : owner[r][PendSlot(ctl)] =
                         [epoch |-> PendEpoch(ctl), map |-> ctl.cand, event |-> "done"]
  BY <1>2 DEF CommitIsUnanimous
<1>3. /\ PendSlot(ctl) = 1 - Rec.old /\ PendEpoch(ctl) = Rec.epoch + 1 /\ ctl.cand = Rec.to
      /\ ctl.state # "ACTIVE"
  <2>1. ctl.state # "ACTIVE"
    BY DEF FromPrepared
  <2>2. CASE ctl.state \in Committing
    BY <2>1, <2>2, <1>1, ControlFacts DEF CtlInv, Agree
  <2>3. CASE ctl.state \notin Committing
    BY <2>1, <2>3, <1>1, ControlFacts DEF CtlInv, Agree, OldInForce
  <2> QED
    BY <2>1, <2>2, <2>3
<1>4. ASSUME NEW h \in Helpers
      PROVE  /\ part[h].txn = ctl.txn /\ part[h].built
             /\ \A e \in Owned(h, ctl.cand) : bank[h][PendSlot(ctl)][e] # Nothing
  <2>1. HelperInv(h) /\ PoolInv(h)
    BY DEF PlacementInv
  <2>2. part[h].txn # 0 /\ part[h].txn = ctl.txn /\ part[h].built
    BY <2>1 DEF HelperInv, HelperPhase, FromPrepared, FromCopying, Txn
  <2>3. ASSUME NEW e \in Owned(h, ctl.cand)
        PROVE  bank[h][PendSlot(ctl)][e] # Nothing
    <3>1. e \in Dom(h, 1 - Rec.old)
      BY <2>2, <1>3, PendingHeld
    <3>2. 1 - Rec.old \in Generations
      BY <1>1 DEF Generations
    <3>3. bank[h][1 - Rec.old][e] \in Ids(h)
      BY <2>1, <2>2, <3>1, <3>2, TableResident
    <3> QED
      BY <3>3, <1>3, BudgetAssumption DEF Ids, Nothing
  <2> QED
    BY <2>2, <2>3
<1>5. ASSUME NEW r \in Ranks
      PROVE  owner[r][PendSlot(ctl)] =
               [epoch |-> PendEpoch(ctl), map |-> ctl.cand, event |-> "done"]
  <2>1. PICK b : b = owner[r][1 - Rec.old]
    OBVIOUS
  <2>2. b \in Bitmaps
    BY <2>1, <1>1 DEF EngineInv, EngineTyped, Generations
  <2>3. co.uploaded = Txn /\ co.ready = Ranks /\ co.ready \subseteq co.issued /\ Txn # 0
    BY <1>1, <1>3 DEF EngineInv, EngineBitmaps, CtlInv, CtlOK, GoodCtl, Txn
  <2>4. b.epoch = Rec.epoch + 1 /\ b.map = Rec.to /\ b.event = "done"
    BY <2>1, <2>3, <1>1 DEF EngineInv, EngineBitmaps
  <2>5. b = [epoch |-> Rec.epoch + 1, map |-> Rec.to, event |-> "done"]
    BY <2>2, <2>4 DEF Bitmaps
  <2> QED
    BY <2>1, <2>5, <1>3
<1> QED
  BY <1>4, <1>5

\* An idle participant's pool holds one generation, whose map fits.
LEMMA StagingFollows ==
  ASSUME PlacementInv
  PROVE  StagingIsReturned
<1> SUFFICES ASSUME NEW h \in Helpers, part[h].txn = 0
             PROVE  /\ Cardinality(Charged(h)) <= Budget[h]
                    /\ \A i \in Charged(h) : slot[h][i].state = "ACTIVE"
  BY DEF StagingIsReturned
<1>1. HelperInv(h) /\ PoolInv(h) /\ ctl.slot \in Generations
  BY RecordFacts, ControlFacts DEF PlacementInv
<1>2. /\ Fits(h, ctl.map) /\ Dom(h, ctl.slot) = Owned(h, ctl.map)
      /\ Dom(h, 1 - ctl.slot) = {}
  BY <1>1 DEF HelperInv, PoolLink
<1> QED
  BY <1>1, <1>2, StagingIsBack

\* The shared records (moe_remote_shm.h) and the private state of helpers and
\* engine keep the fields and ranges their structures declare.
THEOREM PlacementTyped ==
  PlacementSpec => []PlacementTypeOK
<1>1. PlacementInv => PlacementTypeOK
  BY TypesFollow
<1> QED
  BY <1>1, PlacementSafe, PTL

\* Whenever a participant is idle, after Participant::reclaim and after every
\* kind of abort, the staging slot it borrowed is back (worker_move_slots.h).
THEOREM StagingSlotReturned ==
  PlacementSpec => []StagingIsReturned
<1>1. PlacementInv => StagingIsReturned
  BY StagingFollows
<1> QED
  BY <1>1, PlacementSafe, PTL

\* Whatever the order of reserve, upload, commit, reclaim and abort, no two
\* experts share a slot and no expert is charged twice (worker_residency.h).
THEOREM PoolSlotsExclusive ==
  PlacementSpec => []SlotsAreExclusive
<1>1. PlacementInv => SlotsAreExclusive
  BY PoolsExclusive DEF PlacementInv
<1> QED
  BY <1>1, PlacementSafe, PTL

\* From admission to the proof of the drain, every bitmap of a rank routes
\* each expert to a helper whose pointer table names a slot with its weights.
THEOREM RoutedWeightsResident ==
  PlacementSpec => []RoutedExpertsResident
<1>1. PlacementInv => RoutedExpertsResident
  BY RoutedFollows
<1> QED
  BY <1>1, PlacementSafe, PTL

\* Controller::can_propose is enough: a proposal finds every helper and the
\* engine through with the transaction before it (worker_epoch.h).
THEOREM ProposalsIdle ==
  PlacementSpec => []ProposalsFindAllIdle
<1>1. PlacementInv => ProposalsFindAllIdle
  BY ProposalsFollow
<1> QED
  BY <1>1, PlacementSafe, PTL

\* From the collection of READY on, every helper has built and every rank has
\* uploaded the map that Controller::commit will put in force.
THEOREM CommitUnanimous ==
  PlacementSpec => []CommitIsUnanimous
<1>1. PlacementInv => CommitIsUnanimous
  BY CommitFollows
<1> QED
  BY <1>1, PlacementSafe, PTL
=============================================================================
