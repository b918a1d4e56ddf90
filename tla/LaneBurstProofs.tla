--------------------------- MODULE LaneBurstProofs ---------------------------
(***************************************************************************)
(* Proofs about LaneBurst, for any lanes, any queue depth and any bound.   *)
(***************************************************************************)
EXTENDS LaneBurst, TLAPS, WellFoundedInduction

-----------------------------------------------------------------------------
(* The inductive invariant.                                                *)

Parking == {"last", "settle", "drain"}
Flagged == Parking \cup {"recheck", "clear"}
Holding == {"acked", "hold", "holding", "held"}
Leaving == {"exit", "finish", "gone"}
Armed == Parking \cup {"serve", "spin", "ended", "flag", "recheck"}
Forced == Parking \cup {"flag", "clear", "tell"}
LargePcs == {"wait", "asked", "asleep", "top", "idle", "quiet", "ack"} \cup Holding \cup Leaving
SmallPcs ==
  {"wait", "asked", "asleep", "top", "ack"} \cup Holding \cup Leaving \cup Armed \cup Forced
Waits == {"parks", "see", "nap"}
Draining == {"asked", "polling", "verified", "clearing", "resume"}
Undrained == {"idle", "ledger", "resume", "gate"} \cup Waits
EnginePcs == {"idle", "busy", "admitted", "published", "stopped"} \cup Waits
PlacementPcs == {"asking", "failed"} \cup Draining \cup Undrained

\* The pc of the engine's scheduler, and of its placement thread.
EPc == cpu[Engine].pc
PPc == cpu[Placement].pc

Words == [request : Int, done : Int, consumed : Int, park : BOOLEAN,
          drainRequest : Int, drainAck : Int]
Locals == [pc : SmallPcs \cup LargePcs, next : Int, seen : Int, last : Int,
           closure : Int, armed : BOOLEAN]

Types ==
  /\ hdr \in [burst : BOOLEAN, stop : BOOLEAN, fault : BOOLEAN, cfg : Settings]
  /\ lane \in [Lanes -> Words]
  /\ watch \in [Threads -> {"none", "burst", "notify"}]
  /\ work \in [Lanes -> Locals]
  /\ stream \in [Lanes -> [head : Int, limit : Int]]
  /\ computed \in [Lanes -> SUBSET Int]
  /\ sent \in [Lanes -> Int]
  /\ cpu \in [{Engine, Placement} -> [pc : EnginePcs \cup PlacementPcs, todo : SUBSET Lanes]]
  /\ bridge \in [want : BOOLEAN, draining : BOOLEAN, gate : {"open", "closed", "stopped"},
                 closure : Int]
  /\ stop \in BOOLEAN

\* The gate, the burst word and what the engine's two threads have said.
Gate ==
  /\ EPc \in EnginePcs /\ PPc \in PlacementPcs
  /\ bridge.closure >= 0
  /\ PPc # "idle" => bridge.closure > 0
  /\ bridge.gate = "open" <=> PPc = "idle"
  /\ bridge.draining => PPc \in Draining \cup {"failed"}
  /\ PPc \in Draining => bridge.draining
  /\ bridge.draining \/ PPc \notin {"idle", "ledger", "failed"} => ~Outstanding
  /\ hdr.burst <=> (bridge.want /\ ~bridge.draining)
  /\ EPc \in Waits \cup {"busy", "admitted", "published"} => bridge.want
  /\ EPc = "idle" => ~bridge.want
  /\ PPc = "asking" => cpu[Placement].todo \subseteq hdr.cfg.served
  /\ PPc = "verified" => cpu[Placement].todo = Lanes
  /\ main # "serving" \/ hdr.stop => stop

\* The drain words of lane l, which the placement thread writes.
Asks(l) ==
  LET r == lane[l].drainRequest
      k == bridge.closure
      todo == cpu[Placement].todo
  IN /\ r \in {0, k} /\ 0 <= lane[l].drainAck /\ lane[l].drainAck <= k
     /\ r # 0 => ~Outstanding /\ l \in hdr.cfg.served
     /\ PPc \in Undrained => r = 0
     /\ PPc = "asking" => (r = 0 <=> l \in todo \/ l \notin hdr.cfg.served)
     /\ PPc \in {"asked", "polling"} /\ l \in hdr.cfg.served => r = k
     /\ PPc \in {"verified", "clearing"} =>
          IF l \in todo THEN l \in hdr.cfg.served => r = k /\ lane[l].drainAck = k ELSE r = 0
     /\ PPc \in {"ledger", "asking"} /\ r = 0 => lane[l].drainAck < k

\* Bounds on the sequences of lane l, stopping or not.
Bounds(l) ==
  LET w == work[l]
      s == lane[l]
  IN /\ 0 <= s.consumed /\ s.consumed <= sent[l] /\ sent[l] <= MaxRequests
     /\ 0 <= s.request /\ s.request < Unlimited /\ 0 <= s.done /\ s.done < Unlimited
     /\ w.pc \notin Leaving \cup {"drain"} => s.request <= sent[l]
     /\ 0 <= w.seen /\ w.seen <= MaxRequests
     /\ 1 <= stream[l].head /\ stream[l].head <= w.next /\ w.next <= Unlimited
     /\ 0 <= stream[l].limit /\ stream[l].limit <= Unlimited
     /\ w.pc \in {"settle", "drain"} => 0 <= w.last /\ w.last <= sent[l]

\* Which program points lane l can be at.
Points(l) ==
  LET w == work[l]
  IN /\ l \in LargeLanes => w.pc \in LargePcs /\ ~w.armed
     /\ l \in SmallLanes => w.pc \in SmallPcs
     /\ w.pc \in Armed => w.armed
     /\ l \notin hdr.cfg.served => w.pc = "gone"
     /\ w.pc \in Leaving /\ l \in hdr.cfg.served => stop
     /\ w.pc = "ack" => w.closure # 0

\* A drain that lane l has taken up.
Drains(l) ==
  LET w == work[l]
      r == lane[l].drainRequest
  IN /\ w.pc \in Holding \cup {"ack"} => ~w.armed
     /\ w.pc \in Holding => lane[l].drainAck = w.closure
     /\ r # 0 /\ lane[l].drainAck = r => w.pc \in Holding
     /\ w.pc = "ack" \/ (w.pc \in Forced /\ w.closure # 0) => r = w.closure
     /\ w.pc \in {"clear", "tell"} /\ w.closure # 0 => ~w.armed
     /\ w.pc = "recheck" => w.closure = 0

\* Requests, completions and queued waits of lane l.
Queue(l) ==
  LET w == work[l]
      s == lane[l]
  IN /\ s.done <= sent[l] /\ s.consumed <= s.done
     /\ \A i \in 1 .. s.done : i \in computed[l]
     /\ w.pc # "drain" => s.request = sent[l]
     /\ w.pc # "drain" => stream[l].limit = Unlimited
     /\ w.pc \in {"settle", "drain"} => w.last = sent[l]
     /\ s.park <=> w.pc \in Flagged
     /\ l \in LargeLanes => s.done + 1 = w.next /\ w.next <= sent[l] + 1
     /\ l \in SmallLanes =>
          IF w.armed
          THEN /\ w.next = w.seen + QueueDepth + 1 /\ w.seen <= s.done
               /\ w.pc # "drain" => stream[l].head = s.done + 1
               /\ w.pc = "drain" =>
                    /\ stream[l].limit = w.last /\ s.done = w.last
                    /\ s.request = w.next - 1 /\ stream[l].head > w.last
          ELSE stream[l].head = w.next /\ w.seen = s.done

\* While the burst word is odd, a lane that parks is one that a thread of the
\* engine still waits for, one that took a drain, or one a fault cuts off.
Met(l) ==
  work[l].pc \in Parking /\ hdr.burst =>
    \/ EPc \in Waits /\ l \in cpu[Engine].todo
    \/ PPc \in Waits /\ l \in cpu[Placement].todo
    \/ hdr.fault /\ ~Outstanding
    \/ lane[l].drainRequest # 0

Serving(l) == Drains(l) /\ Queue(l) /\ Met(l)
LaneInv(l) == Asks(l) /\ Bounds(l) /\ Points(l) /\ (~stop => Serving(l))
IInv == Types /\ Gate /\ \A l \in Lanes : LaneInv(l)

-----------------------------------------------------------------------------

\* A thread that goes through its lanes picks one of them: the least of a set of
\* lane numbers is a member of it.
LEMMA MinOfNats ==
  ASSUME NEW S \in SUBSET Nat, S # {}
  PROVE  Min(S) \in S
<1>1. PICK x \in S : \A y \in S : ~(<<y, x>> \in OpToRel(<, Nat))
  BY NatLessThanWellFounded, WFMin
<1>2. \A y \in S : x <= y
  <2> SUFFICES ASSUME NEW y \in S PROVE x <= y
    OBVIOUS
  <2>1. x \in Nat /\ y \in Nat
    OBVIOUS
  <2>2. ~(<<y, x>> \in OpToRel(<, Nat))
    BY <1>1
  <2>3. ~(y < x)
    BY <2>1, <2>2 DEF OpToRel
  <2> QED
    BY <2>1, <2>3
<1> QED
  BY <1>2 DEF Min

-----------------------------------------------------------------------------
(* What a step of lane l writes.                                           *)

Watches == [Threads -> {"none", "burst", "notify"}]
Queues == [head : Int, limit : Int]

WorkIs(l, p, n, s, t, c, a) ==
  /\ work' \in [Lanes -> Locals] /\ \A m \in Lanes \ {l} : work'[m] = work[m]
  /\ work'[l].pc = p /\ work'[l].next = n /\ work'[l].seen = s
  /\ work'[l].last = t /\ work'[l].closure = c /\ work'[l].armed = a

LaneIs(l, q, d, f, a) ==
  /\ lane' \in [Lanes -> Words] /\ \A m \in Lanes \ {l} : lane'[m] = lane[m]
  /\ lane'[l].request = q /\ lane'[l].done = d /\ lane'[l].consumed = lane[l].consumed
  /\ lane'[l].park = f /\ lane'[l].drainRequest = lane[l].drainRequest
  /\ lane'[l].drainAck = a

StreamIs(l, h, x) ==
  /\ stream' \in [Lanes -> Queues] /\ \A m \in Lanes \ {l} : stream'[m] = stream[m]
  /\ stream'[l].head = h /\ stream'[l].limit = x

ComputedIs(l, s) ==
  /\ computed' \in [Lanes -> SUBSET Int]
  /\ \A m \in Lanes \ {l} : computed'[m] = computed[m]
  /\ computed'[l] = s

Local == UNCHANGED <<hdr, sent, cpu, bridge, main>>
MayStop == stop' \in BOOLEAN /\ (stop => stop')

\* A move to p changes nothing else of the lane's locals.
LEMMA GoIs ==
  ASSUME Types, NEW l \in Lanes, NEW p \in SmallPcs \cup LargePcs, Go(l, p)
  PROVE  WorkIs(l, p, work[l].next, work[l].seen, work[l].last, work[l].closure, work[l].armed)
<1>1. work' = [work EXCEPT ![l] = [@ EXCEPT !.pc = p]]
  BY DEF Go
<1>2. work \in [Lanes -> Locals]
  BY DEF Types
<1> DEFINE w == [work[l] EXCEPT !.pc = p]
<1>3. /\ w \in Locals /\ w.pc = p /\ w.next = work[l].next /\ w.seen = work[l].seen
      /\ w.last = work[l].last /\ w.closure = work[l].closure /\ w.armed = work[l].armed
  BY <1>2 DEF Locals
<1> HIDE DEF w
<1>4. work' = [work EXCEPT ![l] = w]
  BY <1>1 DEF w
<1> QED
  BY <1>2, <1>3, <1>4 DEF WorkIs

\* Locals replaced as a whole.
LEMMA WorkSetIs ==
  ASSUME Types, NEW l \in Lanes, NEW w \in Locals, work' = [work EXCEPT ![l] = w]
  PROVE  WorkIs(l, w.pc, w.next, w.seen, w.last, w.closure, w.armed)
BY DEF Types, WorkIs

\* One word of a LaneSignal written by its lane.
LEMMA SignalIs ==
  ASSUME Types, NEW l \in Lanes, NEW v
  PROVE  /\ v \in Int /\ Signal(l, "request", v) =>
              LaneIs(l, v, lane[l].done, lane[l].park, lane[l].drainAck)
         /\ v \in Int /\ Signal(l, "done", v) =>
              LaneIs(l, lane[l].request, v, lane[l].park, lane[l].drainAck)
         /\ v \in BOOLEAN /\ Signal(l, "park", v) =>
              LaneIs(l, lane[l].request, lane[l].done, v, lane[l].drainAck)
         /\ v \in Int /\ Signal(l, "drainAck", v) =>
              LaneIs(l, lane[l].request, lane[l].done, lane[l].park, v)
<1>0. lane \in [Lanes -> Words]
  BY DEF Types
<1>1. ASSUME v \in Int, Signal(l, "request", v)
      PROVE  LaneIs(l, v, lane[l].done, lane[l].park, lane[l].drainAck)
  BY <1>0, <1>1 DEF Signal, LaneIs, Words
<1>2. ASSUME v \in Int, Signal(l, "done", v)
      PROVE  LaneIs(l, lane[l].request, v, lane[l].park, lane[l].drainAck)
  BY <1>0, <1>2 DEF Signal, LaneIs, Words
<1>3. ASSUME v \in BOOLEAN, Signal(l, "park", v)
      PROVE  LaneIs(l, lane[l].request, lane[l].done, v, lane[l].drainAck)
  BY <1>0, <1>3 DEF Signal, LaneIs, Words
<1>4. ASSUME v \in Int, Signal(l, "drainAck", v)
      PROVE  LaneIs(l, lane[l].request, lane[l].done, lane[l].park, v)
  BY <1>0, <1>4 DEF Signal, LaneIs, Words
<1> QED
  BY <1>1, <1>2, <1>3, <1>4

\* A futex word read, or moved, leaves every thread with a known word or none.
LEMMA WatchIsTyped ==
  ASSUME Types, NEW t \in Threads, NEW w \in {"none", "burst", "notify"},
         Watch(t, w) \/ Move(w)
  PROVE  watch' \in Watches
BY DEF Types, Watches, Watch, Move, Moved

\* A step of lane l that keeps LaneInv(l) keeps the invariant: the other lanes
\* and the engine see of it at most that the helper is stopping.
LEMMA LocalStep ==
  ASSUME IInv, NEW l \in Lanes, Local, MayStop, watch' \in Watches,
         NEW p, NEW n, NEW s, NEW t, NEW c, NEW a, WorkIs(l, p, n, s, t, c, a),
         NEW q, NEW d, NEW f, NEW k, LaneIs(l, q, d, f, k),
         NEW h, NEW x, StreamIs(l, h, x), NEW u, ComputedIs(l, u),
         LaneInv(l)'
  PROVE  IInv'
<1>1. Types'
  BY DEF IInv, Types, Local, MayStop, Watches, Queues, WorkIs, LaneIs, StreamIs, ComputedIs
<1>2. Gate'
  BY DEF IInv, Types, Gate, Local, MayStop, EPc, PPc, Outstanding
<1>3. ASSUME NEW m \in Lanes PROVE LaneInv(m)'
  <2>1. CASE m = l
    BY <2>1
  <2>2. CASE m # l
    <3>1. /\ lane'[m] = lane[m] /\ work'[m] = work[m] /\ stream'[m] = stream[m]
          /\ computed'[m] = computed[m]
      BY <2>2 DEF WorkIs, LaneIs, StreamIs, ComputedIs
    <3>2. LaneInv(m)
      BY DEF IInv
    <3>3. Asks(m)' /\ Bounds(m)'
      BY <3>1, <3>2 DEF Local, LaneInv, Asks, Bounds, PPc, Outstanding
    <3>4. Points(m)'
      BY <3>1, <3>2 DEF Local, MayStop, LaneInv, Points
    <3>5. ~stop' => Serving(m)'
      BY <3>1, <3>2
         DEF Local, MayStop, LaneInv, Serving, Drains, Queue, Met, EPc, PPc, Outstanding
    <3> QED
      BY <3>3, <3>4, <3>5 DEF LaneInv
  <2> QED
    BY <2>1, <2>2
<1> QED
  BY <1>1, <1>2, <1>3 DEF IInv

\* What a step of lane l leaves alone, in the form LocalStep asks for.
LEMMA Unwritten ==
  ASSUME Types, NEW l \in Lanes
  PROVE  /\ UNCHANGED lane =>
              LaneIs(l, lane[l].request, lane[l].done, lane[l].park, lane[l].drainAck)
         /\ UNCHANGED stream => StreamIs(l, stream[l].head, stream[l].limit)
         /\ UNCHANGED computed => ComputedIs(l, computed[l])
         /\ UNCHANGED watch => watch' \in Watches
         /\ UNCHANGED stop => MayStop
BY DEF Types, LaneIs, StreamIs, ComputedIs, Watches, Queues, MayStop

(* A step that only moves lane l to p, and perhaps stops the helper.       *)
Moves(l, p) ==
  /\ p \in SmallPcs \cup LargePcs /\ Go(l, p) /\ Local /\ MayStop /\ watch' \in Watches
  /\ UNCHANGED <<lane, stream, computed>>

\* A move keeps the drain words and the bounds as they are; what is left to show
\* is the point it reaches and, while the helper serves, what holds there.
LEMMA MoveStep ==
  ASSUME IInv, NEW l \in Lanes, NEW p, Moves(l, p), Points(l)',
         p \notin Leaving \cup {"drain"} => lane[l].request <= sent[l],
         p \in {"settle", "drain"} => 0 <= work[l].last /\ work[l].last <= sent[l],
         ~stop' => Serving(l)'
  PROVE  IInv'
<1>1. WorkIs(l, p, work[l].next, work[l].seen, work[l].last, work[l].closure, work[l].armed)
  BY GoIs DEF Moves, IInv
<1>2. Types /\ LaneInv(l)
  BY DEF IInv
<1>3. Asks(l)'
  BY <1>2 DEF Moves, Local, LaneInv, Asks, PPc, Outstanding
<1>4. Bounds(l)'
  BY <1>1, <1>2 DEF Moves, Local, LaneInv, Bounds, WorkIs
<1>5. LaneInv(l)'
  BY <1>3, <1>4 DEF LaneInv
<1> QED
  BY <1>1, <1>2, <1>5, LocalStep, Unwritten DEF Moves

\* wait_burst: nothing is promised at the points of a wait.
LEMMA WaitSteps ==
  ASSUME IInv, NEW l \in Lanes, WaitLoads(l) \/ WaitAsks(l) \/ WaitWakes(l)
  PROVE  IInv'
<1>0. Types /\ Gate /\ LaneInv(l)
  BY DEF IInv
<1>1. PICK p \in {"exit", "asked", "top", "asleep", "wait"} :
        /\ Moves(l, p) /\ work[l].pc \in {"wait", "asked", "asleep"}
        /\ p = "exit" => stop
        /\ UNCHANGED stop
  <2>1. CASE WaitLoads(l)
    BY <1>0, <2>1, WatchIsTyped, Unwritten
       DEF WaitLoads, Moves, Gate, SmallPcs, Leaving, At, Local, engineVars, Threads
  <2>2. CASE WaitAsks(l)
    BY <1>0, <2>2, Unwritten DEF WaitAsks, Moves, SmallPcs, At, Local, engineVars
  <2>3. CASE WaitWakes(l)
    BY <1>0, <2>3, Unwritten DEF WaitWakes, Moves, SmallPcs, At, Local, engineVars
  <2> QED
    BY <2>1, <2>2, <2>3
<1>2. WorkIs(l, p, work[l].next, work[l].seen, work[l].last, work[l].closure, work[l].armed)
  BY <1>0, <1>1, GoIs DEF Moves
<1> USE DEF SmallPcs, LargePcs, Holding, Leaving, Armed, Forced, Parking, Flagged
<1>3. Points(l)'
  BY <1>0, <1>1, <1>2 DEF Moves, Local, LaneInv, Points, WorkIs
<1>4. ASSUME ~stop PROVE Serving(l)'
  <2>1. Serving(l)
    BY <1>0, <1>4 DEF LaneInv
  <2>2. Drains(l)'
    BY <1>1, <1>2, <2>1 DEF Moves, Serving, Drains, WorkIs
  <2>3. Queue(l)'
    BY <1>0, <1>1, <1>2, <2>1 DEF Moves, Local, Serving, Queue, WorkIs
  <2>4. Met(l)'
    BY <1>1, <1>2 DEF Met, WorkIs
  <2> QED
    BY <2>2, <2>3, <2>4 DEF Serving
<1>5. lane[l].request <= sent[l]
  BY <1>0, <1>1 DEF LaneInv, Bounds
<1> QED
  BY <1>1, <1>3, <1>4, <1>5, MoveStep

\* acknowledge_drain after the acknowledgement: a lane leaves the hold only when
\* its closure is over or the helper stops.
LEMMA AckSteps ==
  ASSUME IInv, NEW l \in Lanes,
         AckNotifies(l) \/ HoldLoads(l) \/ HoldChecks(l) \/ HoldWakes(l)
  PROVE  IInv'
<1>0. Types /\ Gate /\ LaneInv(l)
  BY DEF IInv
<1>1. PICK p \in {"hold", "holding", "held", LoopTop(l)} :
        /\ Moves(l, p) /\ work[l].pc \in Holding
        /\ p = LoopTop(l) => stop' \/ lane[l].drainRequest # work[l].closure
  <2>1. CASE AckNotifies(l)
    BY <1>0, <2>1, WatchIsTyped, Unwritten
       DEF AckNotifies, Notify, Moves, SmallPcs, Holding, At, Local, engineVars, Threads, LoopTop
  <2>2. CASE HoldLoads(l)
    BY <1>0, <2>2, WatchIsTyped, Unwritten
       DEF HoldLoads, Moves, SmallPcs, Holding, At, Local, engineVars, Threads, LoopTop
  <2>3. CASE HoldChecks(l)
    <3>1. MayStop
      BY <1>0, <2>3 DEF HoldChecks, MayStop, Types
    <3> QED
      BY <1>0, <2>3, <3>1, Unwritten
         DEF HoldChecks, Moves, SmallPcs, Holding, At, Local, engineVars, LoopTop
  <2>4. CASE HoldWakes(l)
    BY <1>0, <2>4, Unwritten
       DEF HoldWakes, Moves, SmallPcs, Holding, At, Local, engineVars, LoopTop
  <2> QED
    BY <2>1, <2>2, <2>3, <2>4
<1>2. WorkIs(l, p, work[l].next, work[l].seen, work[l].last, work[l].closure, work[l].armed)
  BY <1>0, <1>1, GoIs DEF Moves
<1> USE DEF SmallPcs, LargePcs, Holding, Leaving, Armed, Forced, Parking, Flagged, LoopTop
<1>3. Points(l)'
  BY <1>0, <1>1, <1>2 DEF Moves, Local, LaneInv, Points, WorkIs
<1>4. ASSUME ~stop' PROVE Serving(l)'
  <2>1. Serving(l)
    BY <1>0, <1>1, <1>4 DEF LaneInv, Moves, MayStop
  <2>2. Drains(l)'
    BY <1>1, <1>2, <1>4, <2>1 DEF Moves, Serving, Drains, WorkIs
  <2>3. Queue(l)'
    BY <1>0, <1>1, <1>2, <2>1 DEF Moves, Local, Serving, Queue, WorkIs
  <2>4. Met(l)'
    BY <1>1, <1>2 DEF Met, WorkIs
  <2> QED
    BY <2>2, <2>3, <2>4 DEF Serving
<1>5. lane[l].request <= sent[l]
  BY <1>0, <1>1 DEF LaneInv, Bounds
<1> QED
  BY <1>1, <1>3, <1>4, <1>5, MoveStep

\* The acknowledgement itself, of the closure that is still asked for.
LEMMA AcknowledgesStep ==
  ASSUME IInv, NEW l \in Lanes, Acknowledges(l)
  PROVE  IInv'
<1>0. Types /\ Gate /\ LaneInv(l)
  BY DEF IInv
<1> USE DEF SmallPcs, LargePcs, Holding, Leaving, Armed, Forced, Parking, Flagged, LoopTop
<1>1. CASE lane[l].drainRequest # work[l].closure
  <2>1. Moves(l, LoopTop(l)) /\ work[l].pc = "ack" /\ stop'
    BY <1>0, <1>1, Unwritten DEF Acknowledges, Moves, At, Local, MayStop, engineVars
  <2>2. WorkIs(l, LoopTop(l), work[l].next, work[l].seen, work[l].last, work[l].closure, work[l].armed)
    BY <1>0, <2>1, GoIs DEF Moves
  <2>3. Points(l)'
    BY <1>0, <2>1, <2>2 DEF Moves, Local, LaneInv, Points, WorkIs
  <2>4. lane[l].request <= sent[l]
    BY <1>0, <2>1 DEF LaneInv, Bounds
  <2> QED
    BY <2>1, <2>3, <2>4, MoveStep
<1>2. CASE lane[l].drainRequest = work[l].closure
  <2>1. /\ Go(l, "acked") /\ Signal(l, "drainAck", work[l].closure) /\ work[l].pc = "ack"
        /\ UNCHANGED <<hdr, watch, stream, computed, stop, main, sent, cpu, bridge>>
        /\ l \in SmallLanes => stream[l].head = work[l].next
    BY <1>2 DEF Acknowledges, Drained, At, engineVars
  <2>2. WorkIs(l, "acked", work[l].next, work[l].seen, work[l].last, work[l].closure, work[l].armed)
    BY <1>0, <2>1, GoIs
  <2>3. LaneIs(l, lane[l].request, lane[l].done, lane[l].park, work[l].closure)
    BY <1>0, <2>1, SignalIs DEF Types, Locals
  <2>4. Asks(l)' /\ Bounds(l)' /\ Points(l)'
    BY <1>0, <1>2, <2>1, <2>2, <2>3
       DEF LaneInv, Asks, Bounds, Points, PPc, Outstanding, WorkIs, LaneIs, Types, Words, Locals
  <2>5. ASSUME ~stop PROVE Serving(l)'
    BY <1>0, <1>2, <2>1, <2>2, <2>3, <2>5
       DEF LaneInv, Serving, Drains, Queue, Met, WorkIs, LaneIs, Types, Words, Locals
  <2>6. LaneInv(l)'
    BY <2>1, <2>4, <2>5 DEF LaneInv
  <2> QED
    BY <1>0, <2>1, <2>2, <2>3, <2>6, LocalStep, Unwritten DEF Local
<1> QED
  BY <1>1, <1>2

\* run_large: the request served is the one after the last completion.
LEMMA LargeServesStep ==
  ASSUME IInv, NEW l \in Lanes, LargeServes(l)
  PROVE  IInv'
<1>0. Types /\ Gate /\ LaneInv(l)
  BY DEF IInv
<1>1. /\ l \in LargeLanes /\ work[l].pc = "top" /\ ~stop /\ work[l].next <= lane[l].request
      /\ UNCHANGED <<hdr, watch, stream, stop, main, sent, cpu, bridge>>
  BY DEF LargeServes, At, engineVars
<1>2. work[l] \in Locals /\ work[l].next \in Int
  BY <1>0 DEF Types, Locals
<1> DEFINE w == [work[l] EXCEPT !.next = @ + 1]
<1>3. /\ w \in Locals /\ w.pc = work[l].pc /\ w.next = work[l].next + 1 /\ w.seen = work[l].seen
      /\ w.last = work[l].last /\ w.closure = work[l].closure /\ w.armed = work[l].armed
  BY <1>2 DEF Locals
<1>4. work' = [work EXCEPT ![l] = w]
  BY DEF LargeServes
<1> HIDE DEF w
<1>5. WorkIs(l, "top", work[l].next + 1, work[l].seen, work[l].last, work[l].closure, work[l].armed)
  BY <1>0, <1>1, <1>3, <1>4, WorkSetIs
<1>6. LaneIs(l, lane[l].request, work[l].next, lane[l].park, lane[l].drainAck)
  BY <1>0, <1>2, SignalIs DEF LargeServes
<1>7. ComputedIs(l, computed[l] \cup {work[l].next})
  BY <1>0, <1>2 DEF LargeServes, ComputedIs, Types
<1> USE LanesAssumption
    DEF SmallPcs, LargePcs, Holding, Leaving, Armed, Forced, Parking, Flagged, Unlimited
<1>8. Asks(l)' /\ Points(l)'
  BY <1>0, <1>1, <1>5, <1>6
     DEF LaneInv, Asks, Points, PPc, Outstanding, WorkIs, LaneIs, Types, Words, Locals
<1>9. Serving(l)
  BY <1>0, <1>1 DEF LaneInv
<1>10. Bounds(l)'
  BY <1>0, <1>1, <1>5, <1>6, <1>9
     DEF LaneInv, Bounds, Serving, Queue, WorkIs, LaneIs, Types, Words, Locals
<1>11. Serving(l)'
  BY <1>0, <1>1, <1>5, <1>6, <1>7, <1>9
     DEF Serving, Drains, Queue, Met, WorkIs, LaneIs, ComputedIs, Types, Words, Locals
<1>12. LaneInv(l)'
  BY <1>8, <1>10, <1>11 DEF LaneInv
<1> QED
  BY <1>0, <1>1, <1>5, <1>6, <1>7, <1>12, LocalStep, Unwritten DEF Local

\* run_large between requests.
LEMMA LargeSteps ==
  ASSUME IInv, NEW l \in Lanes, LargeIdles(l) \/ LargeSpins(l)
  PROVE  IInv'
<1>0. Types /\ Gate /\ LaneInv(l)
  BY DEF IInv
<1> USE LanesAssumption
    DEF SmallPcs, LargePcs, Holding, Leaving, Armed, Forced, Parking, Flagged, Lanes
<1>1. PICK p \in {"exit", "idle", "top", "quiet"} :
        /\ Moves(l, p) /\ work[l].pc \in {"top", "idle"} /\ l \in LargeLanes
        /\ p = "exit" => stop
        /\ UNCHANGED stop
  <2>1. CASE LargeIdles(l)
    BY <1>0, <2>1, Unwritten DEF LargeIdles, Moves, At, Local, engineVars
  <2>2. CASE LargeSpins(l)
    BY <1>0, <2>2, Unwritten DEF LargeSpins, Moves, At, Local, engineVars, LaneInv, Points
  <2> QED
    BY <2>1, <2>2
<1>2. WorkIs(l, p, work[l].next, work[l].seen, work[l].last, work[l].closure, work[l].armed)
  BY <1>0, <1>1, GoIs DEF Moves
<1>3. Points(l)'
  BY <1>0, <1>1, <1>2 DEF Moves, Local, LaneInv, Points, WorkIs
<1>4. ASSUME ~stop PROVE Serving(l)'
  BY <1>0, <1>1, <1>2, <1>4 DEF Moves, Local, LaneInv, Serving, Drains, Queue, Met, WorkIs
<1>5. lane[l].request <= sent[l]
  BY <1>0, <1>1 DEF LaneInv, Bounds
<1> QED
  BY <1>1, <1>3, <1>4, <1>5, MoveStep

\* run_large takes up a drain.
LEMMA LargeAsksStep ==
  ASSUME IInv, NEW l \in Lanes, LargeAsks(l)
  PROVE  IInv'
<1>0. Types /\ Gate /\ LaneInv(l)
  BY DEF IInv
<1>1. work[l].pc = "quiet" /\ UNCHANGED <<hdr, lane, watch, stream, computed, stop, main, sent, cpu, bridge>>
  BY DEF LargeAsks, At, engineVars
<1>2. work[l] \in Locals /\ lane[l].drainRequest \in Int
  BY <1>0 DEF Types, Words
<1> DEFINE p == IF lane[l].drainRequest # 0 THEN "ack" ELSE "wait"
           w == [work[l] EXCEPT !.pc = p, !.closure = lane[l].drainRequest]
<1>3. work' = [work EXCEPT ![l] = w]
  BY DEF LargeAsks
<1>4. p \in SmallPcs
  BY DEF SmallPcs
<1> HIDE DEF p
<1>5. /\ w \in Locals /\ w.pc = p /\ w.next = work[l].next /\ w.seen = work[l].seen
      /\ w.last = work[l].last /\ w.closure = lane[l].drainRequest /\ w.armed = work[l].armed
  BY <1>2, <1>4 DEF Locals
<1> HIDE DEF w
<1>6. WorkIs(l, p, work[l].next, work[l].seen, work[l].last, lane[l].drainRequest, work[l].armed)
  BY <1>0, <1>3, <1>5, WorkSetIs
<1> USE LanesAssumption
    DEF SmallPcs, LargePcs, Holding, Leaving, Armed, Forced, Parking, Flagged, Lanes
<1>7. Asks(l)'
  BY <1>0, <1>1 DEF LaneInv, Asks, PPc, Outstanding
<1>8. Bounds(l)' /\ Points(l)'
  BY <1>0, <1>1, <1>6 DEF LaneInv, Bounds, Points, WorkIs, Types, Words, Locals, p
<1>9. ASSUME ~stop PROVE Serving(l)'
  BY <1>0, <1>1, <1>6, <1>9
     DEF LaneInv, Points, Serving, Drains, Queue, Met, WorkIs, Types, Words, Locals, p
<1>10. LaneInv(l)'
  BY <1>1, <1>7, <1>8, <1>9 DEF LaneInv
<1> QED
  BY <1>0, <1>1, <1>6, <1>10, LocalStep, Unwritten DEF Local

\* run_small at the top of its loop: waits are queued right after the last
\* completion, and only while no drain is asked for.
LEMMA SmallTurnsStep ==
  ASSUME IInv, NEW l \in Lanes, SmallTurns(l)
  PROVE  IInv'
<1>0. Types /\ Gate /\ LaneInv(l)
  BY DEF IInv
<1>1. /\ l \in SmallLanes /\ work[l].pc = "top"
      /\ UNCHANGED <<hdr, lane, watch, computed, stop, main, sent, cpu, bridge>>
  BY DEF SmallTurns, At, engineVars
<1>2. work[l] \in Locals /\ lane[l].drainRequest \in Int
  BY <1>0 DEF Types, Words
<1> DEFINE arms == ~Asked(l) /\ ~work[l].armed
           p == IF ~Asked(l) THEN "serve" ELSE IF work[l].armed THEN "flag" ELSE "ack"
           a == work[l].armed \/ arms
           n == IF arms THEN Filled(work[l].seen) ELSE work[l].next
           h == IF arms THEN work[l].seen + 1 ELSE stream[l].head
           w == [work[l] EXCEPT !.pc = p, !.closure = lane[l].drainRequest, !.armed = a, !.next = n]
<1>3. work' = [work EXCEPT ![l] = w] /\ stream' = [stream EXCEPT ![l].head = h]
  BY DEF SmallTurns
<1>4. p \in SmallPcs /\ a \in BOOLEAN
  BY DEF SmallPcs, Armed, Forced
<1>5. n \in Int /\ h \in Int
  BY <1>0, LanesAssumption DEF Types, Filled, Locals, Queues
<1> HIDE DEF p, a, n, h
<1>6. /\ w \in Locals /\ w.pc = p /\ w.next = n /\ w.seen = work[l].seen
      /\ w.last = work[l].last /\ w.closure = lane[l].drainRequest /\ w.armed = a
  BY <1>2, <1>4, <1>5 DEF Locals
<1> HIDE DEF w
<1>7. WorkIs(l, p, n, work[l].seen, work[l].last, lane[l].drainRequest, a)
  BY <1>0, <1>3, <1>6, WorkSetIs
<1>8. StreamIs(l, h, stream[l].limit)
  BY <1>0, <1>3, <1>5 DEF Types, StreamIs, Queues
<1> USE LanesAssumption DEF SmallPcs, LargePcs, Holding, Leaving, Armed, Forced, Parking,
       Flagged, Unlimited, p, a, n, h, Asked, Filled
<1>9. Asks(l)'
  BY <1>0, <1>1 DEF LaneInv, Asks, PPc, Outstanding
<1>10. Bounds(l)' /\ Points(l)'
  BY <1>0, <1>1, <1>7, <1>8 DEF LaneInv, Bounds, Points, WorkIs, StreamIs, Types, Words, Locals
<1>11. ASSUME ~stop PROVE Serving(l)'
  <2>1. Serving(l)
    BY <1>0, <1>11 DEF LaneInv
  <2>2. Drains(l)'
    BY <1>0, <1>1, <1>7, <2>1 DEF Serving, Drains, WorkIs, Types, Words, Locals
  <2>3. Queue(l)'
    BY <1>0, <1>1, <1>7, <1>8, <2>1 DEF Serving, Queue, WorkIs, StreamIs, Types, Words, Locals
  <2>4. Met(l)'
    BY <1>7 DEF Met, WorkIs
  <2> QED
    BY <2>2, <2>3, <2>4 DEF Serving
<1>12. LaneInv(l)'
  BY <1>1, <1>9, <1>10, <1>11 DEF LaneInv
<1> QED
  BY <1>0, <1>1, <1>7, <1>8, <1>12, LocalStep, Unwritten DEF Local

\* run_small collects completions: the queue ends QueueDepth after them.
LEMMA SmallServesStep ==
  ASSUME IInv, NEW l \in Lanes, SmallServes(l)
  PROVE  IInv'
<1>0. Types /\ Gate /\ LaneInv(l)
  BY DEF IInv
<1>1. /\ work[l].pc = "serve"
      /\ UNCHANGED <<hdr, lane, watch, stream, computed, stop, main, sent, cpu, bridge>>
  BY DEF SmallServes, At, engineVars
<1>2. work[l] \in Locals /\ lane[l].done \in Int
  BY <1>0 DEF Types, Words
<1> DEFINE d == lane[l].done
           p == IF stop THEN "exit" ELSE IF d > work[l].seen THEN "serve" ELSE "spin"
           s == IF stop THEN work[l].seen ELSE d
           n == IF stop THEN work[l].next ELSE Filled(d)
           w == [work[l] EXCEPT !.pc = p, !.seen = s, !.next = n]
<1>3. work' = [work EXCEPT ![l] = w]
  BY DEF SmallServes
<1>4. p \in SmallPcs
  BY DEF SmallPcs, Armed, Leaving
<1>5. n \in Int /\ s \in Int
  BY <1>2, LanesAssumption DEF Filled, Locals
<1> HIDE DEF p, s, n
<1>6. /\ w \in Locals /\ w.pc = p /\ w.next = n /\ w.seen = s
      /\ w.last = work[l].last /\ w.closure = work[l].closure /\ w.armed = work[l].armed
  BY <1>2, <1>4, <1>5 DEF Locals
<1> HIDE DEF w
<1>7. WorkIs(l, p, n, s, work[l].last, work[l].closure, work[l].armed)
  BY <1>0, <1>3, <1>6, WorkSetIs
<1> USE LanesAssumption DEF SmallPcs, LargePcs, Holding, Leaving, Armed, Forced, Parking,
       Flagged, Unlimited, p, n, s, Filled, Lanes
<1>8. Asks(l)' /\ Points(l)'
  BY <1>0, <1>1, <1>7 DEF LaneInv, Asks, Points, PPc, Outstanding, WorkIs
<1>9. Bounds(l)'
  BY <1>0, <1>1, <1>7
     DEF LaneInv, Serving, Queue, Points, Bounds, WorkIs, Types, Words, Locals, Queues
<1>10. ASSUME ~stop PROVE Serving(l)'
  <2>1. Serving(l)
    BY <1>0, <1>10 DEF LaneInv
  <2>2. Drains(l)'
    BY <1>0, <1>1, <1>7, <2>1 DEF Serving, Drains, WorkIs, Types, Words, Locals
  <2>3. Queue(l)'
    BY <1>0, <1>1, <1>7, <1>10, <2>1
       DEF LaneInv, Points, Serving, Queue, WorkIs, Types, Words, Locals
  <2>4. Met(l)'
    BY <1>7 DEF Met, WorkIs
  <2> QED
    BY <2>2, <2>3, <2>4 DEF Serving
<1>11. LaneInv(l)'
  BY <1>1, <1>8, <1>9, <1>10 DEF LaneInv
<1> QED
  BY <1>0, <1>1, <1>7, <1>11, LocalStep, Unwritten DEF Local

\* run_small at the end of a burst.
LEMMA SmallEndsStep ==
  ASSUME IInv, NEW l \in Lanes, SmallEnds(l)
  PROVE  IInv'
<1>0. Types /\ Gate /\ LaneInv(l)
  BY DEF IInv
<1>1. /\ work[l].pc = "ended"
      /\ UNCHANGED <<hdr, lane, watch, stream, computed, stop, main, sent, cpu, bridge>>
  BY DEF SmallEnds, At, engineVars
<1>2. work[l] \in Locals
  BY <1>0 DEF Types
<1> DEFINE p == IF stop THEN "exit" ELSE IF Asked(l) \/ ~hdr.cfg.powerSave THEN "wait" ELSE "flag"
           w == [work[l] EXCEPT !.pc = p, !.closure = 0]
<1>3. work' = [work EXCEPT ![l] = w]
  BY DEF SmallEnds
<1>4. p \in {"exit", "wait", "flag"} /\ (p = "exit" => stop)
  OBVIOUS
<1>10. p \in SmallPcs /\ 0 \in Int
  BY DEF SmallPcs, Armed, Leaving
<1> HIDE DEF p
<1>5. /\ w \in Locals /\ w.pc = p /\ w.next = work[l].next /\ w.seen = work[l].seen
      /\ w.last = work[l].last /\ w.closure = 0 /\ w.armed = work[l].armed
  BY <1>2, <1>10 DEF Locals
<1> HIDE DEF w
<1>6. WorkIs(l, p, work[l].next, work[l].seen, work[l].last, 0, work[l].armed)
  BY <1>0, <1>3, <1>5, WorkSetIs
<1> USE LanesAssumption DEF SmallPcs, LargePcs, Holding, Leaving, Armed, Forced, Parking,
       Flagged, Unlimited, Lanes
<1>7. Asks(l)' /\ Bounds(l)' /\ Points(l)'
  BY <1>0, <1>1, <1>4, <1>6 DEF LaneInv, Asks, Bounds, Points, PPc, Outstanding, WorkIs
<1>8. ASSUME ~stop PROVE Serving(l)'
  <2>1. Serving(l) /\ Points(l)
    BY <1>0, <1>8 DEF LaneInv
  <2>2. Drains(l)'
    BY <1>0, <1>1, <1>4, <1>6, <2>1 DEF Points, Serving, Drains, WorkIs
  <2>3. Queue(l)'
    BY <1>0, <1>1, <1>4, <1>6, <1>8, <2>1 DEF Points, Serving, Queue, WorkIs
  <2>4. Met(l)'
    BY <1>4, <1>6 DEF Met, WorkIs
  <2> QED
    BY <2>2, <2>3, <2>4 DEF Serving
<1>9. LaneInv(l)'
  BY <1>1, <1>7, <1>8 DEF LaneInv
<1> QED
  BY <1>0, <1>1, <1>6, <1>9, LocalStep, Unwritten DEF Local

\* park_lane's second look at the burst word: a lane goes on parking only under an
\* even one, so no thread that opens a burst later can miss its flag.
LEMMA ParkMoves ==
  ASSUME IInv, NEW l \in Lanes, SmallSpins(l) \/ ParkRechecks(l) \/ ParkNotifies(l)
  PROVE  IInv'
<1>0. Types /\ Gate /\ LaneInv(l)
  BY DEF IInv
<1> USE LanesAssumption DEF SmallPcs, LargePcs, Holding, Leaving, Armed, Forced, Parking,
       Flagged, Lanes
<1>1. PICK p \in {"serve", "ended", "clear", "last", "ack", "wait"} :
        /\ Moves(l, p) /\ UNCHANGED stop
        /\ \/ work[l].pc = "spin" /\ p \in {"serve", "ended"}
           \/ work[l].pc = "recheck" /\ p = IF hdr.burst THEN "clear" ELSE "last"
           \/ work[l].pc = "tell" /\ p = IF work[l].closure # 0 THEN "ack" ELSE "wait"
  <2>1. CASE SmallSpins(l)
    BY <1>0, <2>1, Unwritten DEF SmallSpins, Moves, At, Local, engineVars
  <2>2. CASE ParkRechecks(l)
    BY <1>0, <2>2, Unwritten DEF ParkRechecks, Moves, At, Local, engineVars
  <2>3. CASE ParkNotifies(l)
    BY <1>0, <2>3, Unwritten, WatchIsTyped
       DEF ParkNotifies, Notify, Moves, At, Local, engineVars, Threads
  <2> QED
    BY <2>1, <2>2, <2>3
<1>2. WorkIs(l, p, work[l].next, work[l].seen, work[l].last, work[l].closure, work[l].armed)
  BY <1>0, <1>1, GoIs DEF Moves
<1>3. Points(l)'
  BY <1>0, <1>1, <1>2 DEF Moves, Local, LaneInv, Points, WorkIs
<1>4. ASSUME ~stop PROVE Serving(l)'
  <2>1. Serving(l) /\ Points(l)
    BY <1>0, <1>4 DEF LaneInv
  <2>2. Drains(l)'
    BY <1>0, <1>1, <1>2, <2>1 DEF Moves, Points, Serving, Drains, WorkIs
  <2>3. Queue(l)'
    BY <1>0, <1>1, <1>2, <2>1 DEF Moves, Local, Points, Serving, Queue, WorkIs
  <2>4. Met(l)'
    BY <1>1, <1>2 DEF Moves, Local, Met, WorkIs
  <2> QED
    BY <2>2, <2>3, <2>4 DEF Serving
<1>5. lane[l].request <= sent[l]
  BY <1>0, <1>1 DEF LaneInv, Bounds
<1> QED
  BY <1>1, <1>3, <1>4, <1>5, MoveStep

\* park_lane raises and clears the flag that the engine waits for.
LEMMA ParkFlagSteps ==
  ASSUME IInv, NEW l \in Lanes, ParkFlags(l) \/ ParkClears(l)
  PROVE  IInv'
<1>0. Types /\ Gate /\ LaneInv(l)
  BY DEF IInv
<1> USE LanesAssumption DEF SmallPcs, LargePcs, Holding, Leaving, Armed, Forced, Parking,
       Flagged, Lanes
<1>1. PICK p \in {"last", "recheck", "tell"}, f \in BOOLEAN :
        /\ Go(l, p) /\ Signal(l, "park", f)
        /\ UNCHANGED <<hdr, watch, stream, computed, stop, main, sent, cpu, bridge>>
        /\ \/ work[l].pc = "flag" /\ f /\ p = IF work[l].closure # 0 THEN "last" ELSE "recheck"
           \/ work[l].pc = "clear" /\ ~f /\ p = "tell"
  BY DEF ParkFlags, ParkClears, At, engineVars
<1>2. WorkIs(l, p, work[l].next, work[l].seen, work[l].last, work[l].closure, work[l].armed)
  BY <1>0, <1>1, GoIs
<1>3. LaneIs(l, lane[l].request, lane[l].done, f, lane[l].drainAck)
  BY <1>0, <1>1, SignalIs
<1>4. Asks(l)' /\ Bounds(l)' /\ Points(l)'
  BY <1>0, <1>1, <1>2, <1>3 DEF LaneInv, Asks, Bounds, Points, PPc, Outstanding, WorkIs, LaneIs
<1>5. ASSUME ~stop PROVE Serving(l)'
  <2>1. Serving(l) /\ Points(l)
    BY <1>0, <1>5 DEF LaneInv
  <2>2. Drains(l)'
    BY <1>0, <1>1, <1>2, <1>3, <2>1 DEF Points, Serving, Drains, WorkIs, LaneIs
  <2>3. Queue(l)'
    BY <1>0, <1>1, <1>2, <1>3, <2>1 DEF Points, Serving, Queue, WorkIs, LaneIs
  <2>4. Met(l)'
    BY <1>1, <1>2, <1>3, <2>1 DEF Met, Serving, Drains, WorkIs, LaneIs
  <2> QED
    BY <2>2, <2>3, <2>4 DEF Serving
<1>6. LaneInv(l)'
  BY <1>1, <1>4, <1>5 DEF LaneInv
<1> QED
  BY <1>0, <1>1, <1>2, <1>3, <1>6, LocalStep, Unwritten DEF Local

\* park_lane reads the last request sent.
LEMMA ParkLoadsStep ==
  ASSUME IInv, NEW l \in Lanes, ParkLoads(l)
  PROVE  IInv'
<1>0. Types /\ Gate /\ LaneInv(l)
  BY DEF IInv
<1>1. /\ work[l].pc = "last"
      /\ UNCHANGED <<hdr, lane, watch, stream, computed, stop, main, sent, cpu, bridge>>
  BY DEF ParkLoads, At, engineVars
<1>2. work[l] \in Locals /\ lane[l].request \in Int /\ "settle" \in SmallPcs
  BY <1>0 DEF Types, Words, SmallPcs, Armed, Parking
<1> DEFINE w == [work[l] EXCEPT !.last = lane[l].request, !.pc = "settle"]
<1>3. work' = [work EXCEPT ![l] = w]
  BY DEF ParkLoads
<1>4. /\ w \in Locals /\ w.pc = "settle" /\ w.next = work[l].next /\ w.seen = work[l].seen
      /\ w.last = lane[l].request /\ w.closure = work[l].closure /\ w.armed = work[l].armed
  BY <1>2 DEF Locals
<1> HIDE DEF w
<1>5. WorkIs(l, "settle", work[l].next, work[l].seen, lane[l].request, work[l].closure, work[l].armed)
  BY <1>0, <1>3, <1>4, WorkSetIs
<1> USE LanesAssumption DEF SmallPcs, LargePcs, Holding, Leaving, Armed, Forced, Parking,
       Flagged, Lanes
<1>6. Asks(l)' /\ Bounds(l)' /\ Points(l)'
  BY <1>0, <1>1, <1>5 DEF LaneInv, Asks, Bounds, Points, PPc, Outstanding, WorkIs
<1>7. ASSUME ~stop PROVE Serving(l)'
  <2>1. Serving(l) /\ Points(l)
    BY <1>0, <1>7 DEF LaneInv
  <2>2. Drains(l)'
    BY <1>0, <1>1, <1>5, <2>1 DEF Serving, Drains, WorkIs
  <2>3. Queue(l)'
    BY <1>0, <1>1, <1>5, <2>1 DEF Points, Serving, Queue, WorkIs
  <2>4. Met(l)'
    BY <1>1, <1>5, <2>1 DEF Serving, Met, WorkIs, EPc, PPc, Outstanding
  <2> QED
    BY <2>2, <2>3, <2>4 DEF Serving
<1>8. LaneInv(l)'
  BY <1>1, <1>6, <1>7 DEF LaneInv
<1> QED
  BY <1>0, <1>1, <1>5, <1>8, LocalStep, Unwritten DEF Local

\* park_lane releases the waits above the last request, limit first.
LEMMA ParkReleasesStep ==
  ASSUME IInv, NEW l \in Lanes, ParkReleases(l)
  PROVE  IInv'
<1>0. Types /\ Gate /\ LaneInv(l)
  BY DEF IInv
<1>1. /\ work[l].pc = "settle"
      /\ UNCHANGED <<hdr, watch, computed, stop, main, sent, cpu, bridge>>
  BY DEF ParkReleases, At, engineVars
<1>2. work[l] \in Locals /\ work[l].next \in Int /\ work[l].last \in Int
  BY <1>0 DEF Types, Locals
<1>3. CASE stop
  <2>1. Moves(l, "exit")
    BY <1>0, <1>1, <1>3, Unwritten DEF ParkReleases, Moves, Local, SmallPcs, Leaving
  <2>2. WorkIs(l, "exit", work[l].next, work[l].seen, work[l].last, work[l].closure, work[l].armed)
    BY <1>0, <2>1, GoIs DEF Moves
  <2>3. Points(l)'
    BY <1>0, <1>1, <1>3, <2>2
       DEF LaneInv, Points, WorkIs, SmallPcs, LargePcs, Holding, Leaving, Armed, Parking
  <2> QED
    BY <1>1, <1>3, <2>1, <2>3, MoveStep DEF Leaving
<1>4. CASE ~stop
  <2>1. /\ Go(l, "drain") /\ Signal(l, "request", work[l].next - 1)
        /\ stream' = [stream EXCEPT ![l].limit = work[l].last] /\ lane[l].done = work[l].last
    BY <1>4 DEF ParkReleases, ParkLimit
  <2>2. WorkIs(l, "drain", work[l].next, work[l].seen, work[l].last, work[l].closure, work[l].armed)
    BY <1>0, <2>1, GoIs DEF SmallPcs, Armed, Parking
  <2>3. LaneIs(l, work[l].next - 1, lane[l].done, lane[l].park, lane[l].drainAck)
    BY <1>0, <1>2, <2>1, SignalIs
  <2>4. StreamIs(l, stream[l].head, work[l].last)
    BY <1>0, <1>2, <2>1 DEF Types, StreamIs, Queues
  <2> USE LanesAssumption DEF SmallPcs, LargePcs, Holding, Leaving, Armed, Forced, Parking,
       Flagged, Lanes, Unlimited
  <2>5. Asks(l)' /\ Points(l)'
    BY <1>0, <1>1, <2>2, <2>3 DEF LaneInv, Asks, Points, PPc, Outstanding, WorkIs, LaneIs
  <2>6. Bounds(l)'
    BY <1>0, <1>1, <1>2, <2>2, <2>3, <2>4
       DEF LaneInv, Bounds, WorkIs, LaneIs, StreamIs, Types, Words, Queues
  <2>7. Serving(l) /\ Points(l)
    BY <1>0, <1>4 DEF LaneInv
  <2>8. Drains(l)'
    BY <1>0, <1>1, <2>2, <2>3, <2>7 DEF Serving, Drains, WorkIs, LaneIs
  <2>9. Queue(l)'
    BY <1>0, <1>1, <2>1, <2>2, <2>3, <2>4, <2>7
       DEF Points, Serving, Queue, WorkIs, LaneIs, StreamIs, Types, Words, Locals, Queues
  <2>10. Met(l)'
    BY <1>1, <2>2, <2>3, <2>7 DEF Serving, Met, WorkIs, LaneIs, EPc, PPc, Outstanding
  <2>11. LaneInv(l)'
    BY <2>5, <2>6, <2>8, <2>9, <2>10 DEF LaneInv, Serving
  <2> QED
    BY <1>0, <1>1, <2>2, <2>3, <2>4, <2>11, LocalStep, Unwritten DEF Local
<1> QED
  BY <1>3, <1>4

\* park_lane once the stream has run: the word is given back its last request.
LEMMA ParkDrainsStep ==
  ASSUME IInv, NEW l \in Lanes, ParkDrains(l)
  PROVE  IInv'
<1>0. Types /\ Gate /\ LaneInv(l)
  BY DEF IInv
<1>1. /\ work[l].pc = "drain" /\ (l \in SmallLanes => stream[l].head = work[l].next)
      /\ UNCHANGED <<hdr, watch, computed, stop, main, sent, cpu, bridge>>
  BY DEF ParkDrains, At, Drained, engineVars
<1>2. work[l] \in Locals /\ work[l].last \in Int /\ "clear" \in SmallPcs
  BY <1>0 DEF Types, Locals, SmallPcs, Forced
<1> DEFINE w == [work[l] EXCEPT !.seen = work[l].last, !.armed = FALSE, !.pc = "clear"]
<1>3. work' = [work EXCEPT ![l] = w]
  BY DEF ParkDrains
<1>4. /\ w \in Locals /\ w.pc = "clear" /\ w.next = work[l].next /\ w.seen = work[l].last
      /\ w.last = work[l].last /\ w.closure = work[l].closure /\ w.armed = FALSE
  BY <1>2 DEF Locals
<1> HIDE DEF w
<1>5. WorkIs(l, "clear", work[l].next, work[l].last, work[l].last, work[l].closure, FALSE)
  BY <1>0, <1>3, <1>4, WorkSetIs
<1>6. LaneIs(l, work[l].last, lane[l].done, lane[l].park, lane[l].drainAck)
  BY <1>0, <1>2, SignalIs DEF ParkDrains
<1>7. StreamIs(l, stream[l].head, Unlimited)
  BY <1>0, LanesAssumption DEF ParkDrains, Types, StreamIs, Queues, Unlimited
<1> USE LanesAssumption DEF SmallPcs, LargePcs, Holding, Leaving, Armed, Forced, Parking,
     Flagged, Lanes, Unlimited
<1>8. Asks(l)' /\ Points(l)'
  BY <1>0, <1>1, <1>5, <1>6 DEF LaneInv, Asks, Points, PPc, Outstanding, WorkIs, LaneIs
<1>9. Bounds(l)'
  BY <1>0, <1>1, <1>2, <1>5, <1>6, <1>7
     DEF LaneInv, Bounds, WorkIs, LaneIs, StreamIs, Types, Words, Queues
<1>10. ASSUME ~stop PROVE Serving(l)'
  <2>1. Serving(l) /\ Points(l)
    BY <1>0, <1>10 DEF LaneInv
  <2>2. Drains(l)'
    BY <1>0, <1>1, <1>5, <1>6, <2>1 DEF Serving, Drains, WorkIs, LaneIs
  <2>3. Queue(l)'
    BY <1>0, <1>1, <1>5, <1>6, <1>7, <2>1
       DEF Points, Serving, Queue, WorkIs, LaneIs, StreamIs, Types, Words, Locals, Queues
  <2>4. Met(l)'
    BY <1>5 DEF Met, WorkIs
  <2> QED
    BY <2>2, <2>3, <2>4 DEF Serving
<1>11. LaneInv(l)'
  BY <1>1, <1>8, <1>9, <1>10 DEF LaneInv
<1> QED
  BY <1>0, <1>1, <1>5, <1>6, <1>7, <1>11, LocalStep, Unwritten DEF Local

\* The stream passes one wait: the next request's, or, released, one beyond the
\* publish limit.
LEMMA StreamRunsStep ==
  ASSUME IInv, NEW l \in Lanes, StreamRuns(l)
  PROVE  IInv'
<1>0. Types /\ Gate /\ LaneInv(l)
  BY DEF IInv
<1> DEFINE h == stream[l].head
           d == IF h <= stream[l].limit THEN h ELSE lane[l].done
           c == IF h <= sent[l] THEN computed[l] \cup {h} ELSE computed[l]
<1>1. /\ l \in SmallLanes /\ h < work[l].next /\ lane[l].request >= h
      /\ UNCHANGED <<hdr, watch, work, stop, main, sent, cpu, bridge>>
      /\ stream' = [stream EXCEPT ![l].head = h + 1]
      /\ computed' = [computed EXCEPT ![l] = c] /\ Signal(l, "done", d)
  BY DEF StreamRuns, engineVars
<1>2. h \in Int /\ d \in Int /\ c \in SUBSET Int
  BY <1>0 DEF Types, Queues, Words
<1> HIDE DEF d, c
<1>3. WorkIs(l, work[l].pc, work[l].next, work[l].seen, work[l].last, work[l].closure, work[l].armed)
  BY <1>0, <1>1 DEF WorkIs, Types
<1>4. LaneIs(l, lane[l].request, d, lane[l].park, lane[l].drainAck)
  BY <1>0, <1>1, <1>2, SignalIs
<1>5. StreamIs(l, h + 1, stream[l].limit)
  BY <1>0, <1>1, <1>2 DEF Types, StreamIs, Queues
<1>6. ComputedIs(l, c)
  BY <1>0, <1>1, <1>2 DEF Types, ComputedIs
<1> USE LanesAssumption DEF Parking, Flagged, Unlimited, Lanes
<1>7. Asks(l)' /\ Points(l)'
  BY <1>0, <1>1, <1>4 DEF LaneInv, Asks, Points, PPc, Outstanding, LaneIs
<1>8. Bounds(l)'
  BY <1>0, <1>1, <1>2, <1>4, <1>5
     DEF LaneInv, Bounds, LaneIs, StreamIs, Types, Words, Locals, Queues, d
<1>9. ASSUME ~stop PROVE Serving(l)'
  <2>1. Serving(l) /\ Points(l) /\ Bounds(l)
    BY <1>0, <1>9 DEF LaneInv
  <2>2. Drains(l)' /\ Met(l)'
    BY <1>1, <1>4, <2>1 DEF Serving, Drains, Met, EPc, PPc, Outstanding, LaneIs
  <2>3. CASE work[l].pc = "drain"
    <3>1. d = lane[l].done /\ c = computed[l]
      BY <1>0, <1>1, <1>2, <2>1, <2>3
         DEF Serving, Queue, Points, Armed, Types, Words, Locals, Queues, d, c
    <3>2. Queue(l)'
      BY <1>0, <1>1, <1>2, <1>4, <1>5, <1>6, <2>1, <2>3, <3>1
         DEF Serving, Queue, Points, Armed, LaneIs, StreamIs, ComputedIs, Types, Words, Locals, Queues
    <3> QED
      BY <2>2, <3>2 DEF Serving
  <2>4. CASE work[l].pc # "drain"
    <3>1. /\ work[l].armed /\ h = lane[l].done + 1 /\ h <= sent[l]
          /\ d = h /\ c = computed[l] \cup {h}
      BY <1>0, <1>1, <1>2, <2>1, <2>4
         DEF Serving, Queue, Bounds, Types, Words, Locals, Queues, d, c
    <3>2. \A i \in 1 .. h : i \in c
      BY <1>0, <1>2, <2>1, <3>1 DEF Serving, Queue, Types, Words
    <3>3. Queue(l)'
      BY <1>0, <1>1, <1>2, <1>4, <1>5, <1>6, <2>1, <2>4, <3>1, <3>2
         DEF Serving, Queue, LaneIs, StreamIs, ComputedIs, Types, Words, Locals, Queues
    <3> QED
      BY <2>2, <3>3 DEF Serving
  <2> QED
    BY <2>3, <2>4
<1>10. LaneInv(l)'
  BY <1>1, <1>7, <1>8, <1>9 DEF LaneInv
<1> QED
  BY <1>0, <1>1, <1>3, <1>4, <1>5, <1>6, <1>10, LocalStep, Unwritten DEF Local

\* A failing lane, and a lane whose stream has drained on its way out.
LEMMA ExitMoves ==
  ASSUME IInv, NEW l \in Lanes, LaneFails(l) \/ LaneFinishes(l)
  PROVE  IInv'
<1>0. Types /\ Gate /\ LaneInv(l)
  BY DEF IInv
<1> USE LanesAssumption DEF SmallPcs, LargePcs, Holding, Leaving, Armed, Forced, Parking,
       Flagged, Lanes
<1>1. PICK p \in {"exit", "gone"} :
        /\ Moves(l, p) /\ stop' /\ l \in hdr.cfg.served
  <2>1. CASE LaneFails(l)
    BY <1>0, <2>1, Unwritten
       DEF LaneFails, Moves, At, Local, MayStop, engineVars, LaneInv, Points
  <2>2. CASE LaneFinishes(l)
    BY <1>0, <2>2, Unwritten DEF LaneFinishes, Moves, At, Local, engineVars, LaneInv, Points
  <2> QED
    BY <2>1, <2>2
<1>2. WorkIs(l, p, work[l].next, work[l].seen, work[l].last, work[l].closure, work[l].armed)
  BY <1>0, <1>1, GoIs DEF Moves
<1>3. Points(l)'
  BY <1>0, <1>1, <1>2 DEF Moves, Local, LaneInv, Points, WorkIs
<1> QED
  BY <1>1, <1>3, MoveStep

\* A lane that leaves releases its waits, only when the helper is stopping.
LEMMA LaneExitsStep ==
  ASSUME IInv, NEW l \in Lanes, LaneExits(l)
  PROVE  IInv'
<1>0. Types /\ Gate /\ LaneInv(l)
  BY DEF IInv
<1> USE LanesAssumption DEF SmallPcs, LargePcs, Holding, Leaving, Armed, Forced, Parking,
       Flagged, Lanes, Unlimited
<1>1. /\ work[l].pc = "exit" /\ Go(l, "finish")
      /\ UNCHANGED <<hdr, watch, stream, computed, stop, main, sent, cpu, bridge>>
  BY DEF LaneExits, At, engineVars
<1>2. WorkIs(l, "finish", work[l].next, work[l].seen, work[l].last, work[l].closure, work[l].armed)
  BY <1>0, <1>1, GoIs
<1>3. stop
  BY <1>0, <1>1 DEF LaneInv, Points
<1>4. PICK q \in Int : /\ LaneIs(l, q, lane[l].done, lane[l].park, lane[l].drainAck)
                       /\ q = lane[l].request \/ q = work[l].next - 1
  BY <1>0, SignalIs, Unwritten DEF LaneExits, Types, Words, Locals
<1>5. Asks(l)' /\ Points(l)'
  BY <1>0, <1>1, <1>2, <1>3, <1>4 DEF LaneInv, Asks, Points, PPc, Outstanding, WorkIs, LaneIs
<1>6. Bounds(l)'
  BY <1>0, <1>1, <1>2, <1>4 DEF LaneInv, Bounds, WorkIs, LaneIs, Types, Words, Locals, Queues
<1>7. LaneInv(l)'
  BY <1>1, <1>3, <1>5, <1>6 DEF LaneInv
<1> QED
  BY <1>0, <1>1, <1>2, <1>4, <1>7, LocalStep, Unwritten DEF Local

-----------------------------------------------------------------------------
(* The helper's main thread.                                               *)

\* stop_and_join, and what asks for it: nothing is promised of a helper that stops.
LEMMA StopSteps ==
  ASSUME IInv, StopRequested \/ StopWakes \/ StopFaults \/ StopJoins
  PROVE  IInv'
<1>0. Types /\ Gate
  BY DEF IInv
<1>1. /\ UNCHANGED <<lane, work, stream, computed, sent, cpu, bridge>>
      /\ hdr' \in [burst : BOOLEAN, stop : BOOLEAN, fault : BOOLEAN, cfg : Settings]
      /\ hdr'.burst = hdr.burst /\ hdr'.cfg = hdr.cfg /\ watch' \in Watches
      /\ stop' = TRUE
  <2>1. CASE StopRequested
    BY <1>0, <2>1 DEF StopRequested, engineVars, Types, Watches
  <2>2. CASE StopWakes
    BY <1>0, <2>2 DEF StopWakes, Move, Moved, engineVars, Types, Watches
  <2>3. CASE StopFaults
    BY <1>0, <2>3 DEF StopFaults, Notify, Move, Moved, engineVars, Types, Watches, Gate
  <2>4. CASE StopJoins
    BY <1>0, <2>4 DEF StopJoins, engineVars, Types, Watches, Gate
  <2> QED
    BY <2>1, <2>2, <2>3, <2>4
<1>2. Types'
  BY <1>0, <1>1 DEF Types, Watches
<1>3. Gate'
  BY <1>0, <1>1 DEF Gate, EPc, PPc, Outstanding
<1>4. ASSUME NEW m \in Lanes PROVE LaneInv(m)'
  <2>1. LaneInv(m)
    BY DEF IInv
  <2> QED
    BY <1>1, <2>1 DEF LaneInv, Asks, Bounds, Points, PPc, Outstanding
<1> QED
  BY <1>2, <1>3, <1>4 DEF IInv

\* stop_and_join clears the park flags.
LEMMA StopClearsParksStep ==
  ASSUME IInv, StopClearsParks
  PROVE  IInv'
<1>0. Types /\ Gate
  BY DEF IInv
<1>1. /\ UNCHANGED <<hdr, watch, work, stream, computed, stop, sent, cpu, bridge>>
      /\ lane' = [l \in Lanes |-> [lane[l] EXCEPT !.park = @ /\ l \notin hdr.cfg.served]]
      /\ stop
  BY <1>0 DEF StopClearsParks, engineVars, Gate
<1>2. ASSUME NEW m \in Lanes
      PROVE  /\ lane'[m] \in Words /\ lane'[m].request = lane[m].request
             /\ lane'[m].done = lane[m].done /\ lane'[m].consumed = lane[m].consumed
             /\ lane'[m].drainRequest = lane[m].drainRequest
             /\ lane'[m].drainAck = lane[m].drainAck
  <2> DEFINE f == lane[m].park /\ m \notin hdr.cfg.served
  <2>1. f \in BOOLEAN /\ lane[m] \in Words
    BY <1>0 DEF Types
  <2>2. lane'[m] = [lane[m] EXCEPT !.park = f]
    BY <1>1
  <2> HIDE DEF f
  <2> QED
    BY <2>1, <2>2 DEF Words
<1>3. Types'
  <2>1. lane' \in [Lanes -> Words]
    BY <1>1, <1>2
  <2> QED
    BY <1>0, <1>1, <2>1 DEF Types
<1>4. Gate'
  BY <1>0, <1>1 DEF Gate, EPc, PPc, Outstanding
<1>5. ASSUME NEW m \in Lanes PROVE LaneInv(m)'
  <2>1. LaneInv(m)
    BY DEF IInv
  <2> QED
    BY <1>1, <1>2, <2>1 DEF LaneInv, Asks, Bounds, Points, PPc, Outstanding
<1> QED
  BY <1>3, <1>4, <1>5 DEF IInv

-----------------------------------------------------------------------------
(* What a step of the engine writes.                                       *)

Cpus == [pc : EnginePcs \cup PlacementPcs, todo : SUBSET Lanes]
Headers == [burst : BOOLEAN, stop : BOOLEAN, fault : BOOLEAN, cfg : Settings]
Bridges == [want : BOOLEAN, draining : BOOLEAN, gate : {"open", "closed", "stopped"},
            closure : Int]

CpuIs(t, p, s) ==
  /\ cpu' \in [{Engine, Placement} -> Cpus]
  /\ \A u \in {Engine, Placement} \ {t} : cpu'[u] = cpu[u]
  /\ cpu'[t].pc = p /\ cpu'[t].todo = s

HdrIs(b, f) ==
  /\ hdr' \in Headers
  /\ hdr'.burst = b /\ hdr'.fault = f /\ hdr'.stop = hdr.stop /\ hdr'.cfg = hdr.cfg

BridgeIs(w, d, g, k) ==
  /\ bridge' \in Bridges
  /\ bridge'.want = w /\ bridge'.draining = d /\ bridge'.gate = g /\ bridge'.closure = k

\* A turn of one thread of the engine leaves the other alone.
LEMMA TurnIs ==
  ASSUME Types, NEW t \in {Engine, Placement}, NEW p \in EnginePcs \cup PlacementPcs
  PROVE  /\ Turn(t, p) => CpuIs(t, p, cpu[t].todo)
         /\ \A s \in SUBSET Lanes : Turns(t, p, s) => CpuIs(t, p, s)
<1>0. cpu \in [{Engine, Placement} -> Cpus]
  BY DEF Types, Cpus
<1>1. ASSUME Turn(t, p) PROVE CpuIs(t, p, cpu[t].todo)
  BY <1>0, <1>1 DEF Turn, CpuIs, Cpus
<1>2. ASSUME NEW s \in SUBSET Lanes, Turns(t, p, s) PROVE CpuIs(t, p, s)
  BY <1>0, <1>2 DEF Turns, CpuIs, Cpus
<1> QED
  BY <1>1, <1>2

\* One field of the header written.
LEMMA HeaderIs ==
  ASSUME Types
  PROVE  /\ UNCHANGED hdr => HdrIs(hdr.burst, hdr.fault)
         /\ \A b \in BOOLEAN : hdr' = [hdr EXCEPT !.burst = b] => HdrIs(b, hdr.fault)
         /\ \A f \in BOOLEAN : hdr' = [hdr EXCEPT !.fault = f] => HdrIs(hdr.burst, f)
BY DEF Types, HdrIs, Headers

\* A step of the engine that writes no word of a lane keeps all but the drain
\* words' meaning and the handshake with lanes that park.
LEMMA ThreadStep ==
  ASSUME IInv, UNCHANGED <<lane, sent, helperVars>>, watch' \in Watches, Gate',
         NEW t \in {Engine, Placement}, NEW p, NEW s, CpuIs(t, p, s),
         NEW b, NEW f, HdrIs(b, f), bridge' \in Bridges,
         \A m \in Lanes : Asks(m)' /\ (~stop => Met(m)')
  PROVE  IInv'
<1>0. Types
  BY DEF IInv
<1>1. Types'
  BY <1>0 DEF helperVars, Types, Watches, Cpus, CpuIs, Headers, HdrIs, Bridges
<1>2. ASSUME NEW m \in Lanes PROVE LaneInv(m)'
  <2>1. LaneInv(m)
    BY DEF IInv
  <2>2. Bounds(m)' /\ Points(m)'
    BY <2>1 DEF helperVars, HdrIs, LaneInv, Bounds, Points
  <2>3. ASSUME ~stop PROVE Drains(m)' /\ Queue(m)'
    BY <2>1, <2>3 DEF helperVars, LaneInv, Serving, Drains, Queue
  <2> QED
    BY <2>2, <2>3 DEF helperVars, LaneInv, Serving
<1> QED
  BY <1>1, <1>2 DEF IInv

-----------------------------------------------------------------------------
(* The engine's scheduler.                                                 *)

\* The scheduler's steps that write neither the burst word nor a lane's words.
LEMMA EngineMoves ==
  ASSUME IInv, ParksStep(Engine) \/ ParksFault \/ Admits \/ Traps \/ Retires
  PROVE  IInv'
<1>0. Types /\ Gate
  BY DEF IInv
<1> USE DEF EnginePcs, PlacementPcs, Waits, Draining, Undrained
<1>1. /\ Engine \in {Engine, Placement} /\ Engine # Placement /\ EPc \in EnginePcs
      /\ Engine \in Threads /\ cpu[Engine].todo \in SUBSET Lanes
  BY <1>0 DEF Gate, Engine, Placement, Threads, Types
<1>2. PICK p \in EnginePcs, s \in SUBSET Lanes :
        /\ CpuIs(Engine, p, s) /\ watch' \in Watches
        /\ UNCHANGED <<hdr, lane, helperVars, sent, bridge>>
        /\ \/ EPc \in Waits /\ p \in Waits /\ s = cpu[Engine].todo
           \/ /\ EPc \in Waits /\ p \in Waits \cup {"busy"}
              /\ \A l \in cpu[Engine].todo \ s : l \in Lanes => ~lane[l].park
              /\ p = "busy" => s = {}
           \/ EPc \in Waits /\ p = "busy" /\ hdr.fault
           \/ EPc = "busy" /\ p = "admitted" /\ bridge.gate = "open" /\ ~hdr.fault
           \/ EPc \in {"busy", "published"} /\ p = "stopped"
           \/ EPc = "admitted" /\ p = "busy"
  <2>1. CASE ParksLoad(Engine)
    BY <1>0, <1>1, <2>1, TurnIs, WatchIsTyped DEF ParksLoad, Ready, EPc
  <2>2. CASE ParksSeen(Engine)
    <3> DEFINE l == Min(cpu[Engine].todo)
    <3>1. /\ EPc = "see" /\ UNCHANGED <<hdr, lane, watch, helperVars, sent, bridge>>
          /\ IF lane[l].park THEN Turn(Engine, "nap")
             ELSE Turns(Engine, IF cpu[Engine].todo = {l} THEN "busy" ELSE "parks",
                        cpu[Engine].todo \ {l})
      BY <2>2 DEF ParksSeen, Ready, EPc, AfterParks
    <3> HIDE DEF l
    <3>2. watch' \in Watches
      BY <1>0, <3>1 DEF Types, Watches
    <3>3. CASE lane[l].park
      BY <1>0, <1>1, <3>1, <3>2, <3>3, TurnIs
    <3>4. CASE ~lane[l].park
      <4>1. CpuIs(Engine, IF cpu[Engine].todo = {l} THEN "busy" ELSE "parks", cpu[Engine].todo \ {l})
        BY <1>0, <1>1, <3>1, <3>4, TurnIs
      <4> QED
        BY <1>1, <3>1, <3>2, <3>4, <4>1
    <3> QED
      BY <3>3, <3>4
  <2>3. CASE ParksWake(Engine)
    BY <1>0, <1>1, <2>3, TurnIs DEF ParksWake, Ready, EPc, Types, Watches
  <2>4. CASE ParksFault
    BY <1>0, <1>1, <2>4, TurnIs, WatchIsTyped DEF ParksFault, Notify, Ready, EPc
  <2>5. CASE Admits
    BY <1>0, <1>1, <2>5, TurnIs DEF Admits, Ready, EPc, Types, Watches
  <2>6. CASE Traps
    BY <1>0, <1>1, <2>6, TurnIs DEF Traps, Ready, EPc, Types, Watches
  <2>7. CASE Retires
    BY <1>0, <1>1, <2>7, TurnIs DEF Retires, Ready, EPc, Types, Watches
  <2> QED
    BY <2>1, <2>2, <2>3, <2>4, <2>5, <2>6, <2>7 DEF ParksStep
<1>3. cpu'[Placement] = cpu[Placement] /\ EPc' = p /\ PPc' = PPc /\ cpu'[Engine].todo = s
  BY <1>1, <1>2 DEF CpuIs, EPc, PPc
<1>4. Outstanding' => Outstanding \/ (PPc = "idle" /\ ~bridge.draining)
  BY <1>0, <1>2, <1>3 DEF Outstanding, Gate, EPc
<1>5. Gate'
  BY <1>0, <1>2, <1>3, <1>4 DEF Gate, EPc, helperVars
<1>6. ASSUME NEW m \in Lanes PROVE Asks(m)' /\ (~stop => Met(m)')
  <2>1. LaneInv(m)
    BY DEF IInv
  <2>2. Asks(m)'
    BY <1>2, <1>3, <1>4, <2>1 DEF LaneInv, Asks
  <2>3. ASSUME ~stop PROVE Met(m)'
    <3>1. Met(m) /\ (lane[m].park <=> work[m].pc \in Flagged)
      BY <2>1, <2>3 DEF LaneInv, Serving, Queue
    <3>2. EPc \in Waits => ~Outstanding
      BY DEF EPc, Outstanding
    <3>3. EPc' \in Waits \cup {"busy", "stopped"} => ~Outstanding'
      BY DEF EPc, Outstanding
    <3> QED
      BY <1>2, <1>3, <3>1, <3>2, <3>3 DEF Met, helperVars, Flagged, Outstanding, EPc
  <2> QED
    BY <2>2, <2>3
<1> QED
  BY <1>0, <1>1, <1>2, <1>5, <1>6, ThreadStep, HeaderIs DEF Types, Bridges

\* burst_want written.
LEMMA WantIs ==
  ASSUME Types, NEW w \in BOOLEAN, bridge' = [bridge EXCEPT !.want = w]
  PROVE  BridgeIs(w, bridge.draining, bridge.gate, bridge.closure)
BY DEF Types, BridgeIs, Bridges

\* apply_burst.
LEMMA BurstIs ==
  ASSUME Types, NEW w \in BOOLEAN
  PROVE  ApplyBurst(w) => HdrIs(w, hdr.fault) /\ watch' \in Watches
BY HeaderIs DEF ApplyBurst, Move, Moved, Types, Watches

\* burst_transition, begin: from an even word it leaves all lanes to be waited for.
LEMMA BurstBeginsStep ==
  ASSUME IInv, BurstBegins
  PROVE  IInv'
<1>0. Types /\ Gate
  BY DEF IInv
<1> USE DEF EnginePcs, PlacementPcs, Waits, Draining, Undrained
<1>1. /\ Engine \in {Engine, Placement} /\ Engine # Placement
      /\ cpu[Engine].todo \in SUBSET Lanes /\ Lanes \in SUBSET Lanes
  BY <1>0 DEF Engine, Placement, Types
<1>2. /\ EPc = "idle" /\ bridge' = [bridge EXCEPT !.want = TRUE]
      /\ UNCHANGED <<lane, sent, helperVars>>
  BY DEF BurstBegins, Ready, EPc
<1>3. BridgeIs(TRUE, bridge.draining, bridge.gate, bridge.closure)
  BY <1>0, <1>2, WantIs
<1>4. ~hdr.burst
  BY <1>0, <1>2 DEF Gate
<1>5. CASE bridge.draining
  <2>1. CpuIs(Engine, "busy", cpu[Engine].todo) /\ UNCHANGED <<hdr, watch>>
    BY <1>0, <1>1, <1>5, TurnIs DEF BurstBegins
  <2>2. cpu'[Placement] = cpu[Placement] /\ EPc' = "busy" /\ PPc' = PPc
    BY <1>1, <2>1 DEF CpuIs, EPc, PPc
  <2>3. ~Outstanding'
    BY <2>2 DEF Outstanding, EPc
  <2>4. Gate'
    BY <1>0, <1>2, <1>3, <1>5, <2>1, <2>2, <2>3 DEF Gate, BridgeIs, helperVars
  <2>5. ASSUME NEW m \in Lanes PROVE Asks(m)' /\ (~stop => Met(m)')
    BY <1>2, <1>3, <1>4, <2>1, <2>2, <2>3 DEF IInv, LaneInv, Asks, BridgeIs, Met
  <2> QED
    BY <1>0, <1>1, <1>2, <1>3, <2>1, <2>4, <2>5, ThreadStep, HeaderIs
       DEF BridgeIs, Types, Watches
<1>6. CASE ~bridge.draining
  <2>1. /\ CpuIs(Engine, "parks", Lanes) /\ HdrIs(TRUE, hdr.fault) /\ watch' \in Watches
    BY <1>0, <1>1, <1>4, <1>6, TurnIs, BurstIs DEF BurstBegins, Opens
  <2>2. /\ cpu'[Placement] = cpu[Placement] /\ EPc' = "parks" /\ PPc' = PPc
        /\ cpu'[Engine].todo = Lanes
    BY <1>1, <2>1 DEF CpuIs, EPc, PPc
  <2>3. ~Outstanding'
    BY <2>2 DEF Outstanding, EPc
  <2>4. Gate'
    BY <1>0, <1>2, <1>3, <1>6, <2>1, <2>2, <2>3 DEF Gate, BridgeIs, HdrIs, helperVars
  <2>5. ASSUME NEW m \in Lanes PROVE Asks(m)' /\ (~stop => Met(m)')
    BY <1>2, <1>3, <2>1, <2>2, <2>3 DEF IInv, LaneInv, Asks, BridgeIs, HdrIs, Met
  <2> QED
    BY <1>1, <1>2, <1>3, <2>1, <2>4, <2>5, ThreadStep DEF BridgeIs
<1> QED
  BY <1>0, <1>5, <1>6 DEF Types

\* burst_transition, end: the word is even.
LEMMA BurstEndsStep ==
  ASSUME IInv, BurstEnds
  PROVE  IInv'
<1>0. Types /\ Gate
  BY DEF IInv
<1> USE DEF EnginePcs, PlacementPcs, Waits, Draining, Undrained
<1>1. /\ Engine \in {Engine, Placement} /\ Engine # Placement
      /\ cpu[Engine].todo \in SUBSET Lanes
  BY <1>0 DEF Engine, Placement, Types
<1>2. /\ EPc = "busy" /\ bridge' = [bridge EXCEPT !.want = FALSE]
      /\ UNCHANGED <<lane, sent, helperVars>>
      /\ IF bridge.draining THEN UNCHANGED <<hdr, watch>> ELSE ApplyBurst(FALSE)
      /\ CpuIs(Engine, "idle", cpu[Engine].todo)
  BY <1>0, <1>1, TurnIs DEF BurstEnds, Ready, EPc
<1>3. BridgeIs(FALSE, bridge.draining, bridge.gate, bridge.closure)
  BY <1>0, <1>2, WantIs
<1>4. HdrIs(FALSE, hdr.fault) /\ watch' \in Watches
  <2>1. CASE bridge.draining
    <3>1. hdr.burst = FALSE
      BY <1>0, <2>1 DEF Gate, Types
    <3> QED
      BY <1>0, <1>2, <2>1, <3>1, HeaderIs DEF Types, Watches
  <2>2. CASE ~bridge.draining
    BY <1>0, <1>2, <2>2, BurstIs
  <2> QED
    BY <2>1, <2>2
<1>5. cpu'[Placement] = cpu[Placement] /\ EPc' = "idle" /\ PPc' = PPc
  BY <1>1, <1>2 DEF CpuIs, EPc, PPc
<1>6. ~Outstanding'
  BY <1>5 DEF Outstanding, EPc
<1>7. Gate'
  BY <1>0, <1>2, <1>3, <1>4, <1>5, <1>6 DEF Gate, BridgeIs, HdrIs, helperVars
<1>8. ASSUME NEW m \in Lanes PROVE Asks(m)' /\ (~stop => Met(m)')
  BY <1>2, <1>3, <1>4, <1>5, <1>6 DEF IInv, LaneInv, Asks, BridgeIs, HdrIs, Met
<1> QED
  BY <1>1, <1>2, <1>3, <1>4, <1>7, <1>8, ThreadStep DEF BridgeIs

\* No parent is in flight while a lane parks: whoever opened the burst has waited
\* for the lane's flag.
LEMMA NotIntoAPark ==
  ASSUME IInv, Outstanding, ~stop, NEW l \in Lanes
  PROVE  work[l].pc \notin Parking
<1>1. Gate /\ Asks(l) /\ Met(l)
  BY DEF IInv, LaneInv, Serving
<1>2. EPc \in {"admitted", "published"} /\ EPc \notin Waits
  BY DEF Outstanding, EPc, Waits
<1>3. hdr.burst /\ PPc \in {"idle", "ledger", "failed"}
  BY <1>1, <1>2 DEF Gate
<1> QED
  BY <1>1, <1>2, <1>3 DEF Met, Asks, Waits

\* A request goes to a lane that is not parking, so its word and its last request
\* agree.
LEMMA PublishesStep ==
  ASSUME IInv, NEW l \in Lanes, Publishes(l)
  PROVE  IInv'
<1>0. Types /\ Gate /\ LaneInv(l)
  BY DEF IInv
<1> USE DEF EnginePcs, PlacementPcs, Waits, Draining, Undrained
<1>1. /\ Engine \in {Engine, Placement} /\ Engine # Placement /\ {l} \in SUBSET Lanes
      /\ sent[l] \in Int
  BY <1>0 DEF Engine, Placement, Types
<1>2. /\ EPc = "admitted" /\ l \in hdr.cfg.served /\ sent[l] < MaxRequests
      /\ sent' = [sent EXCEPT ![l] = @ + 1] /\ Signal(l, "request", sent[l] + 1)
      /\ CpuIs(Engine, "published", {l}) /\ UNCHANGED <<hdr, watch, helperVars, bridge>>
  BY <1>0, <1>1, TurnIs DEF Publishes, Ready, EPc
<1>3. LaneIs(l, sent[l] + 1, lane[l].done, lane[l].park, lane[l].drainAck)
  BY <1>0, <1>1, <1>2, SignalIs
<1>4. /\ cpu'[Placement] = cpu[Placement] /\ EPc' = "published" /\ PPc' = PPc
      /\ Outstanding /\ Outstanding'
  BY <1>1, <1>2 DEF CpuIs, EPc, PPc, Outstanding
<1>5. Types'
  <2>1. sent' \in [Lanes -> Int]
    BY <1>0, <1>1, <1>2 DEF Types
  <2> QED
    BY <1>0, <1>2, <1>3, <2>1 DEF Types, LaneIs, CpuIs, Cpus, helperVars
<1>6. Gate'
  BY <1>0, <1>2, <1>4 DEF Gate, helperVars
<1>7. /\ sent'[l] = sent[l] + 1 /\ \A m \in Lanes \ {l} : sent'[m] = sent[m]
  BY <1>0, <1>1, <1>2 DEF Types
<1>8. ASSUME NEW m \in Lanes PROVE LaneInv(m)'
  <2>1. LaneInv(m)
    BY DEF IInv
  <2>2. CASE m # l
    <3>1. lane'[m] = lane[m] /\ sent'[m] = sent[m]
      BY <1>3, <1>7, <2>2 DEF LaneIs
    <3>2. Asks(m)' /\ Bounds(m)' /\ Points(m)'
      BY <1>2, <1>4, <2>1, <3>1 DEF LaneInv, Asks, Bounds, Points, helperVars
    <3>3. ASSUME ~stop PROVE Drains(m)' /\ Queue(m)'
      BY <1>2, <2>1, <3>1, <3>3 DEF LaneInv, Serving, Drains, Queue, helperVars
    <3>4. ASSUME ~stop PROVE Met(m)'
      BY <1>2, <1>4, <3>4, NotIntoAPark DEF Met, helperVars
    <3> QED
      BY <1>2, <3>2, <3>3, <3>4 DEF LaneInv, Serving, helperVars
  <2>3. CASE m = l
    <3> USE LanesAssumption DEF Unlimited
    <3>1. Asks(l)' /\ Bounds(l)' /\ Points(l)'
      BY <1>0, <1>1, <1>2, <1>3, <1>4, <1>7
         DEF LaneInv, Asks, Bounds, Points, LaneIs, helperVars, Types, Words, Locals
    <3>2. ASSUME ~stop PROVE Drains(l)' /\ Queue(l)' /\ Met(l)'
      <4>1. work[l].pc \notin Parking /\ Serving(l)
        BY <1>0, <1>4, <3>2, NotIntoAPark DEF LaneInv
      <4>2. Drains(l)' /\ Met(l)'
        BY <1>2, <1>3, <4>1 DEF Serving, Drains, Met, LaneIs, helperVars
      <4>3. Queue(l)'
        BY <1>0, <1>1, <1>2, <1>3, <1>7, <4>1
           DEF Serving, Queue, LaneIs, helperVars, Parking, Types, Words, Locals
      <4> QED
        BY <4>2, <4>3
    <3> QED
      BY <1>2, <2>3, <3>1, <3>2 DEF LaneInv, Serving, helperVars
  <2> QED
    BY <2>2, <2>3
<1> QED
  BY <1>5, <1>6, <1>8 DEF IInv

\* mailbox_wait_helpers: the request merged is the lane's last completion.
LEMMA MergesStep ==
  ASSUME IInv, Merges
  PROVE  IInv'
<1>0. Types /\ Gate
  BY DEF IInv
<1> USE DEF EnginePcs, PlacementPcs, Waits, Draining, Undrained
<1>1. /\ Engine \in {Engine, Placement} /\ Engine # Placement
      /\ cpu[Engine].todo \in SUBSET Lanes
  BY <1>0 DEF Engine, Placement, Types
<1>2. PICK l \in Lanes : lane[l].done = sent[l] /\ Signal(l, "consumed", sent[l])
  BY <1>1 DEF Merges
<1>3. /\ EPc = "published" /\ CpuIs(Engine, "admitted", {})
      /\ UNCHANGED <<hdr, watch, helperVars, sent, bridge>>
  BY <1>0, <1>1, TurnIs DEF Merges, Ready, EPc
<1>4. /\ lane' \in [Lanes -> Words] /\ \A m \in Lanes \ {l} : lane'[m] = lane[m]
      /\ lane'[l].request = lane[l].request /\ lane'[l].done = lane[l].done
      /\ lane'[l].consumed = sent[l] /\ lane'[l].park = lane[l].park
      /\ lane'[l].drainRequest = lane[l].drainRequest /\ lane'[l].drainAck = lane[l].drainAck
  <2>1. lane \in [Lanes -> Words] /\ sent[l] \in Int
    BY <1>0 DEF Types
  <2> QED
    BY <1>2, <2>1 DEF Signal, Words
<1>5. /\ cpu'[Placement] = cpu[Placement] /\ EPc' = "admitted" /\ PPc' = PPc
      /\ Outstanding /\ Outstanding'
  BY <1>1, <1>3 DEF CpuIs, EPc, PPc, Outstanding
<1>6. Types'
  BY <1>0, <1>3, <1>4 DEF Types, CpuIs, Cpus, helperVars
<1>7. Gate'
  BY <1>0, <1>3, <1>5 DEF Gate, helperVars
<1>8. ASSUME NEW m \in Lanes PROVE LaneInv(m)'
  <2>1. LaneInv(m)
    BY DEF IInv
  <2>2. /\ lane'[m].request = lane[m].request /\ lane'[m].done = lane[m].done
        /\ lane'[m].consumed = lane[m].consumed \/
             (lane'[m].consumed = sent[m] /\ lane[m].done = sent[m])
        /\ lane'[m].park = lane[m].park
        /\ lane'[m].drainRequest = lane[m].drainRequest /\ lane'[m].drainAck = lane[m].drainAck
    BY <1>2, <1>4
  <2>3. Asks(m)' /\ Bounds(m)' /\ Points(m)'
    BY <1>0, <1>3, <1>5, <2>1, <2>2
       DEF LaneInv, Asks, Bounds, Points, helperVars, Types, Words
  <2>4. ASSUME ~stop PROVE Drains(m)' /\ Queue(m)'
    BY <1>0, <1>3, <2>1, <2>2, <2>4
       DEF LaneInv, Serving, Drains, Queue, helperVars, Types, Words
  <2>5. ASSUME ~stop PROVE Met(m)'
    BY <1>3, <1>5, <2>5, NotIntoAPark DEF Met, helperVars
  <2> QED
    BY <1>3, <2>3, <2>4, <2>5 DEF LaneInv, Serving, helperVars
<1> QED
  BY <1>6, <1>7, <1>8 DEF IInv

-----------------------------------------------------------------------------
(* The placement thread.                                                   *)

\* The placement thread's steps that write no word: waiting for parks, and the
\* ledger and lane drains seen to be complete.
LEMMA PlacementMoves ==
  ASSUME IInv, ParksStep(Placement) \/ LedgerDrained \/ DrainNotifies \/ DrainVerified
                 \/ ReopenNotifies
  PROVE  IInv'
<1>0. Types /\ Gate
  BY DEF IInv
<1> USE DEF EnginePcs, PlacementPcs, Waits, Draining, Undrained
<1>1. /\ Placement \in {Engine, Placement} /\ Engine # Placement /\ PPc \in PlacementPcs
      /\ Placement \in Threads /\ cpu[Placement].todo \in SUBSET Lanes /\ Lanes \in SUBSET Lanes
      /\ hdr.cfg.served \in SUBSET Lanes
  BY <1>0, LanesAssumption DEF Gate, Engine, Placement, Threads, Types
<1>2. PICK p \in PlacementPcs, s \in SUBSET Lanes :
        /\ CpuIs(Placement, p, s) /\ watch' \in Watches
        /\ UNCHANGED <<hdr, lane, helperVars, sent, bridge>>
        /\ \/ PPc \in Waits /\ p \in Waits /\ s = cpu[Placement].todo
           \/ /\ PPc \in Waits /\ p \in Waits \cup {"gate"}
              /\ \A l \in cpu[Placement].todo \ s : l \in Lanes => ~lane[l].park
              /\ p = "gate" => s = {}
           \/ PPc = "ledger" /\ p = "asking" /\ s = hdr.cfg.served /\ ~Outstanding
           \/ PPc = "asked" /\ p = "polling"
           \/ PPc = "polling" /\ p = "verified" /\ s = Lanes /\ \A l \in Lanes : LaneQuiesced(l)
           \/ PPc = "clearing" /\ cpu[Placement].todo = {} /\ p = "resume"
  <2>1. CASE ParksLoad(Placement)
    BY <1>0, <1>1, <2>1, TurnIs, WatchIsTyped DEF ParksLoad, Ready, PPc
  <2>2. CASE ParksSeen(Placement)
    <3> DEFINE l == Min(cpu[Placement].todo)
    <3>1. /\ PPc = "see" /\ UNCHANGED <<hdr, lane, watch, helperVars, sent, bridge>>
          /\ IF lane[l].park THEN Turn(Placement, "nap")
             ELSE Turns(Placement, IF cpu[Placement].todo = {l} THEN "gate" ELSE "parks",
                        cpu[Placement].todo \ {l})
      BY <1>1, <2>2 DEF ParksSeen, Ready, PPc, AfterParks
    <3> HIDE DEF l
    <3>2. watch' \in Watches
      BY <1>0, <3>1 DEF Types, Watches
    <3>3. CASE lane[l].park
      BY <1>0, <1>1, <3>1, <3>2, <3>3, TurnIs
    <3>4. CASE ~lane[l].park
      <4>1. CpuIs(Placement, IF cpu[Placement].todo = {l} THEN "gate" ELSE "parks",
                  cpu[Placement].todo \ {l})
        BY <1>0, <1>1, <3>1, <3>4, TurnIs
      <4> QED
        BY <1>1, <3>1, <3>2, <3>4, <4>1
    <3> QED
      BY <3>3, <3>4
  <2>3. CASE ParksWake(Placement)
    BY <1>0, <1>1, <2>3, TurnIs DEF ParksWake, Ready, PPc, Types, Watches
  <2>4. CASE LedgerDrained
    BY <1>0, <1>1, <2>4, TurnIs DEF LedgerDrained, Ready, PPc, Types, Watches
  <2>5. CASE DrainNotifies
    BY <1>0, <1>1, <2>5, TurnIs, WatchIsTyped DEF DrainNotifies, Notify, Ready, PPc
  <2>6. CASE DrainVerified
    BY <1>0, <1>1, <2>6, TurnIs DEF DrainVerified, Ready, PPc, Types, Watches
  <2>7. CASE ReopenNotifies
    BY <1>0, <1>1, <2>7, TurnIs, WatchIsTyped DEF ReopenNotifies, Notify, Ready, PPc
  <2> QED
    BY <2>1, <2>2, <2>3, <2>4, <2>5, <2>6, <2>7 DEF ParksStep
<1>3. /\ cpu'[Engine] = cpu[Engine] /\ PPc' = p /\ EPc' = EPc /\ cpu'[Placement].todo = s
      /\ Outstanding' = Outstanding
  BY <1>1, <1>2 DEF CpuIs, EPc, PPc, Outstanding
<1>4. Gate'
  BY <1>0, <1>2, <1>3 DEF Gate, helperVars
<1>5. ASSUME NEW m \in Lanes PROVE Asks(m)' /\ (~stop => Met(m)')
  <2>1. LaneInv(m)
    BY DEF IInv
  <2>2. Asks(m)'
    BY <1>0, <1>2, <1>3, <2>1 DEF LaneInv, Asks, LaneQuiesced, Gate
  <2>3. ASSUME ~stop PROVE Met(m)'
    <3>1. Met(m) /\ (lane[m].park <=> work[m].pc \in Flagged)
      BY <2>1, <2>3 DEF LaneInv, Serving, Queue
    <3> QED
      BY <1>2, <1>3, <3>1 DEF Met, helperVars, Flagged
  <2> QED
    BY <2>2, <2>3
<1> QED
  BY <1>0, <1>1, <1>2, <1>4, <1>5, ThreadStep, HeaderIs DEF Types, Bridges

\* The gate closes under a new closure, which no lane has acknowledged.
LEMMA ClosesStep ==
  ASSUME IInv, Closes
  PROVE  IInv'
<1>0. Types /\ Gate
  BY DEF IInv
<1> USE DEF EnginePcs, PlacementPcs, Waits, Draining, Undrained
<1>1. /\ Placement \in {Engine, Placement} /\ Engine # Placement
      /\ cpu[Placement].todo \in SUBSET Lanes /\ bridge.closure \in Int
  BY <1>0 DEF Engine, Placement, Types
<1>2. /\ PPc = "idle" /\ CpuIs(Placement, "ledger", cpu[Placement].todo)
      /\ bridge' = [bridge EXCEPT !.gate = "closed", !.closure = @ + 1]
      /\ UNCHANGED <<hdr, lane, watch, helperVars, sent>>
  BY <1>0, <1>1, TurnIs DEF Closes, Ready, PPc
<1>3. BridgeIs(bridge.want, bridge.draining, "closed", bridge.closure + 1)
  <2> DEFINE k == bridge.closure + 1
  <2>1. k \in Int /\ bridge \in Bridges /\ bridge' = [bridge EXCEPT !.gate = "closed", !.closure = k]
    BY <1>0, <1>1, <1>2 DEF Types, Bridges
  <2> HIDE DEF k
  <2>2. BridgeIs(bridge.want, bridge.draining, "closed", k)
    BY <2>1 DEF BridgeIs, Bridges
  <2> QED
    BY <2>2 DEF k
<1>4. /\ cpu'[Engine] = cpu[Engine] /\ PPc' = "ledger" /\ EPc' = EPc
      /\ Outstanding' = Outstanding
  BY <1>1, <1>2 DEF CpuIs, EPc, PPc, Outstanding
<1>5. Gate'
  BY <1>0, <1>1, <1>2, <1>3, <1>4 DEF Gate, BridgeIs, helperVars
<1>6. ASSUME NEW m \in Lanes PROVE Asks(m)' /\ (~stop => Met(m)')
  <2>1. LaneInv(m) /\ lane[m].drainAck \in Int
    BY <1>0 DEF IInv, Types, Words
  <2>2. Asks(m)'
    BY <1>1, <1>2, <1>3, <1>4, <2>1 DEF LaneInv, Asks, BridgeIs
  <2>3. ASSUME ~stop PROVE Met(m)'
    BY <1>2, <1>4, <2>1, <2>3 DEF LaneInv, Serving, Met, helperVars
  <2> QED
    BY <2>2, <2>3
<1> QED
  BY <1>0, <1>1, <1>2, <1>3, <1>5, <1>6, ThreadStep, HeaderIs DEF BridgeIs, Types, Watches

\* The burst word is held even for the drain.
LEMMA HoldsBurstStep ==
  ASSUME IInv, HoldsBurst
  PROVE  IInv'
<1>0. Types /\ Gate
  BY DEF IInv
<1> USE DEF EnginePcs, PlacementPcs, Waits, Draining, Undrained
<1>1. /\ Placement \in {Engine, Placement} /\ Engine # Placement
      /\ cpu[Placement].todo \in SUBSET Lanes
  BY <1>0 DEF Engine, Placement, Types
<1>2. /\ PPc = "asking" /\ cpu[Placement].todo = {}
      /\ CpuIs(Placement, "asked", cpu[Placement].todo)
      /\ bridge' = [bridge EXCEPT !.draining = TRUE]
      /\ HdrIs(FALSE, hdr.fault) /\ watch' \in Watches
      /\ UNCHANGED <<lane, helperVars, sent>>
  BY <1>0, <1>1, TurnIs, HeaderIs
     DEF HoldsBurst, HoldBurst, Move, Moved, Ready, PPc, Types, Watches
<1>3. BridgeIs(bridge.want, TRUE, bridge.gate, bridge.closure)
  BY <1>0, <1>2 DEF Types, BridgeIs, Bridges
<1>4. /\ cpu'[Engine] = cpu[Engine] /\ PPc' = "asked" /\ EPc' = EPc
      /\ Outstanding' = Outstanding
  BY <1>1, <1>2 DEF CpuIs, EPc, PPc, Outstanding
<1>5. Gate'
  BY <1>0, <1>2, <1>3, <1>4 DEF Gate, BridgeIs, HdrIs, helperVars
<1>6. ASSUME NEW m \in Lanes PROVE Asks(m)' /\ (~stop => Met(m)')
  <2>1. LaneInv(m)
    BY DEF IInv
  <2>2. Asks(m)'
    BY <1>2, <1>3, <1>4, <2>1 DEF LaneInv, Asks, BridgeIs, HdrIs
  <2>3. Met(m)'
    BY <1>2 DEF HdrIs, Met
  <2> QED
    BY <2>2, <2>3
<1> QED
  BY <1>1, <1>2, <1>3, <1>5, <1>6, ThreadStep DEF BridgeIs

\* Reopening gives the burst word back and then waits for parks as an opening does.
LEMMA ResumesBurstStep ==
  ASSUME IInv, ResumesBurst
  PROVE  IInv'
<1>0. Types /\ Gate
  BY DEF IInv
<1> USE DEF EnginePcs, PlacementPcs, Waits, Draining, Undrained
<1>1. /\ Placement \in {Engine, Placement} /\ Engine # Placement
      /\ cpu[Placement].todo \in SUBSET Lanes /\ Lanes \in SUBSET Lanes
      /\ bridge.want \in BOOLEAN
  BY <1>0 DEF Engine, Placement, Types
<1>2. PICK p \in {"parks", "gate"}, s \in SUBSET Lanes :
        /\ PPc = "resume" /\ CpuIs(Placement, p, s)
        /\ bridge' = [bridge EXCEPT !.draining = FALSE]
        /\ HdrIs(bridge.want, hdr.fault) /\ watch' \in Watches
        /\ bridge.want => p = "parks" /\ s = Lanes
        /\ UNCHANGED <<lane, helperVars, sent>>
  <2>1. PPc = "resume" /\ ~hdr.burst
    BY <1>0 DEF ResumesBurst, Ready, PPc, Gate
  <2>2. HdrIs(bridge.want, hdr.fault) /\ watch' \in Watches
    BY <1>0, <1>1, BurstIs DEF ResumesBurst
  <2>3. CASE bridge.want
    BY <1>0, <1>1, <2>1, <2>2, <2>3, TurnIs DEF ResumesBurst, Opens
  <2>4. CASE ~bridge.want
    BY <1>0, <1>1, <2>1, <2>2, <2>4, TurnIs DEF ResumesBurst, Opens
  <2> QED
    BY <2>3, <2>4
<1>3. BridgeIs(bridge.want, FALSE, bridge.gate, bridge.closure)
  BY <1>0, <1>2 DEF Types, BridgeIs, Bridges
<1>4. /\ cpu'[Engine] = cpu[Engine] /\ PPc' = p /\ EPc' = EPc /\ cpu'[Placement].todo = s
      /\ Outstanding' = Outstanding
  BY <1>1, <1>2 DEF CpuIs, EPc, PPc, Outstanding
<1>5. Gate'
  BY <1>0, <1>2, <1>3, <1>4 DEF Gate, BridgeIs, HdrIs, helperVars
<1>6. ASSUME NEW m \in Lanes PROVE Asks(m)' /\ (~stop => Met(m)')
  <2>1. LaneInv(m)
    BY DEF IInv
  <2>2. Asks(m)'
    BY <1>2, <1>3, <1>4, <2>1 DEF LaneInv, Asks, BridgeIs, HdrIs
  <2>3. Met(m)'
    BY <1>2, <1>4 DEF HdrIs, Met
  <2> QED
    BY <2>2, <2>3
<1> QED
  BY <1>1, <1>2, <1>3, <1>5, <1>6, ThreadStep DEF BridgeIs

\* The gate opens, or the placement fails and raises the fault.
LEMMA GateSteps ==
  ASSUME IInv, GateOpens \/ PlacementFails
  PROVE  IInv'
<1>0. Types /\ Gate
  BY DEF IInv
<1> USE DEF EnginePcs, PlacementPcs, Waits, Draining, Undrained
<1>1. /\ Placement \in {Engine, Placement} /\ Engine # Placement
      /\ cpu[Placement].todo \in SUBSET Lanes /\ Placement \in Threads /\ {} \in SUBSET Lanes
  BY <1>0 DEF Engine, Placement, Threads, Types
<1>2. PICK p \in {"idle", "failed"}, s \in SUBSET Lanes, g \in {"open", "stopped"}, f \in BOOLEAN :
        /\ CpuIs(Placement, p, s) /\ bridge' = [bridge EXCEPT !.gate = g]
        /\ HdrIs(hdr.burst, f) /\ watch' \in Watches /\ UNCHANGED <<lane, helperVars, sent>>
        /\ hdr.fault => f
        /\ \/ PPc = "gate" /\ p = "idle" /\ g = "open"
           \/ PPc \in {"ledger", "polling", "see", "gate"} /\ p = "failed" /\ g = "stopped" /\ f
  <2>1. CASE GateOpens
    BY <1>0, <1>1, <2>1, TurnIs, HeaderIs DEF GateOpens, Ready, PPc, Types, Watches
  <2>2. CASE PlacementFails
    BY <1>0, <1>1, <2>2, TurnIs, HeaderIs, WatchIsTyped DEF PlacementFails, Notify, PPc
  <2> QED
    BY <2>1, <2>2
<1>3. BridgeIs(bridge.want, bridge.draining, g, bridge.closure)
  BY <1>0, <1>2 DEF Types, BridgeIs, Bridges
<1>4. /\ cpu'[Engine] = cpu[Engine] /\ PPc' = p /\ EPc' = EPc
      /\ Outstanding' = Outstanding
  BY <1>1, <1>2 DEF CpuIs, EPc, PPc, Outstanding
<1>5. Gate'
  BY <1>0, <1>2, <1>3, <1>4 DEF Gate, BridgeIs, HdrIs, helperVars
<1>6. ASSUME NEW m \in Lanes PROVE Asks(m)' /\ (~stop => Met(m)')
  <2>1. LaneInv(m)
    BY DEF IInv
  <2>2. Asks(m)'
    BY <1>2, <1>3, <1>4, <2>1 DEF LaneInv, Asks, BridgeIs, HdrIs
  <2>3. ASSUME ~stop PROVE Met(m)'
    <3>1. Met(m)
      BY <2>1, <2>3 DEF LaneInv, Serving
    <3>2. PPc \in Waits => ~Outstanding
      BY <1>0 DEF Gate
    <3> QED
      BY <1>2, <1>4, <3>1, <3>2 DEF HdrIs, Met, helperVars
  <2> QED
    BY <2>2, <2>3
<1> QED
  BY <1>1, <1>2, <1>3, <1>5, <1>6, ThreadStep DEF BridgeIs

\* A drain word is written: asked of a lane that has not acknowledged this closure,
\* cleared of one that holds.
LEMMA AskSteps ==
  ASSUME IInv, AsksLane \/ ClearsLane
  PROVE  IInv'
<1>0. Types /\ Gate
  BY DEF IInv
<1> USE DEF EnginePcs, PlacementPcs, Waits, Draining, Undrained
<1>1. /\ Placement \in {Engine, Placement} /\ Engine # Placement
      /\ cpu[Placement].todo \in SUBSET Lanes /\ bridge.closure \in Int
  BY <1>0 DEF Engine, Placement, Types
<1> DEFINE todo == cpu[Placement].todo
           l == Min(todo)
<1>2. PICK p \in {"asking", "clearing"}, v \in Int :
        /\ CpuIs(Placement, p, todo \ {l}) /\ Signal(l, "drainRequest", v)
        /\ todo # {} /\ UNCHANGED <<hdr, watch, helperVars, sent, bridge>>
        /\ \/ PPc = "asking" /\ p = "asking" /\ v = bridge.closure
           \/ PPc \in {"verified", "clearing"} /\ p = "clearing" /\ v = 0
  <2>1. CASE AsksLane
    BY <1>0, <1>1, <2>1, TurnIs DEF AsksLane, Ready, PPc
  <2>2. CASE ClearsLane
    BY <1>0, <1>1, <2>2, TurnIs DEF ClearsLane, PPc
  <2> QED
    BY <2>1, <2>2
<1>3. l \in todo /\ l \in Lanes
  BY <1>1, <1>2, MinOfNats, LanesAssumption
<1> HIDE DEF l, todo
<1>4. /\ lane' \in [Lanes -> Words] /\ \A m \in Lanes \ {l} : lane'[m] = lane[m]
      /\ lane'[l].request = lane[l].request /\ lane'[l].done = lane[l].done
      /\ lane'[l].consumed = lane[l].consumed /\ lane'[l].park = lane[l].park
      /\ lane'[l].drainRequest = v /\ lane'[l].drainAck = lane[l].drainAck
  <2>1. lane \in [Lanes -> Words]
    BY <1>0 DEF Types
  <2> QED
    BY <1>2, <1>3, <2>1 DEF Signal, Words
<1>5. /\ cpu'[Engine] = cpu[Engine] /\ PPc' = p /\ EPc' = EPc
      /\ cpu'[Placement].todo = todo \ {l} /\ Outstanding' = Outstanding /\ ~Outstanding
      /\ cpu[Placement].todo = todo
  BY <1>0, <1>1, <1>2 DEF CpuIs, EPc, PPc, Outstanding, Gate, todo
<1>6. Types'
  BY <1>0, <1>2, <1>4 DEF Types, CpuIs, Cpus, helperVars
<1>7. Gate'
  BY <1>0, <1>2, <1>5 DEF Gate, helperVars
<1>8. ASSUME NEW m \in Lanes PROVE LaneInv(m)'
  <2>1. LaneInv(m) /\ lane[m].drainAck \in Int
    BY <1>0 DEF IInv, Types, Words
  <2>2. /\ lane'[m].request = lane[m].request /\ lane'[m].done = lane[m].done
        /\ lane'[m].consumed = lane[m].consumed /\ lane'[m].park = lane[m].park
        /\ lane'[m].drainRequest = (IF m = l THEN v ELSE lane[m].drainRequest)
        /\ lane'[m].drainAck = lane[m].drainAck
    BY <1>4
  <2>3. Bounds(m)' /\ Points(m)'
    BY <1>2, <2>1, <2>2 DEF LaneInv, Bounds, Points, helperVars
  <2>4. Asks(m)'
    BY <1>0, <1>1, <1>2, <1>3, <1>5, <2>1, <2>2 DEF LaneInv, Asks, Gate
  <2>5. ASSUME ~stop PROVE Queue(m)'
    BY <1>2, <2>1, <2>2, <2>5 DEF LaneInv, Serving, Queue, helperVars
  <2>6. ASSUME ~stop PROVE Drains(m)' /\ Met(m)'
    <3>1. Drains(m) /\ Met(m) /\ Asks(m) /\ Points(m) /\ bridge.closure > 0
      BY <1>0, <1>2, <2>1, <2>6 DEF LaneInv, Serving, Gate
    <3>2. CASE PPc = "asking"
      <4>1. m = l => /\ lane[m].drainRequest = 0 /\ lane[m].drainAck < v /\ v > 0
                     /\ work[m].pc # "ack" /\ ~(work[m].pc \in Forced /\ work[m].closure # 0)
        BY <1>1, <1>2, <1>3, <1>5, <3>1, <3>2 DEF Asks, Points, Drains
      <4>2. Drains(m)'
        BY <1>1, <1>2, <2>1, <2>2, <3>1, <4>1 DEF Drains, helperVars
      <4>3. Met(m)'
        BY <1>2, <1>5, <2>2, <3>1, <3>2, <4>1 DEF Met, helperVars
      <4> QED
        BY <4>2, <4>3
    <3>3. CASE PPc \in {"verified", "clearing"}
      <4>1. m = l => v = 0 /\ (work[m].pc \in Holding \/ work[m].pc = "gone")
        BY <1>2, <1>3, <1>5, <3>1, <3>3 DEF Asks, Points, Drains
      <4>2. Drains(m)'
        BY <1>2, <2>1, <2>2, <3>1, <4>1 DEF Drains, helperVars, Holding, Forced, Parking
      <4>3. ~hdr.burst
        BY <1>0, <3>3 DEF Gate
      <4> QED
        BY <1>2, <4>2, <4>3 DEF Met
    <3> QED
      BY <1>2, <3>2, <3>3
  <2> QED
    BY <1>2, <2>3, <2>4, <2>5, <2>6 DEF LaneInv, Serving, helperVars
<1> QED
  BY <1>6, <1>7, <1>8 DEF IInv

-----------------------------------------------------------------------------
(* The theorems.                                                           *)

\* The invariant holds initially.
LEMMA InitIInv == Init => IInv
<1> SUFFICES ASSUME Init PROVE IInv
  OBVIOUS
<1>0. /\ Engine # Placement /\ hdr \in [burst : BOOLEAN, stop : BOOLEAN, fault : BOOLEAN, cfg : Settings]
      /\ hdr.burst = FALSE /\ hdr.fault = FALSE /\ hdr.stop = FALSE
  <2>1. hdr \in [burst : {FALSE}, stop : {FALSE}, fault : {FALSE}, cfg : Settings]
    BY DEF Init
  <2>2. hdr.burst \in {FALSE} /\ hdr.fault \in {FALSE} /\ hdr.stop \in {FALSE}
    BY <2>1
  <2>3. hdr \in [burst : BOOLEAN, stop : BOOLEAN, fault : BOOLEAN, cfg : Settings]
    BY <2>1, Zenon
  <2>4. Engine # Placement
    BY DEF Engine, Placement
  <2> QED
    BY <2>2, <2>3, <2>4
<1> USE LanesAssumption DEF Init, SmallPcs, LargePcs, Holding, Leaving, Armed, Forced, Parking,
       Flagged, EnginePcs, PlacementPcs, Waits, Draining, Undrained
<1>1. /\ cpu[Engine].pc = "idle" /\ cpu[Placement].pc = "idle"
  OBVIOUS
<1>2. Types
  <2>1. lane \in [Lanes -> Words] /\ stream \in [Lanes -> [head : Int, limit : Int]]
    BY DEF Words, Unlimited
  <2>2. work \in [Lanes -> Locals]
    BY DEF Locals, LoopTop
  <2>3. /\ watch \in [Threads -> {"none", "burst", "notify"}] /\ sent \in [Lanes -> Int]
        /\ computed \in [Lanes -> SUBSET Int]
    OBVIOUS
  <2>4. /\ cpu \in [{Engine, Placement} -> [pc : EnginePcs \cup PlacementPcs, todo : SUBSET Lanes]]
    OBVIOUS
  <2>5. /\ bridge \in [want : BOOLEAN, draining : BOOLEAN, gate : {"open", "closed", "stopped"},
                       closure : Int]
        /\ stop \in BOOLEAN
    <3>1. 0 \in Int
      OBVIOUS
    <3> QED
      BY <3>1, Zenon
  <2> QED
    BY <1>0, <2>1, <2>2, <2>3, <2>4, <2>5 DEF Types
<1>3. Gate
  BY <1>0, <1>1 DEF Gate, EPc, PPc, Outstanding
<1>4. ASSUME NEW l \in Lanes PROVE LaneInv(l)
  <2>1. /\ lane[l].request = 0 /\ lane[l].done = 0 /\ lane[l].consumed = 0 /\ ~lane[l].park
        /\ lane[l].drainRequest = 0 /\ lane[l].drainAck = 0
        /\ work[l].pc = (IF l \in hdr.cfg.served THEN LoopTop(l) ELSE "gone")
        /\ work[l].next = 1 /\ work[l].seen = 0 /\ work[l].closure = 0 /\ ~work[l].armed
        /\ stream[l].head = 1 /\ stream[l].limit = Unlimited /\ computed[l] = {} /\ sent[l] = 0
        /\ bridge.closure = 0
    OBVIOUS
  <2>2. Asks(l)
    BY <1>1, <2>1 DEF Asks, PPc
  <2>3. Bounds(l) /\ Points(l)
    BY <2>1 DEF Bounds, Points, LoopTop, Unlimited
  <2>4. Serving(l)
    BY <2>1 DEF Serving, Drains, Queue, Met, LoopTop, Unlimited
  <2> QED
    BY <2>2, <2>3, <2>4 DEF LaneInv
<1> QED
  BY <1>2, <1>3, <1>4 DEF IInv

\* Every step of a lane thread or its stream keeps the invariant.
LEMMA LaneStepIInv ==
  ASSUME IInv, NEW l \in Lanes, LaneStep(l) \/ StreamRuns(l) \/ LaneFails(l)
  PROVE  IInv'
BY WaitSteps, AckSteps, AcknowledgesStep, LargeServesStep, LargeSteps, LargeAsksStep,
   SmallTurnsStep, SmallServesStep, SmallEndsStep, ParkMoves, ParkFlagSteps, ParkLoadsStep,
   ParkReleasesStep, ParkDrainsStep, StreamRunsStep, ExitMoves, LaneExitsStep DEF LaneStep

\* Every step keeps the invariant.
LEMMA NextIInv == IInv /\ [LaneNext]_laneVars => IInv'
<1> SUFFICES ASSUME IInv, [LaneNext]_laneVars PROVE IInv'
  OBVIOUS
<1>1. CASE UNCHANGED laneVars
  BY <1>1
     DEF laneVars, helperVars, engineVars, IInv, Types, Gate, LaneInv, Asks, Bounds, Points,
     Serving, Drains, Queue, Met, EPc, PPc, Outstanding
<1>2. CASE \E l \in Lanes : LaneStep(l) \/ StreamRuns(l) \/ LaneFails(l) \/ Publishes(l)
  BY <1>2, LaneStepIInv, PublishesStep
<1>3. CASE StopRequested \/ StopStep
  BY <1>3, StopSteps, StopClearsParksStep DEF StopStep
<1>4. CASE EngineStep \/ BurstBegins \/ BurstEnds \/ Admits
  BY <1>4, EngineMoves, BurstBeginsStep, BurstEndsStep, MergesStep DEF EngineStep
<1>5. CASE Closes \/ PlacementStep \/ PlacementFails
  BY <1>5, ClosesStep, PlacementMoves, AskSteps, HoldsBurstStep, ResumesBurstStep, GateSteps
     DEF PlacementStep
<1>6. CASE Ended
  BY <1>1, <1>6 DEF Ended
<1> QED
  BY <1>1, <1>2, <1>3, <1>4, <1>5, <1>6 DEF LaneNext

\* The inductive invariant holds in every reachable state, whatever the lanes, the
\* queue depth, the closures and the failures.
THEOREM LaneInvariant == LaneSpec => []IInv
BY InitIInv, NextIInv, PTL DEF LaneSpec

\* The sequences of the lanes' words, queues and threads keep their ranges: no wait
\* is queued, released or completed beyond the queue depth, stopping or not
\* (run_small, park_lane).
THEOREM LaneTypesHold == LaneSpec => []LaneTypeOK
<1>1. IInv => LaneTypeOK
  <2> SUFFICES ASSUME IInv PROVE LaneTypeOK
    OBVIOUS
  <2> USE LanesAssumption
  <2>1. ASSUME NEW l \in Lanes
        PROVE  /\ lane[l].request \in 0 .. Unlimited - 1 /\ lane[l].done \in 0 .. Unlimited - 1
               /\ lane[l].consumed \in 0 .. sent[l] /\ sent[l] \in 0 .. MaxRequests
               /\ lane[l].drainRequest \in {0, bridge.closure}
               /\ lane[l].drainAck \in 0 .. bridge.closure
               /\ stream[l].head \in 1 .. Unlimited /\ stream[l].limit \in 0 .. Unlimited
               /\ work[l].next \in 1 .. Unlimited /\ work[l].seen \in 0 .. Unlimited - 1
    BY DEF IInv, Types, Words, Locals, LaneInv, Asks, Bounds, Unlimited
  <2> QED
    BY <2>1 DEF LaneTypeOK, IInv, Types
<1> QED
  BY <1>1, LaneInvariant, PTL

\* While the helper serves, every sequence the engine merged was computed: a wait
\* released by park_lane never passes for a completion.
THEOREM MergedResultsAreComputed == LaneSpec => []MergedWasComputed
<1>1. IInv => MergedWasComputed
  <2> SUFFICES ASSUME IInv, ~stop, NEW l \in Lanes, NEW i \in 1 .. lane[l].consumed
               PROVE  i \in computed[l]
    BY DEF MergedWasComputed
  <2>1. Queue(l) /\ lane[l].consumed \in Int /\ lane[l].done \in Int
    BY DEF IInv, LaneInv, Serving, Types, Words
  <2>2. i \in 1 .. lane[l].done
    BY <2>1 DEF Queue
  <2> QED
    BY <2>1, <2>2 DEF Queue
<1> QED
  BY <1>1, LaneInvariant, PTL

\* While the helper serves, no parent is in flight when a lane has its waits released:
\* the flag of park_lane and the burst word of apply_burst cannot miss each other.
THEOREM ParksAndPublishesNeverMeet == LaneSpec => []NothingSentIntoAPark
<1>1. IInv => NothingSentIntoAPark
  BY NotIntoAPark DEF NothingSentIntoAPark, Parking, Lanes
<1> QED
  BY <1>1, LaneInvariant, PTL

\* A drain that helper_drained has verified leaves every served lane held, unarmed and
\* with nothing unanswered until its drain word is cleared.
THEOREM VerifiedDrainsAreIdle == LaneSpec => []VerifiedLanesAreIdle
<1>1. IInv => VerifiedLanesAreIdle
  <2> SUFFICES ASSUME IInv, PPc = "verified", ~stop, NEW l \in hdr.cfg.served
               PROVE  /\ ~work[l].armed /\ Drained(l) /\ ~lane[l].park /\ lane[l].request = sent[l]
                      /\ work[l].pc \in Holding
    BY DEF VerifiedLanesAreIdle, Ready, PPc, Holding
  <2>1. l \in Lanes /\ Gate
    BY LanesAssumption DEF IInv, Types
  <2>2. Asks(l) /\ Drains(l) /\ Queue(l)
    BY <2>1 DEF IInv, LaneInv, Serving
  <2>3. lane[l].drainRequest = bridge.closure /\ lane[l].drainAck = bridge.closure
    BY <2>1, <2>2 DEF Gate, Asks
  <2>4. work[l].pc \in Holding
    BY <2>1, <2>2, <2>3 DEF Gate, Drains, Types
  <2> QED
    BY <2>2, <2>4 DEF Drains, Queue, Drained, Holding, Flagged, Parking
<1> QED
  BY <1>1, LaneInvariant, PTL
=============================================================================
