------------------------------ MODULE LaneBurst ------------------------------
(***************************************************************************)
(* The serving lanes of one helper (worker_lanes.h) and the engine's side  *)
(* of their handshake (moe_remote_hook.cpp): inference bursts, the parking *)
(* of a small lane's pre-queued GPU waits between bursts, the drain that a *)
(* placement asks for, and the stop.                                       *)
(*                                                                         *)
(* Threads meet in the shared segment.  They sleep on two futex words,     *)
(* Header::burst and Header::notify, that only ever count up: watch[t] is  *)
(* the word whose value thread t has read, until that word moves.  A futex *)
(* wait returns when it has moved, before or during the sleep.  One action *)
(* makes at most one access to a word that another thread writes.          *)
(***************************************************************************)
EXTENDS Integers, FiniteSetsExt

CONSTANTS
  SmallLanes,   \* lanes with pre-queued waits
  LargeLanes,   \* lanes launched on arrival of a request
  QueueDepth,   \* kQueueDepth
  Settings,     \* configurations: the served lanes and R3_MOE_WORKER_POWER_SAVE;
                \* with each a bound on the placements and the failures that
                \* happen: a "signal" to the helper, a "device" error in a lane,
                \* a "deadline" of the placement thread
  MaxRequests   \* bound on the requests sent to one lane

Lanes == SmallLanes \cup LargeLanes

ASSUME LanesAssumption ==
  /\ Lanes \subseteq Nat /\ SmallLanes \cap LargeLanes = {}
  /\ QueueDepth \in Nat \ {0} /\ MaxRequests \in Nat
  /\ Settings \subseteq [served : SUBSET Lanes, powerSave : BOOLEAN, closures : Nat,
                   failures : SUBSET {"signal", "device", "deadline"}]

VARIABLES
  hdr,       \* Header: burst parity, kBurstStop, helper_fault; and the
             \* helper's configuration, fixed
  lane,      \* lane[l]: LaneSignal
  watch,     \* watch[t]: the futex word t has read and that has not moved
  work,      \* work[l]: where lane thread l is, and its locals
  stream,    \* stream[l]: the GPU queue of lane l and its publish limit
  computed,  \* computed[l]: requests of lane l whose result was written
  sent,      \* sent[l]: the last request the engine published to lane l
  cpu,       \* the engine's scheduler and placement threads
  bridge,    \* burst_want, burst_draining, the admission gate, closure_id
  stop,      \* the helper's stop word
  main       \* where stop_and_join is

helperVars == <<work, stream, computed, stop, main>>
engineVars == <<sent, cpu, bridge>>
laneVars == <<hdr, lane, watch, helperVars, engineVars>>

\* The engine's scheduler and placement threads, beside the lanes' numbers.
Engine == -1
Placement == -2
Threads == Lanes \cup {Engine, Placement}
Unlimited == MaxRequests + QueueDepth + 1

\* A small lane's loop starts in wait_burst, a large lane's at its request word.
LoopTop(l) == IF l \in SmallLanes THEN "wait" ELSE "top"

Init ==
  /\ hdr \in [burst : {FALSE}, stop : {FALSE}, fault : {FALSE}, cfg : Settings]
  /\ lane = [l \in Lanes |-> [request |-> 0, done |-> 0, consumed |-> 0,
                              park |-> FALSE, drainRequest |-> 0, drainAck |-> 0]]
  /\ watch = [t \in Threads |-> "none"]
  /\ work = [l \in Lanes |->
               [pc |-> IF l \in hdr.cfg.served THEN LoopTop(l) ELSE "gone", next |-> 1,
                seen |-> 0, last |-> 0, closure |-> 0, armed |-> FALSE]]
  /\ stream = [l \in Lanes |-> [head |-> 1, limit |-> Unlimited]]
  /\ computed = [l \in Lanes |-> {}] /\ sent = [l \in Lanes |-> 0]
  /\ cpu = [t \in {Engine, Placement} |-> [pc |-> "idle", todo |-> {}]]
  /\ bridge = [want |-> FALSE, draining |-> FALSE, gate |-> "open", closure |-> 0]
  /\ stop = FALSE /\ main = "serving"

-----------------------------------------------------------------------------
(* Futex words.                                                            *)

Watch(t, w) == watch' = [watch EXCEPT ![t] = w]
Moved(w) == [t \in Threads |-> IF watch[t] = w THEN "none" ELSE watch[t]]
Move(w) == watch' = Moved(w)
Notify == Move("notify")

At(l, p) == work[l].pc = p
Go(l, p) == work' = [work EXCEPT ![l].pc = p]
Signal(l, field, v) == lane' = [lane EXCEPT ![l][field] = v]

-----------------------------------------------------------------------------
(* wait_burst.                                                             *)

WaitLoads(l) ==
  /\ At(l, "wait")
  /\ LET idle == ~stop /\ ~hdr.stop /\ ~hdr.burst
     IN /\ Go(l, IF stop \/ hdr.stop THEN "exit" ELSE IF idle THEN "asked" ELSE "top")
        /\ Watch(l, IF idle THEN "burst" ELSE "none")
  /\ UNCHANGED <<hdr, lane, stream, computed, stop, main, engineVars>>

WaitAsks(l) ==
  /\ At(l, "asked")
  /\ Go(l, IF lane[l].drainRequest # 0 THEN "top" ELSE "asleep")
  /\ UNCHANGED <<hdr, lane, watch, stream, computed, stop, main, engineVars>>

WaitWakes(l) ==
  /\ At(l, "asleep") /\ watch[l] = "none" /\ Go(l, "wait")
  /\ UNCHANGED <<hdr, lane, watch, stream, computed, stop, main, engineVars>>

-----------------------------------------------------------------------------
(* A drain: acknowledge_drain.                                             *)

Drained(l) == l \in SmallLanes => stream[l].head = work[l].next

\* The acknowledgement follows the lane's stream; a request that is gone by
\* then stops the helper.
Acknowledges(l) ==
  /\ At(l, "ack") /\ Drained(l)
  /\ IF lane[l].drainRequest = work[l].closure
     THEN Go(l, "acked") /\ Signal(l, "drainAck", work[l].closure) /\ UNCHANGED stop
     ELSE Go(l, LoopTop(l)) /\ stop' = TRUE /\ UNCHANGED lane
  /\ UNCHANGED <<hdr, watch, stream, computed, main, engineVars>>

AckNotifies(l) ==
  /\ At(l, "acked") /\ Go(l, "hold") /\ Notify
  /\ UNCHANGED <<hdr, lane, stream, computed, stop, main, engineVars>>

HoldLoads(l) ==
  /\ At(l, "hold") /\ Go(l, "holding") /\ Watch(l, "notify")
  /\ UNCHANGED <<hdr, lane, stream, computed, stop, main, engineVars>>

HoldChecks(l) ==
  /\ At(l, "holding")
  /\ LET over == stop \/ lane[l].drainRequest # work[l].closure
     IN /\ Go(l, IF over \/ hdr.fault THEN LoopTop(l) ELSE "held")
        /\ stop' = (stop \/ (~over /\ hdr.fault))
  /\ UNCHANGED <<hdr, lane, watch, stream, computed, main, engineVars>>

HoldWakes(l) ==
  /\ At(l, "held") /\ watch[l] = "none" /\ Go(l, "hold")
  /\ UNCHANGED <<hdr, lane, watch, stream, computed, stop, main, engineVars>>

-----------------------------------------------------------------------------
(* run_large.                                                              *)

\* The request is launched when it has arrived, and its stream synchronised.
LargeServes(l) ==
  /\ l \in LargeLanes /\ At(l, "top") /\ ~stop /\ work[l].next <= lane[l].request
  /\ computed' = [computed EXCEPT ![l] = @ \cup {work[l].next}]
  /\ Signal(l, "done", work[l].next)
  /\ work' = [work EXCEPT ![l].next = @ + 1]
  /\ UNCHANGED <<hdr, watch, stream, stop, main, engineVars>>

LargeIdles(l) ==
  /\ l \in LargeLanes /\ At(l, "top")
  /\ stop \/ work[l].next > lane[l].request
  /\ Go(l, IF stop THEN "exit" ELSE "idle")
  /\ UNCHANGED <<hdr, lane, watch, stream, computed, stop, main, engineVars>>

LargeSpins(l) ==
  /\ At(l, "idle") /\ Go(l, IF hdr.burst THEN "top" ELSE "quiet")
  /\ UNCHANGED <<hdr, lane, watch, stream, computed, stop, main, engineVars>>

LargeAsks(l) ==
  /\ At(l, "quiet")
  /\ work' = [work EXCEPT
       ![l].pc = IF lane[l].drainRequest # 0 THEN "ack" ELSE "wait",
       ![l].closure = lane[l].drainRequest]
  /\ UNCHANGED <<hdr, lane, watch, stream, computed, stop, main, engineVars>>

-----------------------------------------------------------------------------
(* run_small.                                                              *)

\* fill: the next sequence when QueueDepth waits follow the last completion.
FilledPastDepth(seen) == seen + QueueDepth + 2
Filled(seen) == seen + QueueDepth + 1

\* A drain request parks an armed lane by force before it is acknowledged;
\* otherwise the lane queues QueueDepth waits, if it has none, and serves.
Asked(l) == lane[l].drainRequest # 0
SmallTurns(l) ==
  /\ l \in SmallLanes /\ At(l, "top")
  /\ LET w == work[l]
         arms == ~Asked(l) /\ ~w.armed
     IN /\ work' = [work EXCEPT
             ![l].pc = IF ~Asked(l) THEN "serve" ELSE IF w.armed THEN "flag" ELSE "ack",
             ![l].closure = lane[l].drainRequest,
             ![l].armed = @ \/ arms,
             ![l].next = IF arms THEN Filled(w.seen) ELSE @]
        /\ stream' = [stream EXCEPT ![l].head = IF arms THEN w.seen + 1 ELSE @]
  /\ UNCHANGED <<hdr, lane, watch, computed, stop, main, engineVars>>

SmallServesOn(l) ==
  /\ At(l, "serve")
  /\ LET d == lane[l].done
     IN work' = [work EXCEPT ![l].pc = IF d > work[l].seen THEN "serve" ELSE "spin",
                             ![l].seen = d, ![l].next = Filled(d)]
  /\ UNCHANGED <<hdr, lane, watch, stream, computed, stop, main, engineVars>>

\* A completion is collected and the queue refilled.
SmallServes(l) ==
  /\ At(l, "serve")
  /\ LET d == lane[l].done
     IN work' = [work EXCEPT
          ![l].pc = IF stop THEN "exit" ELSE IF d > work[l].seen THEN "serve" ELSE "spin",
          ![l].seen = IF stop THEN @ ELSE d,
          ![l].next = IF stop THEN @ ELSE Filled(d)]
  /\ UNCHANGED <<hdr, lane, watch, stream, computed, stop, main, engineVars>>

SmallSpins(l) ==
  /\ At(l, "spin") /\ Go(l, IF hdr.burst THEN "serve" ELSE "ended")
  /\ UNCHANGED <<hdr, lane, watch, stream, computed, stop, main, engineVars>>

\* The burst is over: a drain is taken at the top of the loop, and without
\* power save the lane stays armed.
SmallEnds(l) ==
  /\ At(l, "ended")
  /\ work' = [work EXCEPT
       ![l].pc = IF stop THEN "exit" ELSE IF Asked(l) \/ ~hdr.cfg.powerSave THEN "wait" ELSE "flag",
       ![l].closure = 0]
  /\ UNCHANGED <<hdr, lane, watch, stream, computed, stop, main, engineVars>>

-----------------------------------------------------------------------------
(* park_lane, by force when the lane took a drain request.                 *)

ParkFlags(l) ==
  /\ At(l, "flag") /\ Signal(l, "park", TRUE)
  /\ Go(l, IF work[l].closure # 0 THEN "last" ELSE "recheck")
  /\ UNCHANGED <<hdr, watch, stream, computed, stop, main, engineVars>>

ParkUnchecked(l) ==
  /\ At(l, "recheck") /\ Go(l, "last")
  /\ UNCHANGED <<hdr, lane, watch, stream, computed, stop, main, engineVars>>

\* The flag is up before the burst is read again: either the engine, opening
\* a burst, sees the flag, or the lane sees the burst and stays armed.
ParkRechecks(l) ==
  /\ At(l, "recheck") /\ Go(l, IF hdr.burst THEN "clear" ELSE "last")
  /\ UNCHANGED <<hdr, lane, watch, stream, computed, stop, main, engineVars>>

ParkLoads(l) ==
  /\ At(l, "last")
  /\ work' = [work EXCEPT ![l].last = lane[l].request, ![l].pc = "settle"]
  /\ UNCHANGED <<hdr, lane, watch, stream, computed, stop, main, engineVars>>

\* The waits of requests nobody sent are released, above a publish limit.
ParkLimitOffByOne(l) == work[l].last + 1
ParkLimit(l) == work[l].last
ParkReleases(l) ==
  /\ At(l, "settle") /\ (stop \/ lane[l].done = work[l].last)
  /\ IF stop THEN Go(l, "exit") /\ UNCHANGED <<lane, stream>>
     ELSE /\ Go(l, "drain") /\ Signal(l, "request", work[l].next - 1)
          /\ stream' = [stream EXCEPT ![l].limit = ParkLimit(l)]
  /\ UNCHANGED <<hdr, watch, computed, stop, main, engineVars>>

ParkDrainsLimited(l) ==
  /\ At(l, "drain") /\ Drained(l) /\ Signal(l, "request", work[l].last)
  /\ work' = [work EXCEPT ![l].seen = work[l].last, ![l].armed = FALSE, ![l].pc = "clear"]
  /\ UNCHANGED <<hdr, watch, stream, computed, stop, main, engineVars>>

ParkDrains(l) ==
  /\ At(l, "drain") /\ Drained(l)
  /\ stream' = [stream EXCEPT ![l].limit = Unlimited]
  /\ Signal(l, "request", work[l].last)
  /\ work' = [work EXCEPT ![l].seen = work[l].last, ![l].armed = FALSE, ![l].pc = "clear"]
  /\ UNCHANGED <<hdr, watch, computed, stop, main, engineVars>>

ParkClears(l) ==
  /\ At(l, "clear") /\ Signal(l, "park", FALSE) /\ Go(l, "tell")
  /\ UNCHANGED <<hdr, watch, stream, computed, stop, main, engineVars>>

ParkSilent(l) ==
  /\ At(l, "tell") /\ Go(l, IF work[l].closure # 0 THEN "ack" ELSE "wait")
  /\ UNCHANGED <<hdr, lane, watch, stream, computed, stop, main, engineVars>>

ParkNotifies(l) ==
  /\ At(l, "tell") /\ Notify /\ Go(l, IF work[l].closure # 0 THEN "ack" ELSE "wait")
  /\ UNCHANGED <<hdr, lane, stream, computed, stop, main, engineVars>>

-----------------------------------------------------------------------------
(* The lane's stream, failing lanes and the way out.                       *)

\* hipStreamWaitValue32 passes at its sequence.  The kernels compute only what
\* the ring slot holds, and lane_publish_done publishes up to the limit.
StreamRuns(l) ==
  LET h == stream[l].head IN
  /\ l \in SmallLanes /\ h < work[l].next /\ lane[l].request >= h
  /\ stream' = [stream EXCEPT ![l].head = h + 1]
  /\ computed' = [computed EXCEPT ![l] = IF h <= sent[l] THEN @ \cup {h} ELSE @]
  /\ Signal(l, "done", IF h <= stream[l].limit THEN h ELSE lane[l].done)
  /\ UNCHANGED <<hdr, watch, work, stop, main, engineVars>>

\* An enqueue, a collection, a limit or a synchronisation fails.
LaneFails(l) ==
  /\ "device" \in hdr.cfg.failures /\ ~stop
  /\ work[l].pc \in {"serve", "settle", "drain"} \/ (l \in LargeLanes /\ At(l, "top"))
  /\ stop' = TRUE /\ Go(l, "exit")
  /\ UNCHANGED <<hdr, lane, watch, stream, computed, main, engineVars>>

\* A small lane on its way out releases its waits so that the stream drains.
LaneExits(l) ==
  /\ At(l, "exit") /\ Go(l, "finish")
  /\ IF l \in SmallLanes THEN Signal(l, "request", work[l].next - 1) ELSE UNCHANGED lane
  /\ UNCHANGED <<hdr, watch, stream, computed, stop, main, engineVars>>

LaneFinishes(l) ==
  /\ At(l, "finish") /\ Drained(l) /\ Go(l, "gone")
  /\ UNCHANGED <<hdr, lane, watch, stream, computed, stop, main, engineVars>>

-----------------------------------------------------------------------------
(* The helper's main thread: a stop and stop_and_join.                     *)

\* A signal arrives, or a tick of the epoch driver finds the fault raised.
StopRequested ==
  /\ ~stop /\ ("signal" \in hdr.cfg.failures \/ hdr.fault) /\ stop' = TRUE
  /\ UNCHANGED <<hdr, lane, watch, work, stream, computed, main, engineVars>>

StopWakes ==
  /\ stop /\ main = "serving" /\ main' = "flags"
  /\ hdr' = [hdr EXCEPT !.stop = TRUE] /\ Move("burst")
  /\ UNCHANGED <<lane, work, stream, computed, stop, engineVars>>

StopClearsParks ==
  /\ main = "flags" /\ main' = "faults"
  /\ lane' = [l \in Lanes |-> [lane[l] EXCEPT !.park = @ /\ l \notin hdr.cfg.served]]
  /\ UNCHANGED <<hdr, watch, work, stream, computed, stop, engineVars>>

StopFaults ==
  /\ main = "faults" /\ main' = "join"
  /\ hdr' = [hdr EXCEPT !.fault = TRUE] /\ Notify
  /\ UNCHANGED <<lane, work, stream, computed, stop, engineVars>>

StopJoins ==
  /\ main = "join" /\ \A l \in Lanes : At(l, "gone")
  /\ main' = "joined"
  /\ UNCHANGED <<hdr, lane, watch, work, stream, computed, stop, engineVars>>

-----------------------------------------------------------------------------
(* The engine.  Both its threads open bursts, and then wait for parks.     *)

Ready(t, p) == cpu[t].pc = p
Turn(t, p) == cpu' = [cpu EXCEPT ![t].pc = p]
Turns(t, p, s) == cpu' = [cpu EXCEPT ![t] = [pc |-> p, todo |-> s]]

\* apply_burst: the word takes radiance's wanted parity; the engine that opens
\* a burst waits for parks.
Opens(want) == want /\ ~hdr.burst
ApplyBurst(want) ==
  /\ hdr' = [hdr EXCEPT !.burst = want]
  /\ IF hdr.burst # want THEN Move("burst") ELSE UNCHANGED watch

\* wait_parks_until, lane by lane: wait_for reads the generation word, then
\* the fault and the lane's flag, then sleeps.
ParksLoad(t) ==
  /\ Ready(t, "parks") /\ Turn(t, "see") /\ Watch(t, "notify")
  /\ UNCHANGED <<hdr, lane, helperVars, sent, bridge>>

AfterParks(t) == IF t = Engine THEN "busy" ELSE "gate"
ParksSeen(t) ==
  LET l == Min(cpu[t].todo) IN
  /\ Ready(t, "see") /\ ~hdr.fault
  /\ IF lane[l].park THEN Turn(t, "nap")
     ELSE Turns(t, IF cpu[t].todo = {l} THEN AfterParks(t) ELSE "parks", cpu[t].todo \ {l})
  /\ UNCHANGED <<hdr, lane, watch, helperVars, sent, bridge>>

ParksWake(t) ==
  /\ Ready(t, "nap") /\ watch[t] = "none" /\ Turn(t, "parks")
  /\ UNCHANGED <<hdr, lane, watch, helperVars, sent, bridge>>

\* wait_parks_checked on a fault: it is raised again; the scheduler goes on to
\* a pass that admission refuses.
ParksFault ==
  /\ Ready(Engine, "see") /\ hdr.fault
  /\ Turns(Engine, "busy", {}) /\ Notify
  /\ UNCHANGED <<hdr, lane, helperVars, sent, bridge>>

\* burst_transition, recorded only while a drain holds the word.
BurstBegins ==
  /\ Ready(Engine, "idle")
  /\ bridge' = [bridge EXCEPT !.want = TRUE]
  /\ IF bridge.draining THEN Turn(Engine, "busy") /\ UNCHANGED <<hdr, watch>>
     ELSE /\ ApplyBurst(TRUE)
          /\ IF Opens(TRUE) THEN Turns(Engine, "parks", Lanes) ELSE Turn(Engine, "busy")
  /\ UNCHANGED <<lane, helperVars, sent>>

BurstEnds ==
  /\ Ready(Engine, "busy") /\ Turn(Engine, "idle")
  /\ bridge' = [bridge EXCEPT !.want = FALSE]
  /\ IF bridge.draining THEN UNCHANGED <<hdr, watch>> ELSE ApplyBurst(FALSE)
  /\ UNCHANGED <<lane, helperVars, sent>>

\* A parent is admitted at an open gate; a stopped ledger or a fault ends the
\* engine's serving.
Admits ==
  /\ Ready(Engine, "busy") /\ (bridge.gate # "closed" \/ hdr.fault)
  /\ Turn(Engine, IF bridge.gate = "open" /\ ~hdr.fault THEN "admitted" ELSE "stopped")
  /\ UNCHANGED <<hdr, lane, watch, helperVars, sent, bridge>>

Publishes(l) ==
  /\ Ready(Engine, "admitted") /\ l \in hdr.cfg.served /\ sent[l] < MaxRequests
  /\ sent' = [sent EXCEPT ![l] = @ + 1] /\ Signal(l, "request", sent[l] + 1)
  /\ Turns(Engine, "published", {l})
  /\ UNCHANGED <<hdr, watch, helperVars, bridge>>

\* mailbox_wait_helpers: exactly the published sequence, or the fault.
Merges ==
  /\ Ready(Engine, "published")
  /\ \E l \in cpu[Engine].todo :
       lane[l].done = sent[l] /\ Signal(l, "consumed", sent[l])
  /\ Turns(Engine, "admitted", {})
  /\ UNCHANGED <<hdr, watch, helperVars, sent, bridge>>

Traps ==
  /\ Ready(Engine, "published") /\ hdr.fault
  /\ \A l \in cpu[Engine].todo : lane[l].done # sent[l]
  /\ Turns(Engine, "stopped", {})
  /\ UNCHANGED <<hdr, lane, watch, helperVars, sent, bridge>>

Retires ==
  /\ Ready(Engine, "admitted") /\ Turn(Engine, "busy")
  /\ UNCHANGED <<hdr, lane, watch, helperVars, sent, bridge>>
Outstanding == cpu[Engine].pc \in {"admitted", "published"}

-----------------------------------------------------------------------------
(* The placement thread: close, drain, reopen.                             *)

Closes ==
  /\ Ready(Placement, "idle") /\ ~hdr.fault /\ bridge.closure < hdr.cfg.closures
  /\ bridge' = [bridge EXCEPT !.gate = "closed", !.closure = @ + 1]
  /\ Turn(Placement, "ledger")
  /\ UNCHANGED <<hdr, lane, watch, helperVars, sent>>

LedgerDrained ==
  /\ Ready(Placement, "ledger") /\ ~Outstanding /\ ~hdr.fault
  /\ Turns(Placement, "asking", hdr.cfg.served)
  /\ UNCHANGED <<hdr, lane, watch, helperVars, sent, bridge>>

\* request_helper_drain: the drain words, then the burst word, held even until
\* reopen and moved even if it was.
AsksLane ==
  LET l == Min(cpu[Placement].todo) IN
  /\ Ready(Placement, "asking") /\ cpu[Placement].todo # {}
  /\ Signal(l, "drainRequest", bridge.closure)
  /\ Turns(Placement, "asking", cpu[Placement].todo \ {l})
  /\ UNCHANGED <<hdr, watch, helperVars, sent, bridge>>

HoldIfRunning ==
  /\ hdr' = [hdr EXCEPT !.burst = FALSE]
  /\ IF hdr.burst THEN Move("burst") ELSE UNCHANGED watch
HoldBurst == hdr' = [hdr EXCEPT !.burst = FALSE] /\ Move("burst")
HoldsBurst ==
  /\ Ready(Placement, "asking") /\ cpu[Placement].todo = {}
  /\ bridge' = [bridge EXCEPT !.draining = TRUE] /\ HoldBurst
  /\ Turn(Placement, "asked")
  /\ UNCHANGED <<lane, helperVars, sent>>

DrainNotifies ==
  /\ Ready(Placement, "asked") /\ Turn(Placement, "polling") /\ Notify
  /\ UNCHANGED <<hdr, lane, helperVars, sent, bridge>>

AckedOnce(l) ==
  /\ l \in hdr.cfg.served => lane[l].drainAck # 0
  /\ lane[l].done = lane[l].request /\ lane[l].consumed = lane[l].request
\* helper_drained; what it reads no longer changes once it holds.
LaneQuiesced(l) ==
  /\ l \in hdr.cfg.served => lane[l].drainAck = bridge.closure
  /\ lane[l].done = lane[l].request /\ lane[l].consumed = lane[l].request
DrainVerified ==
  /\ Ready(Placement, "polling") /\ ~hdr.fault /\ \A l \in Lanes : LaneQuiesced(l)
  /\ Turns(Placement, "verified", Lanes)
  /\ UNCHANGED <<hdr, lane, watch, helperVars, sent, bridge>>

\* r3_moe_reopen_admission, once the placement has committed.
ClearsLane ==
  LET l == Min(cpu[Placement].todo) IN
  /\ cpu[Placement].pc \in {"verified", "clearing"} /\ cpu[Placement].todo # {}
  /\ Signal(l, "drainRequest", 0)
  /\ Turns(Placement, "clearing", cpu[Placement].todo \ {l})
  /\ UNCHANGED <<hdr, watch, helperVars, sent, bridge>>

ReopenNotifies ==
  /\ Ready(Placement, "clearing") /\ cpu[Placement].todo = {}
  /\ Turn(Placement, "resume") /\ Notify
  /\ UNCHANGED <<hdr, lane, helperVars, sent, bridge>>

ResumesBurst ==
  /\ Ready(Placement, "resume")
  /\ bridge' = [bridge EXCEPT !.draining = FALSE] /\ ApplyBurst(bridge.want)
  /\ IF Opens(bridge.want) THEN Turns(Placement, "parks", Lanes) ELSE Turn(Placement, "gate")
  /\ UNCHANGED <<lane, helperVars, sent>>

GateOpens ==
  /\ Ready(Placement, "gate") /\ ~hdr.fault
  /\ bridge' = [bridge EXCEPT !.gate = "open"] /\ Turn(Placement, "idle")
  /\ UNCHANGED <<hdr, lane, watch, helperVars, sent>>

\* A fault or a deadline: the ledger stops, the fault is raised.
PlacementFails ==
  /\ cpu[Placement].pc \in {"ledger", "polling", "see", "gate"}
  /\ hdr.fault \/ ("deadline" \in hdr.cfg.failures /\ ~Ready(Placement, "gate"))
  /\ bridge' = [bridge EXCEPT !.gate = "stopped"] /\ Turns(Placement, "failed", {})
  /\ hdr' = [hdr EXCEPT !.fault = TRUE] /\ Notify
  /\ UNCHANGED <<lane, helperVars, sent>>

-----------------------------------------------------------------------------
LaneStep(l) ==
  \/ WaitLoads(l) \/ WaitAsks(l) \/ WaitWakes(l)
  \/ Acknowledges(l) \/ AckNotifies(l) \/ HoldLoads(l) \/ HoldChecks(l) \/ HoldWakes(l)
  \/ LargeServes(l) \/ LargeIdles(l) \/ LargeSpins(l) \/ LargeAsks(l)
  \/ SmallTurns(l) \/ SmallServes(l) \/ SmallSpins(l) \/ SmallEnds(l)
  \/ ParkFlags(l) \/ ParkRechecks(l) \/ ParkLoads(l) \/ ParkReleases(l) \/ ParkDrains(l)
  \/ ParkClears(l) \/ ParkNotifies(l) \/ LaneExits(l) \/ LaneFinishes(l)

StopStep == StopWakes \/ StopClearsParks \/ StopFaults \/ StopJoins
ParksStep(t) == ParksLoad(t) \/ ParksSeen(t) \/ ParksWake(t)

PlacementStep ==
  \/ LedgerDrained \/ AsksLane \/ HoldsBurst \/ DrainNotifies \/ DrainVerified
  \/ ClearsLane \/ ReopenNotifies \/ ResumesBurst \/ GateOpens \/ ParksStep(Placement)

EngineStep == Merges \/ Traps \/ Retires \/ ParksStep(Engine) \/ ParksFault

\* A request published after lane l released its waits takes the release back:
\* what is queued behind the request never runs.
Overwritten(l) ==
  /\ l \in SmallLanes /\ work[l].pc \in {"drain", "finish"}
  /\ lane[l].request < work[l].next - 1

\* Nothing is left to do, or only to wait for.
Ended ==
  /\ main = "joined" \/ \E l \in Lanes : Overwritten(l)
  /\ Ready(Engine, "stopped") /\ UNCHANGED laneVars

LaneNext ==
  \/ \E l \in Lanes : LaneStep(l) \/ StreamRuns(l) \/ LaneFails(l) \/ Publishes(l)
  \/ StopRequested \/ StopStep \/ EngineStep \/ BurstBegins \/ BurstEnds \/ Admits
  \/ Closes \/ PlacementStep \/ PlacementFails \/ Ended

\* Threads run and streams make progress.  Nothing obliges the scheduler to
\* have work, a placement to begin, a signal to come or a deadline to pass.
LaneFairness ==
  /\ \A l \in Lanes : WF_laneVars(LaneStep(l)) /\ WF_laneVars(StreamRuns(l))
  /\ WF_laneVars(EngineStep) /\ WF_laneVars(StopStep)
  /\ WF_laneVars(hdr.fault /\ StopRequested)
  /\ WF_laneVars(PlacementStep \/ (hdr.fault /\ PlacementFails))

LaneSpec == Init /\ [][LaneNext]_laneVars /\ LaneFairness

-----------------------------------------------------------------------------
(* Properties.                                                             *)

\* The shared words and the threads' locals keep their ranges: sequences never
\* run ahead of the queued waits.
LaneTypeOK ==
  /\ hdr \in [burst : BOOLEAN, stop : BOOLEAN, fault : BOOLEAN, cfg : Settings]
  /\ \A l \in Lanes :
       /\ lane[l].request \in 0 .. Unlimited - 1 /\ lane[l].done \in 0 .. Unlimited - 1
       /\ lane[l].consumed \in 0 .. sent[l] /\ sent[l] \in 0 .. MaxRequests
       /\ lane[l].drainRequest \in {0, bridge.closure}
       /\ lane[l].drainAck \in 0 .. bridge.closure
       /\ stream[l].head \in 1 .. Unlimited /\ stream[l].limit \in 0 .. Unlimited
       /\ work[l].next \in 1 .. Unlimited /\ work[l].seen \in 0 .. Unlimited - 1
  /\ watch \in [Threads -> {"none", "burst", "notify"}]

\* The engine merges only what a helper computed: no wait released by a park
\* ever passes for a result.  A helper that is stopping is excepted: see the
\* README, section 3.
MergedWasComputed ==
  ~stop => \A l \in Lanes : 1 .. lane[l].consumed \subseteq computed[l]

\* No parent is in flight while a lane has its waits released: the engine that
\* opens a burst, at its begin or at a reopen, and the lane that parks cannot
\* miss each other.
NothingSentIntoAPark ==
  Outstanding /\ ~stop =>
    \A l \in SmallLanes : work[l].pc \notin {"last", "settle", "drain"}

\* A verified drain means idle lanes until the words are cleared: no wait is
\* armed, no kernel queued, no flag up and nothing unanswered, although the
\* scheduler goes on beginning and ending its bursts.
VerifiedLanesAreIdle ==
  Ready(Placement, "verified") /\ ~stop =>
    \A l \in hdr.cfg.served :
      /\ ~work[l].armed /\ Drained(l) /\ ~lane[l].park /\ lane[l].request = sent[l]
      /\ work[l].pc \in {"acked", "hold", "holding", "held"}

\* Every request is answered, or the engine traps.
RequestsAreAnswered == Ready(Engine, "published") ~> ~Ready(Engine, "published")

\* A drain request reaches every lane, asleep, serving or parking.
DrainsEnd == Ready(Placement, "polling") ~> ~Ready(Placement, "polling")

\* The wait for parks at the start of a burst ends.
BurstsOpen == Ready(Engine, "parks") ~> Ready(Engine, "busy")

\* A helper that is asked to stop joins all its lanes, unless the engine publishes
\* over the release of one: see the README, section 3.
LanesJoin == stop ~> main = "joined" \/ \E l \in Lanes : Overwritten(l)

\* What worker_lanes.h says of stop_and_join and the code does not ensure: it publishes
\* the stop before it joins, so no lane can stay blocked and every join returns.
StopsAlwaysJoin == stop ~> main = "joined"
=============================================================================
