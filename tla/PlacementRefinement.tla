------------------------ MODULE PlacementRefinement ------------------------
(***************************************************************************)
(* Moving experts implements the promise of module OwnerSwitch: whatever   *)
(* helpers, controller and engine do, the engine sees one owner map at a   *)
(* time, covered by resident weights, and exchanged only across a closed   *)
(* admission.                                                              *)
(***************************************************************************)
EXTENDS PlacementProofs

\* The experts whose weights h has, as the refinement mapping has it.
Holds == [h \in Helpers |-> {e \in Experts : \E i \in Ids(h) : weights[h][i] = e}]

\* What a step may do to the four variables of OwnerSwitch: leave the route
\* alone.
SameRoute ==
  gate' = gate /\ led' = led /\ (owner' = owner \/ (ctl' = ctl /\ Rec' = Rec))
\* Close admission, as EngineRankCoordinator::step does in QUIESCING.
Shuts == gate = "open" /\ gate' = "closed" /\ led' = led /\ HelpersKeep
\* Stop for good.
Faults == gate' = "faulted" /\ led' = led /\ HelpersKeep
\* Reopen on the next generation.
Reopens ==
  /\ gate = "closed" /\ gate' = "open" /\ led'.epoch = led.epoch + 1 /\ HelpersKeep

\* Helpers leave the route alone.
LEMMA TicksSameRoute ==
  ASSUME NEW h \in Helpers,
         Snapshot(h) \/ Tick(h) \/ StreamStep(h) \/ LanesDrain(h) \/ HelperDies(h)
  PROVE  SameRoute
<1>1. CASE Snapshot(h) \/ StreamStep(h) \/ LanesDrain(h) \/ HelperDies(h)
  BY <1>1 DEF Snapshot, StreamStep, LanesDrain, HelperDies, SameRoute, engineVars
<1>2. CASE TickFaulted(h) \/ TickInvalid(h) \/ TickIdle(h) \/ CleanupHalt(h)
  BY <1>2 DEF TickFaulted, TickInvalid, TickIdle, CleanupHalt, SameRoute, engineVars
<1>3. CASE TickReserving(h) \/ TickCopying(h)
  BY <1>3 DEF TickReserving, TickCopying, SameRoute, engineVars
<1>4. CASE TickQuiescing(h) \/ TickCommit(h) \/ TickRetiring(h)
  BY <1>4 DEF TickQuiescing, TickCommit, TickRetiring, SameRoute, engineVars
<1>5. CASE TickCleanup(h) \/ TickReopened(h) \/ TickAwaitsReopen(h)
  BY <1>5 DEF TickCleanup, TickReopened, TickAwaitsReopen, SameRoute, engineVars
<1> QED
  BY <1>1, <1>2, <1>3, <1>4, <1>5 DEF Tick

\* So do all outcomes of the controller's polls.
LEMMA ControllerSameRoute ==
  ASSUME ControllerStep
  PROVE  SameRoute
<1>1. CASE CleanupFails \/ CleanupExpires
  BY <1>1 DEF CleanupFails, CleanupExpires, CleanupStops, SameRoute, engineVars
<1>2. CASE PollActive \/ PollAdvances \/ PollWaits
  BY <1>2 DEF PollActive, PollAdvances, PollWaits, SameRoute, engineVars
<1>3. CASE PollFails \/ PollCollects \/ RetireHeader
  BY <1>3 DEF PollFails, PollCollects, RetireHeader, SameRoute, engineVars
<1> QED
  BY <1>1, <1>2, <1>3 DEF ControllerStep

\* The engine leaves the route alone, shuts or faults admission, or reopens it
\* on the next generation.
LEMMA EngineRoutes ==
  ASSUME PlacementInv, EngineStep
  PROVE  SameRoute \/ Shuts \/ Faults \/ Reopens
<1>1. EngineInv
  BY DEF PlacementInv
<1>2. HelpersKeep => ctl' = ctl /\ Rec' = Rec
  BY EngineFacts
<1>3. CASE EngineStops
  BY <1>3 DEF EngineStops, Faults
<1>4. CASE EngineReserving \/ EngineIdles
  BY <1>4 DEF EngineReserving, EngineIdles, SameRoute, engineVars
<1>5. CASE EngineCopying
  <2>1. HelpersKeep /\ gate' = gate /\ led' = led
    BY <1>5, CopyingUploads
  <2> QED
    BY <2>1, <1>2 DEF SameRoute
<1>6. CASE EngineCleans
  <2>1. HelpersKeep /\ UNCHANGED <<fault, gate, led, closing, drained, owner>>
    BY <1>6 DEF EngineCleans
  <2> QED
    BY <2>1, <1>2 DEF SameRoute
<1>7. CASE EngineCommits \/ EngineRetires \/ EngineDrained
  <2>1. HelpersKeep /\ led' = led /\ (gate' = gate \/ Fatal)
    BY <1>7 DEF EngineCommits, EngineRetires, EngineDrained
  <2> QED
    BY <2>1, <1>2 DEF SameRoute, Faults, Fatal
<1>8. CASE EngineCloses
  <2>1. HelpersKeep /\ led' = led /\ (gate' = "closed" \/ Fatal) /\ gate # "faulted"
    BY <1>8 DEF EngineCloses, Stepping, Stopped
  <2>2. gate \in {"open", "closed", "faulted"}
    BY <1>1 DEF EngineInv, EngineTyped
  <2> QED
    BY <2>1, <2>2, <1>2 DEF SameRoute, Faults, Fatal, Shuts
<1>9. CASE EngineReopens
  <2>1. /\ HelpersKeep /\ gate # "faulted" /\ co.closed # 0 /\ esnap # NoSnap
        /\ \/ Fatal /\ led' = led
           \/ /\ gate' = "open" /\ led' = [epoch |-> esnap.epoch, slot |-> esnap.slot]
              /\ esnap.epoch = co.oldEpoch + 1
    BY <1>9 DEF EngineReopens, Stepping, Stopped
  <2>2. gate = "closed" /\ co.oldEpoch = led.epoch
    BY <2>1, <1>1 DEF EngineInv, EngineTyped, EngineGate
  <2> QED
    BY <2>1, <2>2 DEF Faults, Fatal, Reopens
<1> QED
  BY <1>3, <1>4, <1>5, <1>6, <1>7, <1>8, <1>9 DEF EngineStep

\* Every step.
LEMMA Routes ==
  ASSUME PlacementInv, [PlacementNext]_placementVars
  PROVE  SameRoute \/ Shuts \/ Faults \/ Reopens
<1>1. CASE UNCHANGED placementVars
  BY <1>1 DEF placementVars, engineVars, SameRoute
<1>2. CASE WatchRaises \/ EngineLooks
  BY <1>2 DEF WatchRaises, EngineLooks, engineVars, SameRoute
<1>3. ASSUME NEW r \in Ranks, NEW g \in Generations, BitmapLands(r, g)
      PROVE  SameRoute
  <2>1. HelpersKeep /\ gate' = gate /\ led' = led
    BY <1>3 DEF BitmapLands
  <2> QED
    BY <2>1, EngineFacts DEF SameRoute
<1> QED
  BY <1>1, <1>2, <1>3, TicksSameRoute, ControllerSameRoute, EngineRoutes
  DEF PlacementNext, Ended

\* The map in force is an owner map whose experts are all resident.
Routed ==
  /\ owner[FirstRank][led.slot].map = LedMap /\ LedMap \in OwnerMaps
  /\ Holds \in [Helpers -> SUBSET Experts]
  /\ \A e \in Experts : e \in Holds[LedMap[e]]

\* It always is, whether admission is open, closed or faulted.
LEMMA RouteCovered ==
  ASSUME PlacementInv
  PROVE  Routed
<1>1. EngineInv /\ CtlInv /\ FirstRank \in Ranks
  BY ActorsAssumption DEF PlacementInv
<1>2. owner[FirstRank][led.slot].map = LedMap
  BY <1>1 DEF EngineInv, EngineLed
<1>3. LedMap \in OwnerMaps
  BY LedIsMap
<1>4. Holds \in [Helpers -> SUBSET Experts]
  BY DEF Holds
<1>5. ASSUME NEW e \in Experts PROVE e \in Holds[LedMap[e]]
  <2>1. LedMap[e] \in Helpers /\ e \in Owned(LedMap[e], LedMap)
    BY <1>3 DEF OwnerMaps, Owned
  <2>2. PICK i \in Ids(LedMap[e]) : weights[LedMap[e]][i] = e
    BY <2>1, LedResident
  <2> QED
    BY <2>1, <2>2 DEF Holds
<1> QED
  BY <1>2, <1>3, <1>4, <1>5 DEF Routed

\* The same of the state after a step.
LEMMA RouteStaysCovered ==
  PlacementInv' => Routed'
<1>1. PlacementInv => Routed
  BY RouteCovered
<1> QED
  BY <1>1, PTL

\* Bootstrap is an initial state of OwnerSwitch.
LEMMA SwitchStarts ==
  ASSUME PlacementInit
  PROVE  Routing!SwitchInit
<1>1. PlacementInv
  BY PlacementStarts
<1>2. led.epoch = 1 /\ gate = "open" /\ led.slot = 0
  BY DEF PlacementInit
<1>3. LedMap = InitialOwners
  BY <1>2, ControlStarts DEF LedMap
<1>4. /\ owner[FirstRank][led.slot].map = InitialOwners
      /\ Holds \in [Helpers -> SUBSET Experts]
      /\ \A e \in Experts : e \in Holds[InitialOwners[e]]
  BY <1>1, <1>3, RouteCovered DEF Routed
<1> QED
  BY <1>2, <1>4 DEF Routing!SwitchInit, Routing!Covers, Holds

\* Every step is one of OwnerSwitch, or stutters.
LEMMA SwitchSteps ==
  ASSUME PlacementInv, PlacementInv', [PlacementNext]_placementVars
  PROVE  [Routing!SwitchNext]_Routing!switchVars
<1> DEFINE m == owner[FirstRank][led.slot].map
<1>1. SameRoute \/ Shuts \/ Faults \/ Reopens
  BY Routes
<1>2. /\ m = LedMap /\ \A e \in Experts : e \in Holds[m[e]]
  BY RouteCovered DEF Routed
<1>3. /\ m' = LedMap' /\ m' \in OwnerMaps /\ Holds' \in [Helpers -> SUBSET Experts]
      /\ \A e \in Experts : e \in Holds'[m'[e]]
  BY RouteStaysCovered DEF Routed
<1>4. HelpersKeep => ctl' = ctl /\ Rec' = Rec /\ Holds' = Holds
  BY EngineFacts DEF HelpersKeep, poolVars, Holds
<1>5. led' = led /\ ctl' = ctl /\ Rec' = Rec => m' = m
  BY <1>2, <1>3 DEF LedMap
<1>6. CASE SameRoute
  <2>1. m' = m /\ led'.epoch = led.epoch /\ gate' = gate
    BY <1>5, <1>6 DEF SameRoute
  <2>2. Routing!Move
    BY <1>3, <2>1 DEF Routing!Move, Routing!Covers, Holds
  <2> QED
    BY <2>2 DEF Routing!SwitchNext
<1>7. CASE Shuts
  <2>1. m' = m /\ led'.epoch = led.epoch /\ Holds' = Holds
    BY <1>4, <1>5, <1>7 DEF Shuts
  <2>2. Routing!Close
    BY <1>7, <2>1 DEF Routing!Close, Shuts, Holds
  <2> QED
    BY <2>2 DEF Routing!SwitchNext
<1>8. CASE Faults
  <2>1. m' = m /\ led'.epoch = led.epoch /\ Holds' = Holds
    BY <1>4, <1>5, <1>8 DEF Faults
  <2>2. Routing!Stop
    BY <1>8, <2>1 DEF Routing!Stop, Faults, Holds
  <2> QED
    BY <2>2 DEF Routing!SwitchNext
<1>9. CASE Reopens
  <2>1. Holds' = Holds
    BY <1>4, <1>9 DEF Reopens
  <2>2. Routing!Switch
    BY <1>3, <1>9, <2>1 DEF Routing!Switch, Routing!Covers, Reopens, Holds, OwnerMaps
  <2> QED
    BY <2>2 DEF Routing!SwitchNext
<1> QED
  BY <1>1, <1>6, <1>7, <1>8, <1>9

\* Placement implements OwnerSwitch: one owner map at a time is in force, its
\* weights are resident, and EngineReopens alone exchanges it, across an
\* admission that was closed and drained.
THEOREM PlacementImplementsSwitch ==
  PlacementSpec => RefinesOwnerSwitch
<1>1. PlacementInit => Routing!SwitchInit
  BY SwitchStarts
<1>2. PlacementInv /\ PlacementInv' /\ [PlacementNext]_placementVars
        => [Routing!SwitchNext]_Routing!switchVars
  BY SwitchSteps
<1> QED
  BY <1>1, <1>2, PlacementSafe, PTL DEF PlacementSpec, RefinesOwnerSwitch, Routing!SwitchSpec
=============================================================================
