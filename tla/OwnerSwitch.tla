----------------------------- MODULE OwnerSwitch -----------------------------
(***************************************************************************)
(* What moving experts promises the engine that routes to them: one owner  *)
(* map is in force at a time, every expert is held by its owner under that *)
(* map, and the map changes only together with the reopening of an         *)
(* admission that had been closed and drained.  How helpers come to hold   *)
(* an expert is left open.                                                 *)
(***************************************************************************)
EXTENDS Integers

CONSTANTS
  Helpers,    \* who may own an expert
  Experts,    \* the experts
  FirstMap    \* the map in force at the start

VARIABLES
  epoch,      \* how many maps have been in force
  owners,     \* the map in force
  admitting,  \* "open", "closed" or "faulted"
  held        \* held[h]: the experts whose weights h has

switchVars == <<epoch, owners, admitting, held>>

Covers(m, weights) == \A e \in Experts : e \in weights[m[e]]

SwitchInit ==
  /\ epoch = 1 /\ owners = FirstMap /\ admitting = "open"
  /\ held \in [Helpers -> SUBSET Experts] /\ Covers(owners, held)

\* Weights come and go, never those the map in force needs.
Move ==
  /\ held' \in [Helpers -> SUBSET Experts]
  /\ admitting # "faulted" => Covers(owners, held')
  /\ UNCHANGED <<epoch, owners, admitting>>

Close ==
  /\ admitting = "open" /\ admitting' = "closed"
  /\ UNCHANGED <<epoch, owners, held>>

Switch ==
  /\ admitting = "closed" /\ admitting' = "open"
  /\ owners' \in [Experts -> Helpers] /\ Covers(owners', held)
  /\ epoch' = epoch + 1
  /\ UNCHANGED held

Stop ==
  /\ admitting' = "faulted"
  /\ UNCHANGED <<epoch, owners, held>>

SwitchNext == Move \/ Close \/ Switch \/ Stop
SwitchSpec == SwitchInit /\ [][SwitchNext]_switchVars
=============================================================================
