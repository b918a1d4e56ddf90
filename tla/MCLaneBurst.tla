---------------------------- MODULE MCLaneBurst ----------------------------
(* Configurations of the lanes for model checking.                         *)
EXTENDS LaneBurst

\* A helper that serves the lanes s, its power save, closures and failures.
With(s, p, n, f) == [served |-> s, powerSave |-> p, closures |-> n, failures |-> f]

\* One lane served, of either kind: a small one with power save through two
\* closures, and each kind stopped around one closure.
OneLaneSettings ==
  {With(SmallLanes, TRUE, 2, {}), With(SmallLanes, TRUE, 1, {"signal"}),
   With(SmallLanes, FALSE, 1, {"device"}), With(LargeLanes, TRUE, 1, {"device"})}

\* One small lane, no closure, and a stop at any time.
StoppedLaneSettings == {With(SmallLanes, TRUE, 0, {"signal"})}
=============================================================================
