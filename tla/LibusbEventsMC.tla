-------------------------- MODULE LibusbEventsMC ---------------------------
(***************************************************************************)
(* Instances of LibusbEvents: two threads that transfer on a handle that   *)
(* stays open, and a third that opens and closes another.                  *)
(***************************************************************************)
EXTENDS LibusbEvents, TLC

CONSTANTS t1, t2, t3, d1, d2

UsesMC == (t1 :> {d1}) @@ (t2 :> {d1}) @@ (t3 :> {})
ManagesMC == (t1 :> {}) @@ (t2 :> {}) @@ (t3 :> {d2})
CallsMC == (t1 :> 1) @@ (t2 :> 1) @@ (t3 :> 2)
SetupsMC == {<<FALSE, FALSE, {}, 0>>, <<TRUE, FALSE, {}, 0>>, <<TRUE, TRUE, {"open", "close"}, 1>>}
=============================================================================
