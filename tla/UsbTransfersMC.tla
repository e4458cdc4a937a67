--------------------------- MODULE UsbTransfersMC ---------------------------
(***************************************************************************)
(* Instances of UsbTransfers: one transfer with a timeout and one without. *)
(***************************************************************************)
EXTENDS UsbTransfers, TLC

CONSTANTS a, b

TimeoutMC == (a :> 1) @@ (b :> 0)
Types(x, y) == (a :> x) @@ (b :> y)
SetupsMC ==
  {<<"linux", k, Types("bulk", "unused")>> : k \in BOOLEAN}
  \cup {<<"linux", FALSE, Types("iso", "unused")>>, <<"linux", TRUE, Types("control", "control")>>,
        <<"darwin", FALSE, Types("bulk", "bulk")>>, <<"windows", FALSE, Types("bulk", "control")>>}
UrbsMC == [control |-> 1, bulk |-> 3, iso |-> 2]
=============================================================================
