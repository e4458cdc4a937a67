----------------------------- MODULE WindowsMC -----------------------------
(***************************************************************************)
(* An instance of Windows.  Two threads submit a transfer each, one of     *)
(* which its callback submits again, with a table that has room for both   *)
(* and one that has not; and two threads that each create their context    *)
(* twice and read the clock twice in each, one wait of which runs out of   *)
(* time.                                                                   *)
(***************************************************************************)
EXTENDS Windows, TLC

CONSTANTS t1, t2, a, b

ByMC == (a :> t1) @@ (b :> t2)
DirectionMC == (a :> "read") @@ (b :> "write")
TurnsMC == (a :> 2) @@ (b :> 1)

\* The size of the table says nothing of the clock.
InitMC == WindowsInit /\ (side = "clock" => Cardinality(Slots) = 3)

SpecMC == InitMC /\ [][WindowsNext]_windows /\ WindowsFairness
=============================================================================
