------------------------------ MODULE MCSpike ------------------------------
(***************************************************************************)
(* An instance of SpikeIngestion for TLC: blocks that carry a deposit or a  *)
(* registration, two of them of the required time, and a jump of the clock *)
(* before the last two.                                                    *)
(***************************************************************************)
EXTENDS SpikeIngestion, TLC

CONSTANTS Deposit, Key

MCContents   == {Deposit, Key}
MCQueries    == <<Deposit, Key>>
MCTimestamp  == (0 :> 0) @@ (1 :> 0) @@ (2 :> 1) @@ (3 :> 1) @@ (4 :> 3) @@ (5 :> 3)
=============================================================================
