------------------------------ MODULE MCReconRun ------------------------------
(* Instances of ReconRun for TLC: two hosts, one row outside the sample.     *)
EXTENDS ReconRun, TLC

CONSTANTS a1, a2, b1, rest, hostA, hostB

TwoHostSample == {a1, a2, b1}
TwoHostRows   == TwoHostSample \cup {rest}
TwoHostOf     == [u \in TwoHostSample |-> IF u = b1 THEN hostB ELSE hostA]

(* A save breaks off after some rows of a file with this order. *)
FirstRows == {{}, {a1}, {a1, a2}, TwoHostSample}
===============================================================================
