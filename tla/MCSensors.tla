------------------------------- MODULE MCSensors -------------------------------
(***************************************************************************)
(* Two of the four sensors, the first and the last in the aggregator's     *)
(* turn, with periods that meet and that do not.                           *)
(***************************************************************************)
EXTENDS Sensors

Periods == [s \in Enabled |-> IF s = "hum" THEN 1 ELSE 2]
=============================================================================
