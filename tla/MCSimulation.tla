---------------------------- MODULE MCSimulation ----------------------------
(* Instances of Simulation small enough for TLC. *)
EXTENDS Simulation, TLC

CONSTANTS e1, e2, e3

\* A generator that repeats itself before it yields its last id.
RepeatedDraws == <<e1, e2, e1, e3>>
=============================================================================
