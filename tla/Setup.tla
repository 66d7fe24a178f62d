------------------------------- MODULE Setup -------------------------------
(* The processes of one user that run setup-local side by side: what the    *)
(* installation of a runtime and the enrolment of Amp have in common.       *)
EXTENDS Naturals

CONSTANTS
  Setups,       \* the processes
  MaxFaults     \* kills, power cuts, lost connections, failed writes

ASSUME SetupAssumption == MaxFaults \in Nat

VARIABLES
  setup,        \* of each process: where it is, and what it holds
  faults        \* that have happened

At(s, place) == setup[s].at = place
Goes(s, place) == setup' = [setup EXCEPT ![s].at = place]
Fault == faults < MaxFaults /\ faults' = faults + 1
=============================================================================
