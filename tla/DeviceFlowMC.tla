----------------------------- MODULE DeviceFlowMC -----------------------------
(***************************************************************************)
(* Instances of DeviceFlow for TLC.                                        *)
(***************************************************************************)
EXTENDS DeviceFlow, TLC

Symmetry == Permutations(Reqs) \cup Permutations(Txns)
              \cup Permutations(Emails) \cup Permutations(Secrets)
===============================================================================
