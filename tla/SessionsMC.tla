------------------------------ MODULE SessionsMC ------------------------------
(***************************************************************************)
(* Instances of Sessions for TLC.  Requests, cleanup callers, emails and   *)
(* secrets are model values that no formula tells apart.                   *)
(***************************************************************************)
EXTENDS Sessions, TLC

Symmetry == Permutations(Reqs) \cup Permutations(Cleaners)
              \cup Permutations(Emails) \cup Permutations(Secrets)
===============================================================================
