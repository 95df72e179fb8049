------------------------------ MODULE CacheMC ------------------------------
(***************************************************************************)
(* Small instances of Cache for TLC: a generic object, artifacts, two      *)
(* versions that verify, since encryption is randomised, and one that does *)
(* not.                                                                    *)
(***************************************************************************)
EXTENDS Cache, TLC

CONSTANTS a1, v1, v2, forged

MCVersions == {v1, v2, forged}
MCSigned == {v1, v2}
MCActive == Artifacts
\* An exchange with every key, and one with a bundle that does not verify.
MCExchanges ==
  {[k \in Keys |-> IF k \in Objects THEN k ELSE v1],
   [k \in Keys |-> IF k = a1 THEN forged ELSE NoVersion]}
MCSymmetry == Permutations(Procs)
=============================================================================
