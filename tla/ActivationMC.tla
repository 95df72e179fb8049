---------------------------- MODULE ActivationMC ----------------------------
(***************************************************************************)
(* Small instances of Activation for TLC: two plans, one of them with a    *)
(* template and two service actions.                                       *)
(***************************************************************************)
EXTENDS Activation, TLC

CONSTANTS pA, pB, fKey, fKey2, fTmpl, uWeb, uDb, lCompat

MCPlans == {pA, pB}
MCFiles == {fKey, fKey2, fTmpl}
MCTemplates == {fTmpl}
MCTree == pA :> {fKey, fTmpl} @@ pB :> {fKey2}
MCUnits == {uWeb, uDb}
MCActions == pA :> <<uWeb, uDb>> @@ pB :> <<>>
MCLinkNames == {lCompat}
MCLinks == pA :> {lCompat} @@ pB :> {}
MCSymmetry == Permutations(Procs)
=============================================================================
