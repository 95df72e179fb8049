------------------------- MODULE ActivationHistory --------------------------
(***************************************************************************)
(* Activation with a history variable: what the runtime root and what is   *)
(* beside it looked like when the holder of the lock began.                *)
(***************************************************************************)
EXTENDS Activation

\* History: the root, the links and the transaction directories without an owner,
\* as the lock holder found them.
VARIABLE before

Found == [fs |-> fs, links |-> links, orphans |-> orphans]

HInit == Init /\ before = Found
HNext ==
  /\ Next
  /\ before' = IF lock = NoProc /\ lock' # NoProc THEN Found ELSE before
HSpec == HInit /\ [][HNext]_<<vars, before>>

\* An activation that fails before its switch took effect leaves the runtime
\* root, the compatibility links and the transaction directories exactly as it
\* found them, whichever step failed, the half-done removal, a publishing rename and
\* the syncs of marker and switch excepted.  (the error paths of
\* commit_and_switch_optional)
AbortRestores ==
  [][\A p \in Procs : pc[p] = "rm_links" /\ result[p] # "error" /\ result'[p] = "error"
       => Found' = before]_<<vars, before>>
=============================================================================
