----------------------------- MODULE SecretView -----------------------------
(***************************************************************************)
(* What activation promises to the readers of runtimeRoot/current and to   *)
(* the services that use those files, with the generations, the marker,    *)
(* the lock and the steps in between hidden.                               *)
(***************************************************************************)
CONSTANTS
  Plans,       \* canonical plans
  Tree,        \* Tree[pl]: the files the plan materialises
  UnitsOf(_)   \* UnitsOf(pl): the units the plan acts on after a switch

VARIABLES
  view,  \* the files a reader finds under `current'
  past,  \* the views a power loss may bring back
  owed   \* units of the live plan that were not yet acted on

viewVars == <<view, past, owed>>

\* Nothing has been activated yet.
ViewInit == view = {} /\ past = {{}} /\ owed = {}

\* Readers see all files of the new plan at once, and never while a unit is
\* still owed an action for the old ones.
Switch(pl) ==
  /\ owed = {}
  /\ view' = Tree[pl]
  /\ past' \in {{view'}, past \cup {view'}}
  /\ owed' = UnitsOf(pl)

Act ==
  /\ owed' \subseteq owed
  /\ UNCHANGED <<view, past>>

\* The view becomes durable.
Settle ==
  /\ past' = {view}
  /\ UNCHANGED <<view, owed>>

\* A power loss goes back to an earlier complete view, or keeps the live one
\* together with what is owed under it.
Revert ==
  /\ view' \in past
  /\ past' = {view'}
  /\ owed' = {} \/ (view' = view /\ owed' = owed)

ViewNext ==
  \/ \E pl \in Plans : Switch(pl)
  \/ Act
  \/ Settle
  \/ Revert

ViewSpec == ViewInit /\ [][ViewNext]_viewVars
=============================================================================
