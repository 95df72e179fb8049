----------------------------- MODULE AuthoringMC -----------------------------
(***************************************************************************)
(* Two processes, two destinations and one request of each kind.           *)
(***************************************************************************)
EXTENDS Authoring

CONSTANTS d1, d2

Output(d, k) == [path |-> d, kind |-> k]
\* A write and an edit of d1, a creation and a deletion of d2, a rotation of
\* both, and what the generators commit: a public output with its metadata, and
\* a secret whose metadata is no longer needed.
MCRequests ==
  {[op |-> "write", mode |-> "create", items |-> <<Output(d2, "secret")>>],
   [op |-> "edit", mode |-> "replace", items |-> <<Output(d1, "secret")>>],
   [op |-> "delete", mode |-> "replace", items |-> <<Output(d2, "secret")>>],
   [op |-> "batch", mode |-> "replace",
    items |-> <<Output(d1, "secret"), Output(d2, "secret")>>],
   [op |-> "batch", mode |-> "create",
    items |-> <<Output(d1, "public"), Output(d2, "private")>>],
   [op |-> "batch", mode |-> "replace",
    items |-> <<Output(d1, "secret"), Output(d2, "delete")>>]}
=============================================================================
