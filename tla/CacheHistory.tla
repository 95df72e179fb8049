---------------------------- MODULE CacheHistory ----------------------------
(***************************************************************************)
(* Cache with a history variable: what a collection cannot have seen and   *)
(* what a rekey can have lost to one.                                      *)
(***************************************************************************)
EXTENDS Cache

\* History: the entries published since the collection p listed the artifacts,
\* or removed since the rekey p began.
VARIABLE since

Published == {k \in Keys : ~Visible(k) /\ store'[k].held # {}}
Removed == {k \in Keys : Visible(k) /\ store'[k].held # Members(k)}

\* The collection p lists the artifacts in this step.
Lists(p) == pc[p] = "artifacts" /\ pc'[p] = "load"

HInit == Init /\ since = [p \in Procs |-> {}]
HNext ==
  /\ Next
  /\ since' = [p \in Procs |->
       CASE op'[p] = "gc" /\ ~Lists(p) -> since[p] \cup Published
         [] op'[p] = "rekey" -> since[p] \cup Removed
         [] OTHER -> {}]
HSpec == HInit /\ [][HNext]_<<vars, since>>
HFairSpec == HSpec /\ Fairness

\* A collection that holds the lock keeps every artifact the policy derives and
\* that verifies, except one that was published after it listed the cache: the
\* unlocked authentication pass misses nothing else, whatever runs beside it.
\* (cache_gc, authenticated_gc_retention, garbage_collect)
GcRetainsKnown ==
  \A p \in Procs :
    op[p] = "gc" /\ lock = p =>
      \A k \in Active \ since[p] :
        SameAs(k, store[k].ver) /\ store[k].ver \in Signed => k \in retain[p]

\* What a rekey reports is what the cache holds for the address, and it verifies,
\* also when another writer won the race to publish it; only a collection may
\* have removed it meanwhile.  (rekey)
RekeyReportsStored ==
  [][\A p \in Procs : RekeyReturns(p) =>
       /\ seen[p].cipher \in Signed
       /\ key[p] \notin since[p] => SameAs(key[p], seen[p].cipher)]_vars
=============================================================================
