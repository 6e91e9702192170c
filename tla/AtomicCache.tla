---------------------------- MODULE AtomicCache ----------------------------
(***************************************************************************)
(* What the cache of base disks promises, whatever runs at the same time:  *)
(* a base disk comes into being complete, in one step; it is never changed *)
(* in place, only removed or replaced by another complete one; and a VM    *)
(* disk is only ever cloned from a complete one.                           *)
(***************************************************************************)
CONSTANTS Keys, NoKey, VMs

VARIABLES
  store,  \* what is under the name of each base disk
  clone   \* the base disk each VM disk was cloned from, NoKey if no disk

Contents == {"none", "stale", "complete"}

Init ==
  /\ store \in [Keys -> {"none", "stale"}]
  /\ clone = [v \in VMs |-> NoKey]

Publish(k) ==
  /\ store' = [store EXCEPT ![k] = "complete"]
  /\ UNCHANGED clone

Remove(k) ==
  /\ store' = [store EXCEPT ![k] = "none"]
  /\ UNCHANGED clone

Clone(v, k) ==
  /\ store[k] = "complete"
  /\ clone[v] = NoKey
  /\ clone' = [clone EXCEPT ![v] = k]
  /\ UNCHANGED store

Discard(v) ==
  /\ clone' = [clone EXCEPT ![v] = NoKey]
  /\ UNCHANGED store

Next ==
  \/ \E k \in Keys : Publish(k) \/ Remove(k)
  \/ \E v \in VMs : Discard(v) \/ \E k \in Keys : Clone(v, k)

Spec == Init /\ [][Next]_<<store, clone>>
=============================================================================
