----------------------------- MODULE FileStore -----------------------------
(***************************************************************************)
(* What a directory filled by download_batch promises to those who read    *)
(* it: a name stands for nothing until, in one step, it stands for one of  *)
(* the bodies that belong under it, and from then on for that body.        *)
(***************************************************************************)
CONSTANTS Name,    \* the names of the directory
          Bodies,  \* Bodies[n]: the bodies that belong under the name n
          Absent   \* nothing is there

VARIABLE store

Init == store = [n \in Name |-> Absent]

Publish(n) ==
    /\ store[n] = Absent
    /\ \E b \in Bodies[n] : store' = [store EXCEPT ![n] = b]

Next == \E n \in Name : Publish(n)

Spec == Init /\ [][Next]_store
=============================================================================
