---------------------------- MODULE PodDirectory ----------------------------
(***************************************************************************)
(* What a node expects of UnusedIP in ipam/ipam.go: a directory of its     *)
(* pods' addresses, in which an address is taken in one step with being    *)
(* given to a pod, and is never given to another one, whatever becomes of  *)
(* the first: "take the slot first" (ipam.go:847-849).  Nothing here       *)
(* mentions etcd, failures or retries.  PodAddresses implements this when  *)
(* the ADDs of a node follow one another.                                  *)
(***************************************************************************)
CONSTANTS Pods,     \* the pods of the node
          Addrs,    \* the addresses that are for pods
          Kept,     \* those that are drawn like them and go to nobody
          NoAddr    \* a pod without an address

VARIABLES taken,    \* the addresses that are not to be given any more
          addrOf    \* addrOf[p]: the address of pod p

vars == <<taken, addrOf>>

Init == taken = {} /\ addrOf = [p \in Pods |-> NoAddr]

\* A pod without an address is given one that has never been given.
HandOut(p) ==
    /\ addrOf[p] = NoAddr
    /\ \E a \in Addrs \ taken :
           taken' = taken \cup {a} /\ addrOf' = [addrOf EXCEPT ![p] = a]

UseUp ==
    /\ \E a \in Kept \ taken : taken' = taken \cup {a}
    /\ UNCHANGED addrOf

\* A pod goes, or could not be set up.  Its address stays taken.
Leave(p) ==
    /\ addrOf[p] # NoAddr
    /\ addrOf' = [addrOf EXCEPT ![p] = NoAddr]
    /\ UNCHANGED taken

Next == UseUp \/ \E p \in Pods : HandOut(p) \/ Leave(p)

Spec == Init /\ [][Next]_vars

----------------------------------------------------------------------------
\* Every pod has an address of its own, which is one for pods and is taken.
OneOwner ==
    /\ \A p \in Pods : addrOf[p] # NoAddr => addrOf[p] \in Addrs \cap taken
    /\ \A p, q \in Pods : p # q /\ addrOf[p] = addrOf[q] => addrOf[p] = NoAddr

=============================================================================
