-------------------------- MODULE MonotonicReplica --------------------------
(***************************************************************************)
(* What resource synchronisation promises a device about one logical       *)
(* resource, with none of the machinery: the server's content only moves   *)
(* forward, a device's copy is always some content the server really had,  *)
(* and a copy is only ever replaced by a newer one.                        *)
(***************************************************************************)
EXTENDS Naturals

CONSTANTS
    Device,     \* the paired devices
    MaxChanges  \* bound: how often the content changes

VARIABLES
    data,  \* content of the resource on the server, as the count of changes
    copy   \* copy[d] = the content device d shows

vars == <<data, copy>>

Init ==
    /\ data = 0
    /\ copy = [d \in Device |-> 0]

\* The workspace changes.
Write ==
    /\ data < MaxChanges
    /\ data' = data + 1
    /\ UNCHANGED copy

\* A device catches up with the server, not necessarily all the way.
Refresh(d) ==
    /\ \E seen \in (copy[d] + 1)..data : copy' = [copy EXCEPT ![d] = seen]
    /\ UNCHANGED data

Next == Write \/ \E d \in Device : Refresh(d)

Spec == Init /\ [][Next]_vars
=============================================================================
