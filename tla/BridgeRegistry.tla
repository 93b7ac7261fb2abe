--------------------------- MODULE BridgeRegistry ---------------------------
(***************************************************************************)
(* What alloc_bridge_ip and its guard promise of the addresses on the      *)
(* bridge: an address is claimed in one step, from those no rival of the   *)
(* claimant holds, is never exchanged for another, and becomes free again  *)
(* only when the container's record is deleted.                            *)
(***************************************************************************)
CONSTANTS Containers, Octets, RivalsOf, None

VARIABLE addr

Init == addr = [c \in Containers |-> None]

Claim(c, o) ==
    /\ addr[c] = None
    /\ \A d \in RivalsOf[c] : addr[d] # o
    /\ addr' = [addr EXCEPT ![c] = o]

Release(c) ==
    /\ addr[c] # None
    /\ addr' = [addr EXCEPT ![c] = None]

Next == \E c \in Containers : Release(c) \/ \E o \in Octets : Claim(c, o)

Spec == Init /\ [][Next]_addr
=============================================================================
