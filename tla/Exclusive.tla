------------------------------ MODULE Exclusive ------------------------------
(***************************************************************************)
(* What every lock of this code base promises its users: a resource has at *)
(* most one owner, and only the owner gives it back.                       *)
(***************************************************************************)
CONSTANTS Users,   \* who may own the resource
          Nobody   \* no owner

VARIABLE owner

Init == owner = Nobody

Take(u) == owner = Nobody /\ owner' = u

GiveBack(u) == owner = u /\ owner' = Nobody

Next == \E u \in Users : Take(u) \/ GiveBack(u)

Spec == Init /\ [][Next]_owner
=============================================================================
