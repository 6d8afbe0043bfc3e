----------------------------- MODULE MCPickBatch -----------------------------
(***************************************************************************)
(* Small instances of PickBatch for TLC: a shipment of two packages and    *)
(* one of a single package.                                                *)
(***************************************************************************)
EXTENDS PickBatch, TLC

CONSTANTS
  p1, p2, p3, s1, s2,
  MaxEvents,  \* bound: voids and mishaps together
  MaxActive   \* bound: processes at work at the same time

ShipmentOfPackage == (p1 :> s1) @@ (p2 :> s1) @@ (p3 :> s2)

Active == Cardinality({c \in Clerk : clerk[c].pc # "idle"})
          + Cardinality({u \in User : user[u].pc # "idle"})

\* What follows after somebody acted on a batch that had changed is left out:
\* the invariants on batches say nothing of it.
Bound == ~overtaken /\ voids + mishaps <= MaxEvents /\ Active <= MaxActive

Symmetry == Permutations(Clerk) \cup Permutations(User) \cup Permutations(Batch)
             \cup Permutations({p1, p2})
=============================================================================
