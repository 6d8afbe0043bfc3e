--------------------------- MODULE OfferLifecycle ---------------------------
(***************************************************************************)
(* What the offer store promises of every row of shipping_offers, with no  *)
(* requests, locks, carriers or packages in sight: an offer is spent once, *)
(* a spent offer stays on file until it is settled, a purchase the source  *)
(* confirmed is never unsaid, and only settled or unspent rows go away.    *)
(* PostagePurchase implements this specification.                          *)
(***************************************************************************)
CONSTANT Offer

VARIABLE state   \* where each offer is in its life

States == {"unquoted", "open", "spent", "bought", "declined", "discarded"}

Init == state = [o \in Offer |-> "unquoted"]

Advance(o, from, to) ==
  /\ state[o] \in from
  /\ state' = [state EXCEPT ![o] = to]

Quote(o)   == Advance(o, {"unquoted"}, "open")
Spend(o)   == Advance(o, {"open"}, "spent")
Decline(o) == Advance(o, {"spent"}, "declined")

\* A confirmation also overrides a refusal: evidence that a label was bought
\* is stronger than an answer that none was.
Confirm(o) == Advance(o, {"spent", "declined"}, "bought")

\* A spent offer nobody has settled is never among the discarded.
Discard(gone) ==
  /\ \A o \in gone : state[o] \in {"open", "bought", "declined"}
  /\ state' = [o \in Offer |-> IF o \in gone THEN "discarded" ELSE state[o]]

Next ==
  \/ \E o \in Offer : Quote(o) \/ Spend(o) \/ Decline(o) \/ Confirm(o)
  \/ \E gone \in SUBSET Offer : Discard(gone)

Spec == Init /\ [][Next]_state
=============================================================================
