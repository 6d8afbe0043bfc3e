----------------------------- MODULE LabelExport -----------------------------
(***************************************************************************)
(* What exporting a package promises of its label and the destinations,    *)
(* with no ledger rows, claims, listeners, sweeps or attempts in sight: a  *)
(* destination counts as told only after it heard the label there is, is   *)
(* left alone once it counts or was given up, and the package is flagged   *)
(* when every destination counts. A label that is withdrawn takes all of   *)
(* it along, but not the number at a destination that keeps its first one: *)
(* that one is served, and counts from then on without hearing any other.  *)
(* PackageExport implements this specification.                            *)
(***************************************************************************)
CONSTANTS Destination, Once

VARIABLES
  labelled,  \* the package has a label
  informed,  \* the destinations that heard the label it has
  served,    \* those that keep the number of another label
  told,      \* those that count as told
  givenUp,   \* those given up
  flagged    \* the package counts as exported

vars == <<labelled, informed, served, told, givenUp, flagged>>

\* Nobody knows anything of a label that is new, or of one that is gone.
Blank == informed = {} /\ told = {} /\ givenUp = {} /\ ~flagged

Init == ~labelled /\ Blank /\ served = {}

Record ==
  /\ ~labelled
  /\ labelled'
  /\ Blank'
  /\ UNCHANGED served

Withdraw ==
  /\ labelled
  /\ ~labelled'
  /\ Blank'
  /\ served' = served \cup (informed \cap Once)

\* Somebody else gives a destination the one number it takes.
Serve(d) ==
  /\ d \in Once \ (informed \cup served)
  /\ served' = served \cup {d}
  /\ UNCHANGED <<labelled, informed, told, givenUp, flagged>>

\* A destination may hear the label again, as long as it does not count: an
\* answer that is lost leaves it informed and nobody the wiser.
Inform(d) ==
  /\ labelled
  /\ d \notin served \cup told \cup givenUp
  /\ informed' = informed \cup {d}
  /\ UNCHANGED <<labelled, served, told, givenUp, flagged>>

Acknowledge(d) ==
  /\ d \in (informed \cup served) \ givenUp
  /\ told' = told \cup {d}
  /\ UNCHANGED <<labelled, informed, served, givenUp, flagged>>

GiveUp(d) ==
  /\ labelled
  /\ d \notin told
  /\ givenUp' = givenUp \cup {d}
  /\ UNCHANGED <<labelled, informed, served, told, flagged>>

\* The operator has all that was given up tried again.
Reopen ==
  /\ ~flagged
  /\ givenUp' = {}
  /\ UNCHANGED <<labelled, informed, served, told, flagged>>

Flag ==
  /\ labelled
  /\ told = Destination
  /\ flagged'
  /\ UNCHANGED <<labelled, informed, served, told, givenUp>>

Next ==
  \/ Record \/ Withdraw \/ Reopen \/ Flag
  \/ \E d \in Destination : Serve(d) \/ Inform(d) \/ Acknowledge(d) \/ GiveUp(d)

Spec == Init /\ [][Next]_vars
=============================================================================
