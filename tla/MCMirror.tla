------------------------------ MODULE MCMirror ------------------------------
(***************************************************************************)
(* A small instance of Mirror for TLC: two records that exist and others   *)
(* to come, two contents.                                                  *)
(***************************************************************************)
EXTENDS Mirror, TLC

CONSTANTS a, b

MCInitial == [i \in Ids |-> IF i \in {1, 2} THEN a ELSE None]

Update(i) == [op |-> "update", id |-> i, content |-> b]

MCBodies ==
  { << [op |-> "create", id |-> None, content |-> b] >>,
    << [op |-> "delete", id |-> 1, content |-> None] >>,
    << Update(2), Update(1) >> }

\* Requests are interchangeable: it is enough to look at the behaviours in which they
\* start in order.
InOrder ==
  \A r, q \in Requests : q < r /\ pc[r] = "idle" /\ pc'[r] # "idle" => pc[q] # "idle"

\* Three requests at once, or two and an edit of the first record in the console.
Bounded ==
  \/ edits' = 0
  \/ /\ Cardinality(InFlight') <= 2
     /\ edits' > edits => store' = [store EXCEPT ![1] = store'[1]]

MCFairSpec == Init /\ [][Next /\ InOrder /\ Bounded]_vars /\ Fairness
=============================================================================
