-------------------------- MODULE RideStatusMachine --------------------------
(***************************************************************************)
(* What the platform promises about a ride: it is created searching, each  *)
(* later change of its status is one the transition table lists (or the    *)
(* acceptance of a searching ride, which the ride service performs by      *)
(* hand), and its driver is chosen at most once, at acceptance.  One       *)
(* change at a time; no request, job or process appears here.              *)
(***************************************************************************)
EXTENDS RideStatuses

CONSTANTS Rides, Drivers, NoOne

VARIABLES status, driver

vars == <<status, driver>>

TypeOK == /\ status \in [Rides -> RowStatus]
          /\ driver \in [Rides -> Drivers \cup {NoOne}]

Init == /\ status = [r \in Rides |-> "absent"]
        /\ driver = [r \in Rides |-> NoOne]

\* A ride is created searching, without a driver.
Create(r) == /\ status[r] = "absent"
             /\ status' = [status EXCEPT ![r] = "searching"]
             /\ UNCHANGED driver

\* First driver to accept wins.
Accept(r, d) == /\ status[r] = "searching"
                /\ status' = [status EXCEPT ![r] = "accepted"]
                /\ driver' = [driver EXCEPT ![r] = d]

\* An entry of the transition table.
Move(r) == \E to \in Status :
             /\ CanTransition(status[r], to)
             /\ status' = [status EXCEPT ![r] = to]
             /\ UNCHANGED driver

\* The expiry of searching rides is one bulk statement, so it may cancel
\* several of them in one step.
Expire == \E R \in SUBSET {r \in Rides : status[r] = "searching"} :
            /\ status' = [r \in Rides |-> IF r \in R THEN "cancelled"
                                                     ELSE status[r]]
            /\ UNCHANGED driver

Next == \/ \E r \in Rides : Create(r) \/ Move(r)
        \/ \E r \in Rides, d \in Drivers : Accept(r, d)
        \/ Expire

Spec == Init /\ [][Next]_vars
=============================================================================
