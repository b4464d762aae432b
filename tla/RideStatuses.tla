---------------------------- MODULE RideStatuses ----------------------------
(***************************************************************************)
(* The vocabulary of a ride's status column: the enum App\Enums\RideStatus *)
(* and the transition table of App\Models\Ride, shared by the abstract     *)
(* status machine and by the model of the ride service.                    *)
(***************************************************************************)

\* The cases of the enum, under the strings stored in the column.
Status == {"requested", "searching", "driver_assigned", "accepted",
           "driver_en_route", "arrived", "waiting_for_rider", "in_progress",
           "near_drop_off", "completed", "cancelled",
           "cancellation_requested", "no_show"}

\* "absent" stands for a row that has not been inserted yet.
RowStatus == Status \cup {"absent"}

\* Ride::VALID_TRANSITIONS. "requested" has no entry there.
ValidTransitions ==
  [searching              |-> {"driver_assigned", "cancelled"},
   driver_assigned        |-> {"accepted", "cancelled", "no_show"},
   accepted               |-> {"driver_en_route", "cancelled"},
   driver_en_route        |-> {"arrived", "cancelled"},
   arrived                |-> {"waiting_for_rider", "in_progress", "cancelled"},
   waiting_for_rider      |-> {"in_progress", "cancelled", "no_show"},
   in_progress            |-> {"near_drop_off", "completed", "cancelled"},
   near_drop_off          |-> {"completed", "cancelled"},
   completed              |-> {},
   cancelled              |-> {},
   cancellation_requested |-> {"cancelled"},
   no_show                |-> {}]

\* The two checks transitionTo makes on the status it holds in memory.
CanTransition(from, to) ==
  /\ from \in DOMAIN ValidTransitions
  /\ to \in ValidTransitions[from]

\* RideStatus::isTerminal.
Terminal == {"completed", "cancelled", "no_show"}

\* The statuses validateRiderCanRequestRide counts as an active ride.
ActiveForRider == {"searching", "accepted", "driver_en_route", "arrived",
                   "waiting_for_rider", "in_progress"}

\* The statuses cancelRide accepts.
Cancellable == {"searching", "driver_assigned", "accepted", "driver_en_route",
                "arrived", "waiting_for_rider", "in_progress"}

\* The statuses in which a driver is committed to a ride.  The properties speak
\* of them; the code has no list of its own for them.
WithDriver == {"accepted", "driver_en_route", "arrived", "waiting_for_rider",
               "in_progress", "near_drop_off"}
=============================================================================
