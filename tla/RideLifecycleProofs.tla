------------------------- MODULE RideLifecycleProofs -------------------------
(***************************************************************************)
(* Proofs about RideLifecycle for any number of riders, drivers, rides and *)
(* workers, with crashes: first what holds whatever overlaps, then what    *)
(* holds when requests about one ride or one user do not (RequestsApart).  *)
(*                                                                         *)
(* The first argument: only acceptRide writes driver_id, on a row it has   *)
(* locked while searching; a searching row has no driver                   *)
(* (FreshRideHasNoDriver); and every handler that later writes a status    *)
(* blindly remembers a ride that had a driver when it was read             *)
(* (RequestsBacked), which acceptance made permanent.                      *)
(***************************************************************************)
EXTENDS RideLifecycle, TLAPS

\* A ride nobody accepted yet has no driver.
FreshRideHasNoDriver ==
  \A r \in Rides : status[r] \in {"absent", "searching"} => driver[r] = NoOne

\* What a request in flight remembers still makes sense.
RequestsBacked ==
  \A w \in Workers :
    /\ req[w].step \in CreateSteps => req[w].who \in Riders
    /\ req[w].step = "accept" => req[w].who \in Drivers
    /\ req[w].step \in RideSteps => req[w].ride \in Rides
    /\ req[w].step \in {"en_route", "arrived", "start", "complete", "no_show"}
         => driver[req[w].ride] # NoOne

IInv == TypeOK /\ FreshRideHasNoDriver /\ RideHasDriver /\ PointerBacked
          /\ RequestsBacked

\* Init establishes the inductive invariant.
LEMMA InitIInv == Init => IInv
BY UsersAssumption
   DEF Init, IInv, TypeOK, FreshRideHasNoDriver, RideHasDriver, PointerBacked,
       RequestsBacked, RowStatus, Status, WithDriver, Requests, Idle, Steps,
       CreateSteps, RideSteps, SweepSteps

\* A worker that goes on to another step of its handler holds a request again.
LEMMA GotoKeepsRequests ==
  ASSUME TypeOK, NEW w \in Workers, NEW step \in Steps, Goto(w, step)
  PROVE  req' \in [Workers -> Requests]
<1>1. req[w] \in Requests
  BY DEF TypeOK
<1>2. [req[w] EXCEPT !.step = step] \in Requests
  BY <1>1 DEF Requests
<1> QED
  BY <1>2 DEF TypeOK, Goto, Proceed

\* A step that changes only the request of one worker, to one that is backed.
LEMMA OnlyRequestChanges ==
  ASSUME IInv, NEW w \in Workers, NEW new \in Requests, Proceed(w, new),
         new.step \in CreateSteps => new.who \in Riders,
         new.step = "accept" => new.who \in Drivers,
         new.step \in RideSteps => new.ride \in Rides,
         new.step \in {"en_route", "arrived", "start", "complete", "no_show"}
           => driver[new.ride] # NoOne,
         UNCHANGED <<rows, users, createLock>>
  PROVE  IInv'
<1>1. TypeOK'
  BY DEF IInv, TypeOK, Proceed, rows, users
<1>2. RequestsBacked'
  BY DEF IInv, TypeOK, RequestsBacked, Proceed, rows, users
<1> QED
  BY <1>1, <1>2 DEF IInv, FreshRideHasNoDriver, RideHasDriver, PointerBacked, rows, users

\* A step that writes only the status of a ride and the request of a worker.
LEMMA BlindStatusWrite ==
  ASSUME IInv, NEW w \in Workers, NEW new \in Requests, Proceed(w, new),
         NEW r \in Rides, NEW s \in Status \ {"searching"}, SetStatus(r, s),
         s \in WithDriver \cup {"completed"} => driver[r] # NoOne,
         new.step \notin CreateSteps \cup {"accept"},
         new.step \in RideSteps => new.ride \in Rides,
         new.step \in {"en_route", "arrived", "start", "complete", "no_show"}
           => driver[new.ride] # NoOne,
         UNCHANGED <<rider, driver, aged, users, createLock>>
  PROVE  IInv'
<1>1. TypeOK'
  BY DEF IInv, TypeOK, Proceed, SetStatus, users, RowStatus
<1>2. RequestsBacked'
  BY DEF IInv, TypeOK, RequestsBacked, Proceed, users
<1>3. FreshRideHasNoDriver' /\ RideHasDriver'
  BY DEF IInv, TypeOK, FreshRideHasNoDriver, RideHasDriver, SetStatus, Status
<1> QED
  BY <1>1, <1>2, <1>3 DEF IInv, PointerBacked, users

\* Every step of the system preserves the inductive invariant.
LEMMA NextIInv == IInv /\ [Next]_vars => IInv'
<1> SUFFICES ASSUME IInv, [Next]_vars PROVE IInv'
  OBVIOUS
<1> USE DEF Requests, Steps, CreateSteps, RideSteps, SweepSteps
<1> DEFINE Req(step, who, r, seen) ==
      [step |-> step, who |-> who, ride |-> r, seen |-> seen, todo |-> {}]
<1>t. /\ Idle \in Requests
      /\ \A w \in Workers : req[w] \in Requests
      /\ \A r \in Rides : status[r] \in RowStatus
      /\ \A r \in Rides : driver[r] \in Drivers \cup {NoOne}
  BY DEF IInv, TypeOK, Idle, RowStatus
<1>1. ASSUME NEW w \in Workers, Begin(w) PROVE IInv'
  <2>1. ASSUME NEW u \in Riders, RequestRide(w, u) PROVE IInv'
    <3>1. Req("create_put", u, NoRide, "absent") \in Requests
      BY DEF RowStatus
    <3> QED
      BY <2>1, <3>1, OnlyRequestChanges DEF RequestRide, Take
  <2>2. ASSUME NEW d \in Drivers, NEW r \in Rides, RequestAccept(w, d, r) PROVE IInv'
    <3>1. Req("accept", d, r, "absent") \in Requests
      BY DEF RowStatus
    <3> QED
      BY <2>2, <3>1, OnlyRequestChanges DEF RequestAccept, Take
  <2>3. ASSUME NEW r \in Rides, RequestArrived(w, r) PROVE IInv'
    <3> DEFINE next == IF status[r] = "accepted" THEN "en_route" ELSE "arrived"
    <3>1. Req(next, NoOne, r, "absent") \in Requests
      BY DEF RowStatus
    <3> QED
      BY <2>3, <3>1, OnlyRequestChanges DEF RequestArrived, Take
  <2>4. ASSUME NEW r \in Rides, RequestStart(w, r) PROVE IInv'
    <3>1. Req("start", NoOne, r, "absent") \in Requests
      BY DEF RowStatus
    <3> QED
      BY <2>4, <3>1, OnlyRequestChanges DEF RequestStart, Take
  <2>5. ASSUME NEW r \in Rides, RequestComplete(w, r) PROVE IInv'
    <3>1. Req("complete", NoOne, r, "absent") \in Requests
      BY DEF RowStatus
    <3> QED
      BY <2>5, <3>1, OnlyRequestChanges DEF RequestComplete, Take
  <2>6. ASSUME NEW r \in Rides, RequestCancel(w, r) PROVE IInv'
    <3>1. Req("cancel", driver[r], r, "absent") \in Requests
      BY <1>t DEF RowStatus
    <3> QED
      BY <2>6, <3>1, OnlyRequestChanges DEF RequestCancel, Take
  <2>7. ASSUME NEW r \in Rides, RequestNoShow(w, r) PROVE IInv'
    <3>1. Req("no_show", driver[r], r, status[r]) \in Requests
      BY <1>t
    <3> QED
      BY <2>7, <3>1, OnlyRequestChanges DEF RequestNoShow, Take
  <2>8. ASSUME StartCleanup(w) PROVE IInv'
    <3>1. PICK S \in SUBSET {r \in aged : status[r] = "searching"} :
            Proceed(w, [Idle EXCEPT !.step = "sweep_pending", !.todo = S])
      BY <2>8 DEF StartCleanup, ListStale
    <3>2. [Idle EXCEPT !.step = "sweep_pending", !.todo = S] \in Requests
      BY <1>t DEF IInv, TypeOK, Idle
    <3> QED
      BY <2>8, <3>1, <3>2, OnlyRequestChanges DEF StartCleanup, ListStale, Idle
  <2> QED
    BY <1>1, <2>1, <2>2, <2>3, <2>4, <2>5, <2>6, <2>7, <2>8 DEF Begin
<1>2. ASSUME NEW w \in Workers, Continue(w) PROVE IInv'
  <2> DEFINE r == req[w].ride
  <2>1. CASE PutCreateLock(w)
    <3>1. TypeOK'
      BY <2>1, GotoKeepsRequests DEF IInv, TypeOK, PutCreateLock, rows, users
    <3>2. RequestsBacked'
      BY <1>t, <2>1 DEF IInv, TypeOK, RequestsBacked, PutCreateLock, At, Goto, Proceed, rows, users
    <3> QED
      BY <2>1, <3>1, <3>2 DEF IInv, FreshRideHasNoDriver, RideHasDriver, PointerBacked,
                              PutCreateLock, rows, users
  <2>2. CASE CheckNoActiveRide(w)
    <3> DEFINE next == IF HasActiveRide(req[w].who) THEN "create_forget" ELSE "create_insert"
    <3>1. [req[w] EXCEPT !.step = next] \in Requests
      BY <1>t
    <3>2. req[w].who \in Riders
      BY <2>2 DEF IInv, RequestsBacked, CheckNoActiveRide, At
    <3>3. Proceed(w, [req[w] EXCEPT !.step = next]) /\ UNCHANGED <<rows, users, createLock>>
      BY <2>2 DEF CheckNoActiveRide, Goto
    <3>4. /\ [req[w] EXCEPT !.step = next].step \in {"create_forget", "create_insert"}
          /\ [req[w] EXCEPT !.step = next].who = req[w].who
      BY <1>t
    <3> HIDE DEF next
    <3> QED
      BY <3>1, <3>2, <3>3, <3>4, OnlyRequestChanges
  <2>3. CASE InsertRide(w)
    <3>1. req[w].who \in Riders
      BY <2>3 DEF IInv, RequestsBacked, InsertRide, At
    <3>2. PICK q \in Rides : /\ status[q] = "absent"
                             /\ SetStatus(q, "searching")
                             /\ rider' = [rider EXCEPT ![q] = req[w].who]
      BY <2>3 DEF InsertRide
    <3>3. TypeOK'
      <4>1. req' \in [Workers -> Requests]
        BY <2>3, GotoKeepsRequests DEF IInv, InsertRide
      <4>2. status' \in [Rides -> RowStatus] /\ rider' \in [Rides -> Riders \cup {NoOne}]
        BY <3>1, <3>2 DEF IInv, TypeOK, SetStatus, RowStatus, Status
      <4> QED
        BY <2>3, <4>1, <4>2 DEF IInv, TypeOK, InsertRide, users
    <3>4. RequestsBacked'
      BY <1>t, <2>3, <3>1 DEF IInv, TypeOK, RequestsBacked, InsertRide, Goto, Proceed, users
    <3>5. FreshRideHasNoDriver' /\ RideHasDriver'
      BY <2>3, <3>2 DEF IInv, TypeOK, FreshRideHasNoDriver, RideHasDriver, InsertRide,
                        SetStatus, WithDriver
    <3> QED
      BY <2>3, <3>3, <3>4, <3>5 DEF IInv, PointerBacked, InsertRide, users
  <2>4. CASE ForgetCreateLock(w)
    <3>1. TypeOK'
      BY <1>t, <2>4 DEF IInv, TypeOK, ForgetCreateLock, Finish, Proceed, rows, users
    <3>2. RequestsBacked'
      BY <1>t, <2>4 DEF IInv, TypeOK, RequestsBacked, ForgetCreateLock, Finish, Proceed,
                        Idle, rows, users
    <3> QED
      BY <2>4, <3>1, <3>2 DEF IInv, FreshRideHasNoDriver, RideHasDriver, PointerBacked,
                              ForgetCreateLock, rows, users
  <2>5. CASE AcceptRide(w)
    <3>1. req[w].who \in Drivers /\ r \in Rides /\ driver[r] = NoOne
      BY <2>5 DEF IInv, RequestsBacked, FreshRideHasNoDriver, AcceptRide, At
    <3>2. TypeOK'
      BY <1>t, <2>5, <3>1 DEF IInv, TypeOK, AcceptRide, SetStatus, Finish, Proceed,
                              RowStatus, Status
    <3>3. RequestsBacked'
      BY <1>t, <2>5, <3>1, UsersAssumption
         DEF IInv, TypeOK, RequestsBacked, AcceptRide, Finish, Proceed, Idle
    <3>4. FreshRideHasNoDriver' /\ RideHasDriver'
      BY <2>5, <3>1, UsersAssumption
         DEF IInv, TypeOK, FreshRideHasNoDriver, RideHasDriver, AcceptRide, SetStatus
    <3>5. PointerBacked'
      BY <2>5, <3>1, UsersAssumption DEF IInv, TypeOK, PointerBacked, AcceptRide
    <3> QED
      BY <3>2, <3>3, <3>4, <3>5 DEF IInv
  <2>6. CASE DriverEnRoute(w)
    <3>1. r \in Rides /\ driver[r] # NoOne
      BY <2>6 DEF IInv, RequestsBacked, DriverEnRoute, At
    <3>2. /\ [req[w] EXCEPT !.step = "arrived"] \in Requests
          /\ [req[w] EXCEPT !.step = "arrived"].ride = r
          /\ [req[w] EXCEPT !.step = "arrived"].step = "arrived"
      BY <1>t
    <3> QED
      BY <2>6, <3>1, <3>2, BlindStatusWrite DEF DriverEnRoute, Goto, Status
  <2>7. CASE DriverArrived(w)
    <3>1. r \in Rides /\ driver[r] # NoOne
      BY <2>7 DEF IInv, RequestsBacked, DriverArrived, At
    <3> QED
      BY <1>t, <2>7, <3>1, BlindStatusWrite DEF DriverArrived, Finish, Status, Idle
  <2>8. CASE StartRide(w)
    <3>1. r \in Rides /\ driver[r] # NoOne
      BY <2>8 DEF IInv, RequestsBacked, StartRide, At
    <3> QED
      BY <1>t, <2>8, <3>1, BlindStatusWrite DEF StartRide, Finish, Status, Idle
  <2>9. CASE CompleteRide(w)
    <3>1. r \in Rides /\ driver[r] # NoOne
      BY <2>9 DEF IInv, RequestsBacked, CompleteRide, At
    <3>2. TypeOK'
      BY <1>t, <2>9, <3>1 DEF IInv, TypeOK, CompleteRide, SetStatus, Finish, Proceed,
                              RowStatus, Status
    <3>3. RequestsBacked'
      BY <1>t, <2>9 DEF IInv, TypeOK, RequestsBacked, CompleteRide, Finish, Proceed, Idle
    <3>4. FreshRideHasNoDriver' /\ RideHasDriver'
      BY <2>9, <3>1 DEF IInv, TypeOK, FreshRideHasNoDriver, RideHasDriver, CompleteRide, SetStatus
    <3>5. PointerBacked'
      BY <2>9, RidesAssumption DEF IInv, TypeOK, PointerBacked, CompleteRide
    <3> QED
      BY <3>2, <3>3, <3>4, <3>5 DEF IInv
  <2>10. CASE RejectRequest(w)
    BY <1>t, <2>10, OnlyRequestChanges DEF RejectRequest, Finish, Idle
  <2>11. CASE CancelRide(w)
    <3>1. r \in Rides
      BY <2>11 DEF IInv, RequestsBacked, CancelRide, At
    <3>2. /\ [req[w] EXCEPT !.step = "free_driver"] \in Requests
          /\ [req[w] EXCEPT !.step = "free_driver"].ride = r
          /\ [req[w] EXCEPT !.step = "free_driver"].step = "free_driver"
      BY <1>t
    <3>3. CASE req[w].who = NoOne
      BY <1>t, <2>11, <3>1, <3>3, BlindStatusWrite
         DEF CancelRide, Finish, Status, WithDriver, Idle
    <3>4. CASE req[w].who # NoOne
      BY <2>11, <3>1, <3>2, <3>4, BlindStatusWrite DEF CancelRide, Goto, Status, WithDriver
    <3> QED
      BY <3>3, <3>4
  <2>12. CASE MarkNoShow(w)
    <3>1. r \in Rides
      BY <2>12 DEF IInv, RequestsBacked, MarkNoShow, At
    <3>2. /\ [req[w] EXCEPT !.step = "free_driver"] \in Requests
          /\ [req[w] EXCEPT !.step = "free_driver"].ride = r
          /\ [req[w] EXCEPT !.step = "free_driver"].step = "free_driver"
      BY <1>t
    <3>3. CASE CanTransition(req[w].seen, "no_show")
      BY <2>12, <3>1, <3>2, <3>3, BlindStatusWrite DEF MarkNoShow, Goto, Status, WithDriver
    <3>4. CASE ~CanTransition(req[w].seen, "no_show")
      BY <1>t, <2>12, <3>4, OnlyRequestChanges DEF MarkNoShow, Finish, Idle, rows
    <3> QED
      BY <3>3, <3>4
  <2>13. CASE FreeDriver(w)
    <3>1. TypeOK'
      BY <1>t, <2>13 DEF IInv, TypeOK, FreeDriver, Finish, Proceed, rows
    <3>2. RequestsBacked'
      BY <1>t, <2>13 DEF IInv, TypeOK, RequestsBacked, FreeDriver, Finish, Proceed, Idle, rows
    <3>3. PointerBacked'
      BY <2>13 DEF IInv, TypeOK, PointerBacked, FreeDriver, rows
    <3> QED
      BY <2>13, <3>1, <3>2, <3>3 DEF IInv, FreshRideHasNoDriver, RideHasDriver, FreeDriver, rows
  <2>14. CASE ListStaleAccepted(w)
    <3>1. PICK S \in SUBSET Rides :
            Proceed(w, [Idle EXCEPT !.step = "sweep_accepted", !.todo = S])
      BY <2>14 DEF ListStaleAccepted, ListStale
    <3>2. [Idle EXCEPT !.step = "sweep_accepted", !.todo = S] \in Requests
      BY <1>t DEF Idle
    <3> QED
      BY <2>14, <3>1, <3>2, OnlyRequestChanges DEF ListStaleAccepted, ListStale, Idle
  <2>15. CASE CancelStale(w)
    <3>1. PICK q \in req[w].todo : /\ SetStatus(q, "cancelled")
                                   /\ Proceed(w, [req[w] EXCEPT !.todo = @ \ {q}])
      BY <2>15 DEF CancelStale
    <3>2. /\ q \in Rides
          /\ [req[w] EXCEPT !.todo = @ \ {q}] \in Requests
          /\ [req[w] EXCEPT !.todo = @ \ {q}].step \in SweepSteps
      BY <1>t, <2>15, <3>1 DEF CancelStale
    <3> QED
      BY <2>15, <3>1, <3>2, BlindStatusWrite DEF CancelStale, Status, WithDriver
  <2>16. CASE EndCleanup(w)
    BY <1>t, <2>16, OnlyRequestChanges DEF EndCleanup, Finish, Idle
  <2> QED
    BY <1>2, <2>1, <2>2, <2>3, <2>4, <2>5, <2>6, <2>7, <2>8, <2>9, <2>10, <2>11, <2>12,
       <2>13, <2>14, <2>15, <2>16 DEF Continue
<1>3. ASSUME NEW w \in Workers, Crash(w) PROVE IInv'
  BY <1>t, <1>3, OnlyRequestChanges DEF Crash, Finish, Idle
<1>4. ASSUME NEW u \in Riders, CreateLockExpires(u) PROVE IInv'
  BY <1>4 DEF IInv, TypeOK, FreshRideHasNoDriver, RideHasDriver, PointerBacked,
              RequestsBacked, CreateLockExpires, rows, users
<1>5. ASSUME NEW d \in Drivers, ToggleOnline(d) PROVE IInv'
  BY <1>5 DEF IInv, TypeOK, FreshRideHasNoDriver, RideHasDriver, PointerBacked,
              RequestsBacked, ToggleOnline, rows
<1>6. ASSUME NEW r \in Rides, Age(r) PROVE IInv'
  BY <1>6 DEF IInv, TypeOK, FreshRideHasNoDriver, RideHasDriver, PointerBacked,
              RequestsBacked, Age, users
<1>7. CASE ExpireStaleRides
  <2>1. TypeOK' /\ FreshRideHasNoDriver' /\ RideHasDriver'
    BY <1>7 DEF IInv, TypeOK, FreshRideHasNoDriver, RideHasDriver, ExpireStaleRides,
                users, RowStatus, Status, WithDriver
  <2> QED
    BY <1>7, <2>1 DEF IInv, PointerBacked, RequestsBacked, ExpireStaleRides, users
<1>8. CASE UNCHANGED vars
  BY <1>8 DEF IInv, TypeOK, FreshRideHasNoDriver, RideHasDriver, PointerBacked,
              RequestsBacked, vars
<1> QED
  BY <1>1, <1>2, <1>3, <1>4, <1>5, <1>6, <1>7, <1>8 DEF Next, Environment

\* The inductive invariant holds in every reachable state.
LEMMA Invariance == Spec => []IInv
BY InitIInv, NextIInv, PTL DEF Spec

\* Every variable keeps its type: rides hold known statuses and users, workers
\* hold well-formed requests, whatever requests and jobs overlap.
THEOREM TypeCorrect == Spec => []TypeOK
<1>1. IInv => TypeOK
  BY DEF IInv
<1> QED
  BY <1>1, Invariance, PTL

\* A ride under way or completed always has a driver (driverArrived, startRide,
\* completeRide), although the status is written from stale copies.
THEOREM RideAlwaysHasDriver == Spec => []RideHasDriver
<1>1. IInv => RideHasDriver
  BY DEF IInv
<1> QED
  BY <1>1, Invariance, PTL

\* users.current_ride_id only ever names a ride of that driver (acceptRide,
\* completeRide, cancelRide).
THEOREM PointerAlwaysBacked == Spec => []PointerBacked
<1>1. IInv => PointerBacked
  BY DEF IInv
<1> QED
  BY <1>1, Invariance, PTL

\* acceptRide is the only writer of rides.driver_id, and InsertRide and
\* acceptRide aside, a step changes the status of a ride only to cancel it or
\* on behalf of a handler that read the ride with a driver.
LEMMA StatusWriters ==
  ASSUME IInv, Next
  PROVE  /\ UNCHANGED driver \/ \E w \in Workers : AcceptRide(w)
         /\ \A r \in Rides : \/ status'[r] \in {status[r], "cancelled"}
                             \/ status[r] \in {"absent", "searching"}
                             \/ driver[r] # NoOne
<1> DEFINE Written == \A r \in Rides : \/ status'[r] \in {status[r], "cancelled"}
                                       \/ status[r] \in {"absent", "searching"}
                                       \/ driver[r] # NoOne
<1>1. ASSUME NEW w \in Workers, Begin(w) \/ Crash(w) PROVE UNCHANGED <<status, driver>>
  BY <1>1 DEF Begin, RequestRide, RequestAccept, RequestArrived, RequestStart,
              RequestComplete, RequestCancel, RequestNoShow, StartCleanup, ListStale,
              Take, Crash, rows
<1>2. ASSUME NEW w \in Workers, Continue(w)
      PROVE  (UNCHANGED driver \/ AcceptRide(w)) /\ Written
  <2>1. /\ status \in [Rides -> RowStatus]
        /\ req[w].step \in RideSteps => req[w].ride \in Rides
        /\ req[w].step \in {"en_route", "arrived", "start", "complete", "no_show"}
             => driver[req[w].ride] # NoOne
    BY DEF IInv, TypeOK, RequestsBacked
  <2>2. CASE PutCreateLock(w) \/ CheckNoActiveRide(w) \/ ForgetCreateLock(w)
             \/ RejectRequest(w) \/ FreeDriver(w) \/ ListStaleAccepted(w) \/ EndCleanup(w)
    BY <2>2 DEF PutCreateLock, CheckNoActiveRide, ForgetCreateLock, RejectRequest,
                FreeDriver, ListStaleAccepted, ListStale, EndCleanup, rows
  <2>3. CASE InsertRide(w)
    BY <2>1, <2>3 DEF InsertRide, SetStatus
  <2>4. CASE AcceptRide(w)
    BY <2>1, <2>4 DEF AcceptRide, SetStatus
  <2>5. CASE DriverEnRoute(w) \/ DriverArrived(w) \/ StartRide(w)
    BY <2>1, <2>5 DEF DriverEnRoute, DriverArrived, StartRide, SetStatus, At, RideSteps
  <2>6. CASE CompleteRide(w)
    BY <2>1, <2>6 DEF CompleteRide, SetStatus, At, RideSteps
  <2>7. CASE CancelRide(w) \/ CancelStale(w)
    BY <2>1, <2>7 DEF CancelRide, CancelStale, SetStatus
  <2>8. CASE MarkNoShow(w)
    BY <2>1, <2>8 DEF MarkNoShow, SetStatus, At, RideSteps
  <2> QED
    BY <1>2, <2>2, <2>3, <2>4, <2>5, <2>6, <2>7, <2>8 DEF Continue
<1>3. CASE Environment
  BY <1>3 DEF Environment, CreateLockExpires, ToggleOnline, Age, ExpireStaleRides, rows
<1> QED
  BY <1>1, <1>2, <1>3 DEF Next

\* First to accept wins for good (acceptRide under its row lock): no step of any
\* request or job changes the driver of a ride that has one.
THEOREM DriverIsChosenOnce == Spec => DriverChosenOnce
<1>1. IInv /\ [Next]_vars
        => [\A r \in Rides : driver[r] # NoOne => driver'[r] = driver[r]]_vars
  <2> SUFFICES ASSUME IInv, Next, NEW r \in Rides, driver[r] # NoOne
               PROVE  driver'[r] = driver[r]
    OBVIOUS
  <2>1. CASE UNCHANGED driver
    BY <2>1
  <2>2. ASSUME NEW w \in Workers, AcceptRide(w) PROVE driver'[r] = driver[r]
    <3>1. status[req[w].ride] = "searching" /\ req[w].ride \in Rides
      BY <2>2 DEF IInv, RequestsBacked, AcceptRide, At, RideSteps
    <3>2. req[w].ride # r
      BY <3>1 DEF IInv, FreshRideHasNoDriver
    <3> QED
      BY <2>2, <3>2 DEF IInv, TypeOK, AcceptRide
  <2> QED
    BY <2>1, <2>2, StatusWriters
<1> QED
  BY <1>1, Invariance, PTL DEF Spec, DriverChosenOnce

\* A ride cancelled while nobody had accepted it is out of reach of every
\* accept, cancellation and driver's handler still in flight.
THEOREM DriverlessCancelStays == Spec => DriverlessCancelIsFinal
<1>1. IInv /\ [Next]_vars
        => [\A r \in Rides : status[r] = "cancelled" /\ driver[r] = NoOne
                               => status'[r] = "cancelled" /\ driver'[r] = NoOne]_vars
  <2> SUFFICES ASSUME IInv, Next, NEW r \in Rides,
                      status[r] = "cancelled", driver[r] = NoOne
               PROVE  status'[r] = "cancelled" /\ driver'[r] = NoOne
    OBVIOUS
  <2>1. status'[r] = "cancelled"
    BY StatusWriters
  <2>2. ASSUME NEW w \in Workers, AcceptRide(w) PROVE driver'[r] = NoOne
    BY <2>2 DEF IInv, TypeOK, AcceptRide
  <2> QED
    BY <2>1, <2>2, StatusWriters
<1> QED
  BY <1>1, Invariance, PTL DEF Spec, DriverlessCancelIsFinal

-----------------------------------------------------------------------------
(* Requests and jobs that overlap freely, as long as no two of them are    *)
(* about the same ride or the same user: then the service keeps what it    *)
(* promises.  The scheduler's UPDATE, the clock and crashes still come     *)
(* between any two steps of a handler.                                     *)

RidesOf(q) == ({q.ride} \cup q.todo) \ {NoRide}

RequestsApart ==
  \A v, w \in Workers : v # w =>
    /\ RidesOf(req[v]) \cap RidesOf(req[w]) = {}
    /\ req[v].who # req[w].who \/ req[v].who = NoOne

\* The statuses the service writes; the others of the enum are never stored.
StatusesWritten == {"absent", "searching", "accepted", "driver_en_route",
                    "arrived", "in_progress", "completed", "cancelled"}

OnlyStatusesWritten == \A r \in Rides : status[r] \in StatusesWritten

\* The converse of PointerBacked: the driver of a ride under way points to it.
BusyDriverIsMarked ==
  \A r \in Rides : status[r] \in WithDriver => currentRide[driver[r]] = r

RowsAgree == OnlyStatusesWritten /\ BusyDriverIsMarked /\ OneActiveRidePerRider

\* What the handler checked when it read the rows still holds, or was overtaken
\* by the expiry of searching rides only.
RequestFits(q) ==
  /\ q.step = "create_insert" => ~HasActiveRide(q.who)
  /\ q.step = "accept" => currentRide[q.who] = NoRide
  /\ q.step = "en_route" => status[q.ride] = "accepted"
  /\ q.step = "arrived" => status[q.ride] = "driver_en_route"
  /\ q.step = "start" => status[q.ride] = "arrived"
  /\ q.step = "no_show" => q.seen \in {"accepted", "arrived"}
  /\ q.step = "cancel" => /\ q.who = driver[q.ride]
                          /\ \/ status[q.ride] \in Cancellable
                             \/ status[q.ride] = "cancelled" /\ q.who = NoOne
  /\ q.step = "free_driver" => /\ status[q.ride] = "cancelled"
                               /\ q.who \in Drivers
                               /\ currentRide[q.who] = q.ride
  /\ q.step = "sweep_pending" =>
       \A r \in q.todo : status[r] \in {"searching", "cancelled"}
  /\ q.step = "sweep_accepted" => \A r \in q.todo : status[r] = "accepted"

RequestsFit == \A w \in Workers : RequestFits(req[w])

SerialInv == IInv /\ RowsAgree /\ RequestsFit

LEMMA InitSerialInv == Init => SerialInv
<1> SUFFICES ASSUME Init PROVE RowsAgree /\ RequestsFit
  BY InitIInv DEF SerialInv
<1> QED
  BY DEF Init, RowsAgree, OnlyStatusesWritten, StatusesWritten, BusyDriverIsMarked,
         OneActiveRidePerRider, ActiveForRider, WithDriver, RequestsFit, RequestFits, Idle

\* A step that brings no ride into an active status, and moves the pointer of
\* no driver whose ride stays under way, keeps the rows in agreement.
LEMMA NoRideActivated ==
  ASSUME RowsAgree, UNCHANGED <<rider, driver>>,
         \A r \in Rides :
           /\ status'[r] \in StatusesWritten
           /\ status'[r] \in ActiveForRider => status[r] \in ActiveForRider
           /\ status'[r] \in WithDriver =>
                /\ status[r] \in WithDriver
                /\ currentRide'[driver[r]] = currentRide[driver[r]]
  PROVE  RowsAgree'
<1>1. OnlyStatusesWritten'
  BY DEF OnlyStatusesWritten
<1>2. BusyDriverIsMarked'
  BY DEF RowsAgree, BusyDriverIsMarked
<1>3. OneActiveRidePerRider'
  BY DEF RowsAgree, OneActiveRidePerRider
<1> QED
  BY <1>1, <1>2, <1>3 DEF RowsAgree

LEMMA SameRowsAgree ==
  RowsAgree /\ UNCHANGED <<status, rider, driver, currentRide>> => RowsAgree'
BY DEF RowsAgree, OnlyStatusesWritten, BusyDriverIsMarked, OneActiveRidePerRider

\* A handler that ends leaves nothing to fit.
LEMMA FinishFits ==
  ASSUME TypeOK, NEW w \in Workers, Finish(w)
  PROVE  RequestFits(req[w])'
<1>1. req'[w] = Idle
  BY DEF TypeOK, Finish, Proceed
<1> QED
  BY <1>1 DEF RequestFits, Idle

\* What a worker does is done to its own rides, its own user, a row that was
\* absent, or the driver whose ride it completes.
Local(w) ==
  /\ \A r \in Rides \ RidesOf(req[w]) : /\ status'[r] = status[r] \/ status[r] = "absent"
                                        /\ driver'[r] = driver[r]
  /\ \A u \in Riders \ {req[w].who} : HasActiveRide(u)' => HasActiveRide(u)
  /\ \A d \in Drivers \ {req[w].who} :
       \/ currentRide'[d] = currentRide[d]
       \/ currentRide'[d] = NoRide /\ currentRide[d] \in RidesOf(req[w])
  /\ \A v \in Workers \ {w} : req'[v] = req[v]

LEMMA StepIsLocal ==
  ASSUME IInv, RowsAgree, NEW w \in Workers, RequestFits(req[w]),
         Begin(w) \/ Continue(w) \/ Crash(w)
  PROVE  Local(w)
<1> DEFINE r == req[w].ride
<1>t. /\ TypeOK /\ req[w] \in Requests
      /\ req[w].step \in RideSteps => r \in Rides /\ r \in RidesOf(req[w])
      /\ req[w].step = "accept" => req[w].who \in Drivers
      /\ req[w].todo \subseteq RidesOf(req[w])
  BY RidesAssumption DEF IInv, TypeOK, RequestsBacked, Requests, RidesOf
<1>q. \A v \in Workers \ {w} : req'[v] = req[v]
  BY <1>t
     DEF TypeOK, Begin, Continue, Crash, RequestRide, RequestAccept, RequestArrived,
         RequestStart, RequestComplete, RequestCancel, RequestNoShow, StartCleanup,
         ListStale, Take, PutCreateLock, CheckNoActiveRide, InsertRide, ForgetCreateLock,
         AcceptRide, DriverEnRoute, DriverArrived, StartRide, CompleteRide, RejectRequest,
         CancelRide, MarkNoShow, FreeDriver, ListStaleAccepted, CancelStale, EndCleanup,
         Goto, Finish, Proceed
<1>1. CASE UNCHANGED <<rows, currentRide>>
  BY <1>q, <1>1 DEF Local, HasActiveRide, rows
<1>2. CASE Begin(w) \/ Crash(w)
  BY <1>1, <1>2 DEF Begin, RequestRide, RequestAccept, RequestArrived, RequestStart,
                    RequestComplete, RequestCancel, RequestNoShow, StartCleanup, ListStale,
                    Take, Crash, users
<1>3. CASE PutCreateLock(w) \/ CheckNoActiveRide(w) \/ ForgetCreateLock(w)
           \/ RejectRequest(w) \/ ListStaleAccepted(w) \/ EndCleanup(w)
  BY <1>1, <1>3 DEF PutCreateLock, CheckNoActiveRide, ForgetCreateLock, RejectRequest,
                    ListStaleAccepted, ListStale, EndCleanup, users
<1>4. ASSUME NEW q \in RidesOf(req[w]), NEW s \in Status, SetStatus(q, s),
             s \in ActiveForRider => status[q] \in ActiveForRider,
             UNCHANGED <<rider, driver, currentRide>>
      PROVE  Local(w)
  <2>1. \A p \in Rides : status'[p] = IF p = q THEN s ELSE status[p]
    BY <1>t, <1>4 DEF TypeOK, SetStatus
  <2>2. \A u \in Riders : HasActiveRide(u)' => HasActiveRide(u)
    BY <1>4, <2>1 DEF HasActiveRide
  <2> QED
    BY <1>q, <1>4, <2>1, <2>2 DEF Local
<1>5. CASE InsertRide(w)
  <2>1. PICK q \in Rides : /\ status[q] = "absent"
                           /\ SetStatus(q, "searching")
                           /\ rider' = [rider EXCEPT ![q] = req[w].who]
    BY <1>5 DEF InsertRide
  <2>2. /\ \A p \in Rides : status'[p] = IF p = q THEN "searching" ELSE status[p]
        /\ \A p \in Rides : rider'[p] = IF p = q THEN req[w].who ELSE rider[p]
        /\ UNCHANGED <<driver, currentRide>>
    BY <1>t, <1>5, <2>1 DEF TypeOK, SetStatus, InsertRide, users
  <2>3. \A u \in Riders \ {req[w].who} : HasActiveRide(u)' => HasActiveRide(u)
    BY <2>2 DEF HasActiveRide
  <2> QED
    BY <1>q, <2>1, <2>2, <2>3 DEF Local
<1>6. CASE AcceptRide(w)
  <2>1. req[w].who \in Drivers /\ r \in Rides /\ r \in RidesOf(req[w]) /\ status[r] = "searching"
    BY <1>t, <1>6 DEF AcceptRide, At, RideSteps
  <2>2. /\ \A p \in Rides : status'[p] = IF p = r THEN "accepted" ELSE status[p]
        /\ \A p \in Rides : driver'[p] = IF p = r THEN req[w].who ELSE driver[p]
        /\ \A d \in Drivers : currentRide'[d] = IF d = req[w].who THEN r ELSE currentRide[d]
        /\ UNCHANGED rider
    BY <1>t, <1>6, <2>1 DEF TypeOK, AcceptRide, SetStatus
  <2>3. \A u \in Riders : HasActiveRide(u)' => HasActiveRide(u)
    BY <2>1, <2>2 DEF HasActiveRide, ActiveForRider
  <2> QED
    BY <1>q, <2>1, <2>2, <2>3 DEF Local
<1>7. CASE DriverEnRoute(w) \/ DriverArrived(w) \/ StartRide(w)
  <2>1. r \in RidesOf(req[w]) /\ status[r] \in ActiveForRider
    BY <1>t, <1>7 DEF DriverEnRoute, DriverArrived, StartRide, At, RideSteps, RequestFits,
                      ActiveForRider
  <2> QED
    BY <1>4, <1>7, <2>1 DEF DriverEnRoute, DriverArrived, StartRide, Status, users
<1>8. CASE CompleteRide(w)
  <2>1. /\ r \in Rides /\ r \in RidesOf(req[w]) /\ status[r] = "in_progress"
        /\ UNCHANGED <<rider, driver>>
    BY <1>t, <1>8 DEF CompleteRide, At, RideSteps
  <2>2. currentRide[driver[r]] = r
    BY <2>1 DEF RowsAgree, BusyDriverIsMarked, WithDriver
  <2>3. /\ \A p \in Rides : status'[p] = IF p = r THEN "completed" ELSE status[p]
        /\ \A d \in Drivers : currentRide'[d] = IF d = driver[r] THEN NoRide ELSE currentRide[d]
    BY <1>t, <1>8, <2>1 DEF TypeOK, CompleteRide, SetStatus
  <2>4. \A u \in Riders : HasActiveRide(u)' => HasActiveRide(u)
    BY <2>1, <2>3 DEF HasActiveRide, ActiveForRider
  <2> QED
    BY <1>q, <2>1, <2>2, <2>3, <2>4 DEF Local
<1>9. CASE CancelRide(w)
  <2>1. r \in RidesOf(req[w])
    BY <1>t, <1>9 DEF CancelRide, At, RideSteps
  <2> QED
    BY <1>4, <1>9, <2>1 DEF CancelRide, Status, ActiveForRider, users
<1>10. CASE MarkNoShow(w)
  <2>1. ~CanTransition(req[w].seen, "no_show")
    BY <1>10 DEF MarkNoShow, At, RequestFits, CanTransition, ValidTransitions
  <2> QED
    BY <1>1, <1>10, <2>1 DEF MarkNoShow, rows, users
<1>11. CASE FreeDriver(w)
  <2>1. /\ \A d \in Drivers \ {req[w].who} : currentRide'[d] = currentRide[d]
        /\ UNCHANGED <<status, rider, driver>>
    BY <1>t, <1>11 DEF TypeOK, FreeDriver, rows
  <2> QED
    BY <1>q, <2>1 DEF Local, HasActiveRide
<1>12. CASE CancelStale(w)
  <2>1. PICK q \in req[w].todo : SetStatus(q, "cancelled")
    BY <1>12 DEF CancelStale
  <2> QED
    BY <1>t, <1>4, <1>12, <2>1 DEF CancelStale, Status, ActiveForRider, users
<1> QED
  BY <1>2, <1>3, <1>5, <1>6, <1>7, <1>8, <1>9, <1>10, <1>11, <1>12 DEF Continue

\* So it leaves alone what the others remember.
LEMMA OthersFit ==
  ASSUME IInv, RequestsFit, RequestsApart, NEW w \in Workers, Local(w),
         NEW v \in Workers, v # w
  PROVE  RequestFits(req[v])'
<1> DEFINE q == req[v]
<1>1. /\ req'[v] = q /\ RequestFits(q) /\ q \in Requests
      /\ RidesOf(q) \cap RidesOf(req[w]) = {}
      /\ q.who = NoOne \/ q.who # req[w].who
      /\ q.step \in CreateSteps => q.who \in Riders
      /\ q.step = "accept" => q.who \in Drivers
      /\ q.step \in RideSteps => q.ride \in Rides
  BY DEF IInv, TypeOK, RequestsBacked, RequestsFit, RequestsApart, Local
<1>2. \A r \in Rides : r = q.ride \/ r \in q.todo
        => /\ status'[r] = status[r] \/ status[r] = "absent"
           /\ driver'[r] = driver[r]
  BY <1>1, RidesAssumption DEF Local, RidesOf
<1>3. CASE q.step = "create_insert"
  <2>1. q.who \in Riders \ {req[w].who} /\ ~HasActiveRide(q.who)
    BY <1>1, <1>3, UsersAssumption DEF RequestFits, CreateSteps
  <2>2. ~HasActiveRide(q.who)'
    BY <2>1 DEF Local
  <2> QED
    BY <1>1, <1>3, <2>2 DEF RequestFits
<1>4. CASE q.step = "accept"
  <2>1. q.who \in Drivers \ {req[w].who} /\ currentRide[q.who] = NoRide
    BY <1>1, <1>4, UsersAssumption DEF RequestFits
  <2>2. currentRide'[q.who] = NoRide
    BY <2>1 DEF Local
  <2> QED
    BY <1>1, <1>4, <2>2 DEF RequestFits
<1>5. CASE q.step = "free_driver"
  <2>1. /\ q.who \in Drivers \ {req[w].who} /\ q.ride \in Rides
        /\ currentRide[q.who] = q.ride /\ status[q.ride] = "cancelled"
    BY <1>1, <1>5, UsersAssumption DEF RequestFits, RideSteps
  <2>2. currentRide'[q.who] = q.ride
    BY <1>1, <2>1, RidesAssumption DEF Local, RidesOf
  <2>3. status'[q.ride] = "cancelled"
    BY <1>2, <2>1
  <2> QED
    BY <1>1, <1>5, <2>1, <2>2, <2>3 DEF RequestFits
<1>6. CASE q.step \in {"en_route", "arrived", "start", "cancel", "no_show"}
  <2>1. /\ q.ride \in Rides
        /\ status'[q.ride] = status[q.ride] \/ status[q.ride] = "absent"
        /\ driver'[q.ride] = driver[q.ride]
    BY <1>1, <1>2, <1>6 DEF RideSteps
  <2> QED
    BY <1>1, <1>6, <2>1 DEF RequestFits, Cancellable
<1>7. CASE q.step \in SweepSteps
  <2>1. q.todo \subseteq Rides
    BY <1>1 DEF Requests
  <2> QED
    BY <1>1, <1>2, <1>7, <2>1 DEF RequestFits, SweepSteps
<1>8. CASE q.step \notin {"create_insert", "accept", "free_driver", "en_route", "arrived", "start",
                         "cancel", "no_show"} \cup SweepSteps
  BY <1>1, <1>8 DEF RequestFits, SweepSteps
<1> QED
  BY <1>3, <1>4, <1>5, <1>6, <1>7, <1>8

\* Every step of a handler, a job or the scheduler preserves the invariant.
LEMMA NextSerialInv == RequestsApart /\ SerialInv /\ [Next]_vars => SerialInv'
<1> SUFFICES ASSUME RequestsApart, SerialInv, [Next]_vars PROVE RowsAgree' /\ RequestsFit'
  BY NextIInv DEF SerialInv
<1>t. /\ IInv /\ TypeOK /\ RowsAgree
      /\ \A w \in Workers : RequestFits(req[w])
      /\ \A r \in Rides : status[r] \in StatusesWritten
  BY DEF SerialInv, IInv, RowsAgree, RequestsFit, OnlyStatusesWritten
<1>1. ASSUME NEW w \in Workers, Begin(w) PROVE RowsAgree' /\ RequestFits(req[w])'
  <2>1. ASSUME NEW u \in Riders, RequestRide(w, u) PROVE RequestFits(req[w])'
    <3>1. req'[w].step = "create_put"
      BY <1>t, <2>1 DEF RequestRide, Take, Proceed, TypeOK
    <3> QED
      BY <3>1 DEF RequestFits
  <2>2. ASSUME NEW d \in Drivers, NEW r \in Rides, RequestAccept(w, d, r) PROVE RequestFits(req[w])'
    <3>1. /\ req'[w].step = "accept"
          /\ req'[w].who = d
          /\ currentRide'[d] = NoRide
      BY <1>t, <2>2 DEF RequestAccept, Take, Proceed, TypeOK, users
    <3> QED
      BY <3>1 DEF RequestFits
  <2>3. ASSUME NEW r \in Rides, RequestArrived(w, r) PROVE RequestFits(req[w])'
    <3>1. /\ req'[w].ride = r
          /\ \/ req'[w].step = "en_route" /\ status'[r] = "accepted"
             \/ req'[w].step = "arrived" /\ status'[r] = "driver_en_route"
      BY <1>t, <2>3 DEF RequestArrived, Take, Proceed, TypeOK, rows
    <3> QED
      BY <3>1 DEF RequestFits
  <2>4. ASSUME NEW r \in Rides, RequestStart(w, r) PROVE RequestFits(req[w])'
    <3>1. /\ req'[w].step = "start"
          /\ req'[w].ride = r
          /\ status'[r] = "arrived"
      BY <1>t, <2>4 DEF RequestStart, Take, Proceed, TypeOK, rows, StatusesWritten
    <3> QED
      BY <3>1 DEF RequestFits
  <2>5. ASSUME NEW r \in Rides, RequestComplete(w, r) PROVE RequestFits(req[w])'
    <3>1. req'[w].step = "complete"
      BY <1>t, <2>5 DEF RequestComplete, Take, Proceed, TypeOK
    <3> QED
      BY <3>1 DEF RequestFits
  <2>6. ASSUME NEW r \in Rides, RequestCancel(w, r) PROVE RequestFits(req[w])'
    <3>1. /\ req'[w].step = "cancel"
          /\ req'[w].ride = r
          /\ req'[w].who = driver'[r]
          /\ status'[r] \in Cancellable
      BY <1>t, <2>6 DEF RequestCancel, Take, Proceed, TypeOK, rows
    <3> QED
      BY <3>1 DEF RequestFits
  <2>7. ASSUME NEW r \in Rides, RequestNoShow(w, r) PROVE RequestFits(req[w])'
    <3>1. /\ req'[w].step = "no_show"
          /\ req'[w].seen \in {"accepted", "arrived"}
      BY <1>t, <2>7 DEF RequestNoShow, Take, Proceed, TypeOK, StatusesWritten
    <3> QED
      BY <3>1 DEF RequestFits
  <2>8. ASSUME StartCleanup(w) PROVE RequestFits(req[w])'
    <3>1. PICK S \in SUBSET {r \in aged : status[r] = "searching"} :
            Proceed(w, [Idle EXCEPT !.step = "sweep_pending", !.todo = S])
      BY <2>8 DEF StartCleanup, ListStale
    <3>2. /\ req'[w] = [Idle EXCEPT !.step = "sweep_pending", !.todo = S]
          /\ UNCHANGED status
      BY <1>t, <2>8, <3>1 DEF Proceed, TypeOK, StartCleanup, ListStale, rows
    <3>3. req'[w].step = "sweep_pending" /\ req'[w].todo = S
      BY <3>2 DEF Idle
    <3> QED
      BY <3>1, <3>2, <3>3 DEF RequestFits
  <2>9. UNCHANGED <<rows, users>>
    BY <1>1 DEF Begin, RequestRide, RequestAccept, RequestArrived, RequestStart,
                RequestComplete, RequestCancel, RequestNoShow, StartCleanup, ListStale, Take
  <2>10. RowsAgree'
    BY <1>t, <2>9, SameRowsAgree DEF rows, users
  <2> QED
    BY <1>1, <2>1, <2>2, <2>3, <2>4, <2>5, <2>6, <2>7, <2>8, <2>10 DEF Begin
<1>2. ASSUME NEW w \in Workers, Continue(w) PROVE RowsAgree' /\ RequestFits(req[w])'
  <2> DEFINE r == req[w].ride
             u == req[w].who
  <2>t. /\ RequestFits(req[w])
        /\ req[w] \in Requests
        /\ r \in Rides \cup {NoRide}
        /\ req[w].step \in RideSteps => r \in Rides
        /\ req[w].step \in {"en_route", "arrived", "start", "complete", "no_show"}
             => driver[r] # NoOne
    BY <1>t DEF IInv, TypeOK, Requests, RequestsBacked
  <2>g. ASSUME NEW step, Goto(w, step)
        PROVE  /\ req'[w] = [req[w] EXCEPT !.step = step]
               /\ req'[w].step = step /\ req'[w].who = u /\ req'[w].ride = r
               /\ req'[w].seen = req[w].seen /\ req'[w].todo = req[w].todo
    BY <1>t, <2>t, <2>g DEF Goto, Proceed, TypeOK, Requests
  <2>1. CASE PutCreateLock(w)
    <3>1. req'[w].step = "create_check" /\ UNCHANGED <<rows, users>>
      BY <2>1, <2>g DEF PutCreateLock
    <3>2. RequestFits(req[w])'
      BY <3>1 DEF RequestFits
    <3> QED
      BY <1>t, <3>1, <3>2, SameRowsAgree DEF rows, users
  <2>2. CASE CheckNoActiveRide(w)
    <3> DEFINE next == IF HasActiveRide(u) THEN "create_forget" ELSE "create_insert"
    <3>1. /\ req'[w].step = next /\ req'[w].who = u
          /\ UNCHANGED <<rows, users>>
      BY <2>2, <2>g DEF CheckNoActiveRide
    <3>2. HasActiveRide(u)' <=> HasActiveRide(u)
      BY <1>t, <3>1 DEF HasActiveRide, rows
    <3>3. RequestFits(req[w])'
      BY <3>1, <3>2 DEF RequestFits
    <3> QED
      BY <1>t, <3>1, <3>3, SameRowsAgree DEF rows, users
  <2>3. CASE InsertRide(w)
    <3>1. PICK q \in Rides : /\ status[q] = "absent"
                             /\ SetStatus(q, "searching")
                             /\ rider' = [rider EXCEPT ![q] = u]
      BY <2>3 DEF InsertRide
    <3>2. ~HasActiveRide(u) /\ UNCHANGED <<driver, users>>
      BY <2>t, <2>3 DEF RequestFits, InsertRide, At
    <3>3. /\ \A p \in Rides : status'[p] = IF p = q THEN "searching" ELSE status[p]
          /\ \A p \in Rides : rider'[p] = IF p = q THEN u ELSE rider[p]
      BY <1>t, <3>1 DEF TypeOK, SetStatus
    <3>4. OnlyStatusesWritten' /\ BusyDriverIsMarked'
      BY <1>t, <3>2, <3>3 DEF RowsAgree, OnlyStatusesWritten, StatusesWritten,
                              BusyDriverIsMarked, WithDriver, users
    <3>5. OneActiveRidePerRider'
      BY <1>t, <3>2, <3>3 DEF RowsAgree, OneActiveRidePerRider, HasActiveRide
    <3>6. RequestFits(req[w])'
      <4>1. req'[w].step = "create_forget"
        BY <2>3, <2>g DEF InsertRide
      <4> QED
        BY <4>1 DEF RequestFits
    <3> QED
      BY <3>4, <3>5, <3>6 DEF RowsAgree
  <2>4. CASE ForgetCreateLock(w) \/ RejectRequest(w) \/ EndCleanup(w)
    BY <1>t, <2>4, FinishFits, SameRowsAgree
       DEF ForgetCreateLock, RejectRequest, EndCleanup, rows, users
  <2>5. CASE AcceptRide(w)
    <3>0. req[w].step = "accept" /\ status[r] = "searching" /\ UNCHANGED rider
      BY <2>5 DEF AcceptRide, At
    <3>1. u \in Drivers /\ r \in Rides /\ currentRide[u] = NoRide
      BY <1>t, <2>t, <3>0 DEF IInv, RequestsBacked, RequestFits, RideSteps
    <3>2. /\ \A p \in Rides : status'[p] = IF p = r THEN "accepted" ELSE status[p]
          /\ \A p \in Rides : driver'[p] = IF p = r THEN u ELSE driver[p]
          /\ \A d \in Drivers : currentRide'[d] = IF d = u THEN r ELSE currentRide[d]
      BY <1>t, <2>5, <3>1 DEF TypeOK, AcceptRide, SetStatus
    <3>3. OnlyStatusesWritten'
      BY <1>t, <3>2 DEF OnlyStatusesWritten, StatusesWritten
    <3>4. BusyDriverIsMarked'
      <4>1. ASSUME NEW p \in Rides, p # r, status[p] \in WithDriver
            PROVE  driver[p] \in Drivers /\ driver[p] # u /\ currentRide[driver[p]] = p
        BY <1>t, <3>0, <3>1, <4>1, RidesAssumption
           DEF IInv, TypeOK, RideHasDriver, RowsAgree, BusyDriverIsMarked
      <4> QED
        BY <3>0, <3>1, <3>2, <4>1 DEF BusyDriverIsMarked
    <3>5. OneActiveRidePerRider'
      BY <1>t, <3>0, <3>1, <3>2 DEF RowsAgree, OneActiveRidePerRider, ActiveForRider
    <3> QED
      BY <1>t, <2>5, <3>3, <3>4, <3>5, FinishFits DEF RowsAgree, AcceptRide
  <2>6. ASSUME NEW s \in StatusesWritten, SetStatus(r, s), r \in Rides,
               UNCHANGED <<rider, driver, aged, users>>,
               s \in ActiveForRider => status[r] \in ActiveForRider,
               s \in WithDriver => status[r] \in WithDriver
        PROVE  RowsAgree' /\ status'[r] = s
    <3>1. \A p \in Rides : status'[p] = IF p = r THEN s ELSE status[p]
      BY <1>t, <2>6 DEF TypeOK, SetStatus
    <3> QED
      BY <1>t, <2>6, <3>1, NoRideActivated DEF users
  <2>7. CASE DriverEnRoute(w)
    <3>1. r \in Rides /\ status[r] = "accepted"
      BY <2>t, <2>7 DEF DriverEnRoute, At, RequestFits, RideSteps
    <3>2. /\ SetStatus(r, "driver_en_route")
          /\ UNCHANGED <<rider, driver, aged, users>>
          /\ req'[w].step = "arrived" /\ req'[w].ride = r
      BY <2>7, <2>g DEF DriverEnRoute
    <3>3. RowsAgree' /\ status'[r] = "driver_en_route"
      BY <2>6, <3>1, <3>2 DEF StatusesWritten, ActiveForRider, WithDriver
    <3>4. RequestFits(req[w])'
      BY <3>2, <3>3 DEF RequestFits
    <3> QED
      BY <3>3, <3>4
  <2>8. CASE DriverArrived(w)
    <3>1. r \in Rides /\ status[r] = "driver_en_route"
      BY <2>t, <2>8 DEF DriverArrived, At, RequestFits, RideSteps
    <3>2. RowsAgree'
      BY <2>6, <2>8, <3>1 DEF DriverArrived, StatusesWritten, ActiveForRider, WithDriver
    <3> QED
      BY <1>t, <2>8, <3>2, FinishFits DEF DriverArrived
  <2>9. CASE StartRide(w)
    <3>1. r \in Rides /\ status[r] = "arrived"
      BY <2>t, <2>9 DEF StartRide, At, RequestFits, RideSteps
    <3>2. RowsAgree'
      BY <2>6, <2>9, <3>1 DEF StartRide, StatusesWritten, ActiveForRider, WithDriver
    <3> QED
      BY <1>t, <2>9, <3>2, FinishFits DEF StartRide
  <2>10. CASE CompleteRide(w)
    <3>1. /\ r \in Rides /\ status[r] = "in_progress" /\ driver[r] \in Drivers
          /\ UNCHANGED <<rider, driver>>
      BY <1>t, <2>t, <2>10 DEF TypeOK, CompleteRide, At, RideSteps
    <3>2. /\ \A p \in Rides : status'[p] = IF p = r THEN "completed" ELSE status[p]
          /\ \A d \in Drivers : d # driver[r] => currentRide'[d] = currentRide[d]
      BY <1>t, <2>10, <3>1 DEF TypeOK, CompleteRide, SetStatus
    <3>3. ASSUME NEW p \in Rides, p # r, status[p] \in WithDriver
          PROVE  driver[p] \in Drivers /\ driver[p] # driver[r]
      BY <1>t, <3>1, <3>3
         DEF IInv, TypeOK, RideHasDriver, RowsAgree, BusyDriverIsMarked, WithDriver
    <3>4. RowsAgree'
      BY <1>t, <3>1, <3>2, <3>3, NoRideActivated
         DEF StatusesWritten, ActiveForRider, WithDriver
    <3> QED
      BY <1>t, <2>10, <3>4, FinishFits DEF CompleteRide
  <2>11. CASE CancelRide(w)
    <3>1. /\ r \in Rides /\ u = driver[r]
          /\ \/ status[r] \in Cancellable
             \/ status[r] = "cancelled" /\ u = NoOne
      BY <2>t, <2>11 DEF CancelRide, At, RequestFits, RideSteps
    <3>2. RowsAgree' /\ status'[r] = "cancelled"
      BY <2>6, <2>11, <3>1 DEF CancelRide, StatusesWritten, ActiveForRider, WithDriver
    <3>3. CASE u = NoOne
      BY <1>t, <2>11, <3>2, <3>3, FinishFits DEF CancelRide
    <3>4. CASE u # NoOne
      <4>1. status[r] \in WithDriver
        BY <1>t, <3>1, <3>4 DEF IInv, FreshRideHasNoDriver, StatusesWritten, Cancellable, WithDriver
      <4>2. u \in Drivers /\ currentRide[u] = r
        BY <1>t, <3>1, <3>4, <4>1 DEF TypeOK, RowsAgree, BusyDriverIsMarked
      <4>3. /\ req'[w].step = "free_driver" /\ req'[w].who = u /\ req'[w].ride = r
            /\ UNCHANGED currentRide
        BY <2>11, <2>g, <3>4 DEF CancelRide, users
      <4>4. RequestFits(req[w])'
        BY <3>2, <4>2, <4>3 DEF RequestFits
      <4> QED
        BY <3>2, <4>4
    <3> QED
      BY <3>3, <3>4
  <2>12. CASE MarkNoShow(w)
    <3>1. ~CanTransition(req[w].seen, "no_show")
      BY <2>t, <2>12 DEF MarkNoShow, At, RequestFits, CanTransition, ValidTransitions
    <3> QED
      BY <1>t, <2>12, <3>1, FinishFits, SameRowsAgree DEF MarkNoShow, users
  <2>13. CASE FreeDriver(w)
    <3>1. r \in Rides /\ status[r] = "cancelled" /\ u \in Drivers /\ currentRide[u] = r
      BY <2>t, <2>13 DEF FreeDriver, At, RequestFits, RideSteps
    <3>2. /\ UNCHANGED <<status, rider, driver>>
          /\ \A d \in Drivers : d # u => currentRide'[d] = currentRide[d]
      BY <1>t, <2>13 DEF TypeOK, FreeDriver, rows
    <3>3. ASSUME NEW p \in Rides, status[p] \in WithDriver
          PROVE  driver[p] \in Drivers /\ driver[p] # u
      BY <1>t, <3>1, <3>3
         DEF IInv, TypeOK, RideHasDriver, RowsAgree, BusyDriverIsMarked, WithDriver
    <3>4. RowsAgree'
      BY <1>t, <3>2, <3>3, NoRideActivated
    <3> QED
      BY <1>t, <2>13, <3>4, FinishFits DEF FreeDriver
  <2>14. CASE ListStaleAccepted(w)
    <3>1. PICK S \in SUBSET {p \in Rides : status[p] = "accepted"} :
            Proceed(w, [Idle EXCEPT !.step = "sweep_accepted", !.todo = S])
      BY <2>14 DEF ListStaleAccepted, ListStale
    <3>2. /\ req'[w] = [Idle EXCEPT !.step = "sweep_accepted", !.todo = S]
          /\ UNCHANGED <<rows, users>>
      BY <1>t, <2>14, <3>1 DEF Proceed, TypeOK, ListStaleAccepted, ListStale
    <3>3. req'[w].step = "sweep_accepted" /\ req'[w].todo = S
      BY <3>2 DEF Idle
    <3>4. RequestFits(req[w])'
      BY <3>1, <3>2, <3>3 DEF RequestFits, rows
    <3> QED
      BY <1>t, <3>2, <3>4, SameRowsAgree DEF rows, users
  <2>15. CASE CancelStale(w)
    <3>1. PICK q \in req[w].todo : /\ SetStatus(q, "cancelled")
                                   /\ Proceed(w, [req[w] EXCEPT !.todo = @ \ {q}])
      BY <2>15 DEF CancelStale
    <3>2. /\ q \in Rides /\ req[w].todo \in SUBSET Rides
          /\ UNCHANGED <<rider, driver, aged, users>>
      BY <2>t, <2>15 DEF CancelStale, Requests
    <3>3. /\ req'[w].step = req[w].step
          /\ req'[w].todo = req[w].todo \ {q}
      <4>1. req'[w] = [req[w] EXCEPT !.todo = @ \ {q}]
        BY <1>t, <3>1 DEF Proceed, TypeOK
      <4> QED
        BY <2>t, <4>1 DEF Requests
    <3>4. \A p \in Rides : status'[p] = IF p = q THEN "cancelled" ELSE status[p]
      BY <1>t, <3>1, <3>2 DEF TypeOK, SetStatus
    <3>5. RowsAgree'
      BY <1>t, <3>2, <3>4, NoRideActivated
         DEF users, StatusesWritten, ActiveForRider, WithDriver
    <3>6. RequestFits(req[w])'
      BY <2>t, <2>15, <3>2, <3>3, <3>4 DEF CancelStale, SweepSteps, RequestFits
    <3> QED
      BY <3>5, <3>6
  <2> QED
    BY <1>2, <2>1, <2>2, <2>3, <2>4, <2>5, <2>7, <2>8, <2>9, <2>10, <2>11, <2>12,
       <2>13, <2>14, <2>15 DEF Continue
<1>3. ASSUME NEW w \in Workers, Crash(w) PROVE RowsAgree' /\ RequestFits(req[w])'
  BY <1>t, <1>3, FinishFits, SameRowsAgree DEF Crash, rows, users
<1>4. ASSUME UNCHANGED <<status, rider, driver, currentRide, req>>
      PROVE  RowsAgree' /\ RequestsFit'
  <2>1. \A w \in Workers : RequestFits(req[w])'
    BY <1>t, <1>4 DEF RequestFits, HasActiveRide
  <2> QED
    BY <1>t, <1>4, <2>1, SameRowsAgree DEF RequestsFit
<1>5. CASE ExpireStaleRides
  <2>1. /\ \A r \in Rides : \/ status'[r] = status[r]
                            \/ status[r] = "searching" /\ status'[r] = "cancelled"
        /\ UNCHANGED <<rider, driver, users, req>>
    BY <1>5 DEF ExpireStaleRides
  <2>2. RowsAgree'
    BY <1>t, <2>1, NoRideActivated
       DEF users, StatusesWritten, ActiveForRider, WithDriver
  <2>3. ASSUME NEW w \in Workers PROVE RequestFits(req[w])'
    <3>1. RequestFits(req[w]) /\ req[w] \in Requests
      BY <1>t DEF TypeOK
    <3>2. HasActiveRide(req[w].who)' => HasActiveRide(req[w].who)
      BY <2>1 DEF HasActiveRide, ActiveForRider
    <3>3. req[w].step \in RideSteps => req[w].ride \in Rides
      BY <1>t DEF IInv, RequestsBacked
    <3>4. \A r \in Rides : status[r] = "searching" => driver[r] = NoOne
      BY <1>t DEF IInv, FreshRideHasNoDriver
    <3> QED
      BY <2>1, <3>1, <3>2, <3>3, <3>4 DEF RequestFits, Requests, RideSteps, users, Cancellable
  <2> QED
    BY <2>2, <2>3 DEF RequestsFit
<1>6. CASE UNCHANGED vars
  BY <1>4, <1>6 DEF vars
<1>7. CASE Environment
  BY <1>4, <1>5, <1>7 DEF Environment, CreateLockExpires, ToggleOnline, Age, rows, users
<1>8. ASSUME NEW w \in Workers, Begin(w) \/ Continue(w) \/ Crash(w)
      PROVE  RowsAgree' /\ RequestsFit'
  <2>1. RowsAgree' /\ RequestFits(req[w])'
    BY <1>1, <1>2, <1>3, <1>8
  <2>2. \A v \in Workers \ {w} : RequestFits(req[v])'
    BY <1>t, <1>8, StepIsLocal, OthersFit DEF SerialInv
  <2> QED
    BY <2>1, <2>2 DEF RequestsFit
<1> QED
  BY <1>6, <1>7, <1>8 DEF Next

LEMMA SerialInvariance == Spec /\ []RequestsApart => []SerialInv
BY InitSerialInv, NextSerialInv, PTL DEF Spec

\* One worker, as in the run RideSerial, is the smallest case of requests apart.
LEMMA OneWorkerIsApart == (\A v, w \in Workers : v = w) => RequestsApart
BY DEF RequestsApart

\* validateRiderCanRequestRide keeps its promise as long as requests about one
\* ride or one user do not overlap: whatever else overlaps, crashes or sweeps, a
\* rider never has two rides that search or are under way.
THEOREM RiderHasOneRide == Spec /\ []RequestsApart => []OneActiveRidePerRider
<1>1. SerialInv => OneActiveRidePerRider
  BY DEF SerialInv, RowsAgree
<1> QED
  BY <1>1, SerialInvariance, PTL

\* acceptRide's look at current_ride_id is enough under the same condition: a
\* driver never serves two rides, even after a crash between the cancellation of
\* his ride and the statement that frees him, or after the cleanup job.
THEOREM DriverHasOneRide == Spec /\ []RequestsApart => []OneActiveRidePerDriver
<1>1. SerialInv => OneActiveRidePerDriver
  BY DEF SerialInv, RowsAgree, BusyDriverIsMarked, OneActiveRidePerDriver
<1> QED
  BY <1>1, SerialInvariance, PTL

\* Where the requests fit their rows, every step of RideService and of the scheduler
\* is one of the abstract status machine, or leaves status and driver alone.
LEMMA StepsOfStatusMachine ==
  SerialInv /\ Next => Abstract!Next \/ UNCHANGED <<status, driver>>
<1> SUFFICES ASSUME SerialInv, Next
             PROVE  Abstract!Next \/ UNCHANGED <<status, driver>>
  OBVIOUS
<1>t. /\ IInv /\ TypeOK
      /\ \A w \in Workers : RequestFits(req[w])
      /\ \A w \in Workers : req[w] \in Requests
  BY DEF SerialInv, IInv, TypeOK, RequestsFit
<1>1. ASSUME NEW w \in Workers, Begin(w) \/ Crash(w) PROVE UNCHANGED <<status, driver>>
  BY <1>1 DEF Begin, RequestRide, RequestAccept, RequestArrived, RequestStart,
              RequestComplete, RequestCancel, RequestNoShow, StartCleanup, ListStale,
              Take, Crash, rows
<1>2. ASSUME NEW w \in Workers, Continue(w)
      PROVE  Abstract!Next \/ UNCHANGED <<status, driver>>
  <2> DEFINE r == req[w].ride
  <2>t. /\ RequestFits(req[w])
        /\ req[w].step \in RideSteps => r \in Rides
        /\ req[w].step = "accept" => req[w].who \in Drivers
        /\ req[w].todo \in SUBSET Rides
    BY <1>t DEF IInv, RequestsBacked, Requests
  <2>m. ASSUME NEW q \in Rides, NEW s \in Status, CanTransition(status[q], s),
               SetStatus(q, s), UNCHANGED driver
        PROVE  Abstract!Next
    <3>1. Abstract!Move(q)
      BY <2>m DEF Abstract!Move, Abstract!CanTransition, Abstract!ValidTransitions,
                  Abstract!Status, SetStatus, CanTransition, ValidTransitions, Status
    <3> QED
      BY <3>1 DEF Abstract!Next
  <2>c. ASSUME NEW q \in Rides, SetStatus(q, "cancelled"), UNCHANGED driver,
               status[q] \in Cancellable \cup {"cancelled"}
        PROVE  Abstract!Next \/ UNCHANGED <<status, driver>>
    <3>1. CASE status[q] = "cancelled"
      BY <1>t, <2>c, <3>1 DEF TypeOK, SetStatus
    <3>2. CASE status[q] # "cancelled"
      BY <2>c, <2>m, <3>2 DEF Cancellable, CanTransition, ValidTransitions, Status
    <3> QED
      BY <3>1, <3>2
  <2>1. CASE PutCreateLock(w) \/ CheckNoActiveRide(w) \/ ForgetCreateLock(w)
             \/ RejectRequest(w) \/ FreeDriver(w) \/ ListStaleAccepted(w) \/ EndCleanup(w)
    BY <2>1 DEF PutCreateLock, CheckNoActiveRide, ForgetCreateLock, RejectRequest,
                FreeDriver, ListStaleAccepted, ListStale, EndCleanup, rows
  <2>2. CASE InsertRide(w)
    <3>1. \E q \in Rides : Abstract!Create(q)
      BY <2>2 DEF InsertRide, SetStatus, Abstract!Create
    <3> QED
      BY <3>1 DEF Abstract!Next
  <2>3. CASE AcceptRide(w)
    <3>1. r \in Rides /\ req[w].who \in Drivers
      BY <2>t, <2>3 DEF AcceptRide, At, RideSteps
    <3>2. Abstract!Accept(r, req[w].who)
      BY <2>3 DEF AcceptRide, SetStatus, Abstract!Accept
    <3> QED
      BY <3>1, <3>2 DEF Abstract!Next
  <2>4. CASE DriverEnRoute(w)
    <3>1. r \in Rides /\ status[r] = "accepted"
      BY <2>t, <2>4 DEF DriverEnRoute, At, RequestFits, RideSteps
    <3> QED
      BY <2>4, <2>m, <3>1 DEF DriverEnRoute, CanTransition, ValidTransitions, Status
  <2>5. CASE DriverArrived(w)
    <3>1. r \in Rides /\ status[r] = "driver_en_route"
      BY <2>t, <2>5 DEF DriverArrived, At, RequestFits, RideSteps
    <3> QED
      BY <2>5, <2>m, <3>1 DEF DriverArrived, CanTransition, ValidTransitions, Status
  <2>6. CASE StartRide(w)
    <3>1. r \in Rides /\ status[r] = "arrived"
      BY <2>t, <2>6 DEF StartRide, At, RequestFits, RideSteps
    <3> QED
      BY <2>6, <2>m, <3>1 DEF StartRide, CanTransition, ValidTransitions, Status
  <2>7. CASE CompleteRide(w)
    <3>1. r \in Rides
      BY <2>t, <2>7 DEF CompleteRide, At, RideSteps
    <3> QED
      BY <2>7, <2>m, <3>1 DEF CompleteRide, CanTransition, ValidTransitions, Status
  <2>8. CASE CancelRide(w)
    <3>1. r \in Rides /\ status[r] \in Cancellable \cup {"cancelled"}
      BY <2>t, <2>8 DEF CancelRide, At, RequestFits, RideSteps
    <3> QED
      BY <2>8, <2>c, <3>1 DEF CancelRide
  <2>9. CASE MarkNoShow(w)
    <3>1. ~CanTransition(req[w].seen, "no_show")
      BY <2>t, <2>9 DEF MarkNoShow, At, RequestFits, CanTransition, ValidTransitions
    <3> QED
      BY <2>9, <3>1 DEF MarkNoShow
  <2>10. CASE CancelStale(w)
    <3>1. PICK q \in req[w].todo : SetStatus(q, "cancelled")
      BY <2>10 DEF CancelStale
    <3>2. q \in Rides /\ status[q] \in Cancellable \cup {"cancelled"}
      BY <2>t, <2>10, <3>1 DEF CancelStale, RequestFits, SweepSteps, Cancellable
    <3> QED
      BY <2>10, <2>c, <3>1, <3>2 DEF CancelStale
  <2> QED
    BY <1>2, <2>1, <2>2, <2>3, <2>4, <2>5, <2>6, <2>7, <2>8, <2>9, <2>10 DEF Continue
<1>3. CASE ExpireStaleRides
  <2> DEFINE stale == {r \in aged : status[r] = "searching"}
  <2>1. /\ stale \in SUBSET {r \in Rides : status[r] = "searching"}
        /\ status' = [r \in Rides |-> IF r \in stale THEN "cancelled" ELSE status[r]]
        /\ UNCHANGED driver
    BY <1>t, <1>3 DEF ExpireStaleRides, TypeOK
  <2>2. Abstract!Expire
    BY <2>1 DEF Abstract!Expire
  <2> QED
    BY <2>2 DEF Abstract!Next
<1>4. CASE Environment
  BY <1>3, <1>4 DEF Environment, CreateLockExpires, ToggleOnline, Age, rows
<1> QED
  BY <1>1, <1>2, <1>4 DEF Next

\* RideService implements the abstract status machine for any number of rides,
\* users and workers, as long as requests about one ride or one user do not overlap:
\* every change of a row is one entry of VALID_TRANSITIONS, an acceptance or an expiry.
THEOREM ServiceFollowsStatusMachine == Spec /\ []RequestsApart => FollowsStatusMachine
<1>1. Init => Abstract!Init
  BY DEF Init, Abstract!Init
<1>2. SerialInv /\ [Next]_vars => [Abstract!Next]_(Abstract!vars)
  BY StepsOfStatusMachine DEF vars, Abstract!vars
<1> QED
  BY <1>1, <1>2, SerialInvariance, PTL DEF Spec, FollowsStatusMachine, Abstract!Spec

\* What the enum's documentation says of completed, cancelled and no_show is true
\* without such overlap: an ended ride never changes its status again.
THEOREM ApartTerminalIsFinal == Spec /\ []RequestsApart => TerminalIsFinal
<1>1. SerialInv /\ [Next]_vars
        => [\A r \in Rides : status[r] \in Terminal => status'[r] = status[r]]_vars
  <2> SUFFICES ASSUME SerialInv, Next, NEW r \in Rides, status[r] \in Terminal
               PROVE  status'[r] = status[r]
    OBVIOUS
  <2>t. TypeOK
    BY DEF SerialInv, IInv
  <2>1. CASE Abstract!Next
    <3>1. ASSUME NEW q \in Rides, Abstract!Create(q) \/ Abstract!Move(q) PROVE status'[r] = status[r]
      BY <2>t, <3>1 DEF TypeOK, Abstract!Create, Abstract!Move, Abstract!CanTransition,
                        Abstract!ValidTransitions, Terminal
    <3>2. ASSUME NEW q \in Rides, NEW d \in Drivers, Abstract!Accept(q, d)
          PROVE  status'[r] = status[r]
      BY <2>t, <3>2 DEF TypeOK, Abstract!Accept, Terminal
    <3>3. CASE Abstract!Expire
      BY <3>3 DEF Abstract!Expire, Terminal
    <3> QED
      BY <2>1, <3>1, <3>2, <3>3 DEF Abstract!Next
  <2> QED
    BY <2>1, StepsOfStatusMachine
<1> QED
  BY <1>1, SerialInvariance, PTL DEF Spec, TerminalIsFinal
=============================================================================
