---------------------------- MODULE RideLifecycle ----------------------------
(***************************************************************************)
(* The life of a ride in the Laravel backend: RideController -> RideService*)
(* -> the rides and users tables, with the two scheduled jobs that cancel  *)
(* stale rides.                                                            *)
(*                                                                         *)
(* A worker is a PHP-FPM process or a queue worker and serves one request  *)
(* (or runs one job) at a time.  A step of a worker is one access to the   *)
(* database or the cache and the computation that follows it, up to the    *)
(* next access; what a handler read and still holds in memory is its       *)
(* request record.  A transaction that locks the row it decides on is one  *)
(* step.  PostgreSQL runs at READ COMMITTED, so nothing else is atomic.    *)
(***************************************************************************)
EXTENDS RideStatuses

CONSTANTS Riders, Drivers, Rides, Workers, NoOne, NoRide

ASSUME UsersAssumption == NoOne \notin Riders \cup Drivers
ASSUME RidesAssumption == NoRide \notin Rides

VARIABLES
  status,      \* rides.status
  rider,       \* rides.rider_id
  driver,      \* rides.driver_id
  aged,        \* rides created more than 60 seconds ago while searching
  currentRide, \* users.current_ride_id of the drivers
  online,      \* users.is_online of the drivers
  createLock,  \* the cache key ride_create_lock:{rider}
  req          \* what each worker is doing

rows  == <<status, rider, driver, aged>>
users == <<currentRide, online>>
vars  == <<status, rider, driver, aged, currentRide, online, createLock, req>>

CreateSteps == {"create_put", "create_check", "create_insert", "create_forget"}
RideSteps   == {"accept", "en_route", "arrived", "start", "complete",
                "cancel", "no_show", "free_driver"}
SweepSteps  == {"sweep_pending", "sweep_accepted"}
Steps       == {"idle"} \cup CreateSteps \cup RideSteps \cup SweepSteps

\* A request: the next step of its handler, the user the handler acts for or
\* on, the ride, the status the handler read from the ride, and the rides a
\* job has yet to treat.
Requests == [step : Steps, who : Riders \cup Drivers \cup {NoOne},
             ride : Rides \cup {NoRide}, seen : RowStatus, todo : SUBSET Rides]

Idle == [step |-> "idle", who |-> NoOne, ride |-> NoRide, seen |-> "absent",
         todo |-> {}]

TypeOK == /\ status \in [Rides -> RowStatus]
          /\ rider \in [Rides -> Riders \cup {NoOne}]
          /\ driver \in [Rides -> Drivers \cup {NoOne}]
          /\ aged \subseteq Rides
          /\ currentRide \in [Drivers -> Rides \cup {NoRide}]
          /\ online \in [Drivers -> BOOLEAN]
          /\ createLock \in [Riders -> BOOLEAN]
          /\ req \in [Workers -> Requests]

Init == /\ status = [r \in Rides |-> "absent"]
        /\ rider = [r \in Rides |-> NoOne]
        /\ driver = [r \in Rides |-> NoOne]
        /\ aged = {}
        /\ currentRide = [d \in Drivers |-> NoRide]
        /\ online = [d \in Drivers |-> FALSE]
        /\ createLock = [u \in Riders |-> FALSE]
        /\ req = [w \in Workers |-> Idle]

At(w, step)     == req[w].step = step
Proceed(w, new) == req' = [req EXCEPT ![w] = new]
Goto(w, step)   == Proceed(w, [req[w] EXCEPT !.step = step])
Finish(w)       == Proceed(w, Idle)

\* An idle worker takes a request about ride r for which it will remember who
\* and the status seen.
Take(w, step, who, r, seen) ==
  /\ At(w, "idle")
  /\ Proceed(w, [step |-> step, who |-> who, ride |-> r, seen |-> seen,
                 todo |-> {}])
  /\ UNCHANGED <<rows, users, createLock>>

SetStatus(r, s) == status' = [status EXCEPT ![r] = s]

-----------------------------------------------------------------------------
(* POST /rides: RideService::createRide.  The lock is a cache key that is  *)
(* read and then written, lives ten seconds and is forgotten in `finally`  *)
(* whoever holds it by then.                                               *)

RequestRide(w, u) == ~createLock[u] /\ Take(w, "create_put", u, NoRide, "absent")

PutCreateLock(w) ==
  /\ At(w, "create_put")
  /\ createLock' = [createLock EXCEPT ![req[w].who] = TRUE]
  /\ Goto(w, "create_check")
  /\ UNCHANGED <<rows, users>>

\* A bug: forgets the rides a driver has already accepted.
HasSearchingRide(u) == \E r \in Rides : rider[r] = u /\ status[r] = "searching"

HasActiveRide(u) == \E r \in Rides : rider[r] = u /\ status[r] \in ActiveForRider

CheckNoActiveRide(w) ==
  /\ At(w, "create_check")
  /\ Goto(w, IF HasActiveRide(req[w].who) THEN "create_forget" ELSE "create_insert")
  /\ UNCHANGED <<rows, users, createLock>>

InsertRide(w) ==
  /\ At(w, "create_insert")
  /\ \E r \in Rides : /\ status[r] = "absent"
                      /\ SetStatus(r, "searching")
                      /\ rider' = [rider EXCEPT ![r] = req[w].who]
  /\ Goto(w, "create_forget")
  /\ UNCHANGED <<driver, aged, users, createLock>>

ForgetCreateLock(w) ==
  /\ At(w, "create_forget")
  /\ createLock' = [createLock EXCEPT ![req[w].who] = FALSE]
  /\ Finish(w)
  /\ UNCHANGED <<rows, users>>

\* The key outlives a slow or killed request by its time to live only.
CreateLockExpires(u) == /\ createLock[u]
                        /\ createLock' = [createLock EXCEPT ![u] = FALSE]
                        /\ UNCHANGED <<rows, users, req>>

-----------------------------------------------------------------------------
(* POST /rides/{ride}/accept.  The checks on the driver use the user row   *)
(* read when the request was authenticated; the ride is read again, under  *)
(* a row lock, in the transaction that writes both rows.                   *)

\* A bug: the driver's current ride is not looked at.
RequestAcceptWhileBusy(w, d, r) == /\ status[r] # "absent"
                                   /\ online[d]
                                   /\ Take(w, "accept", d, r, "absent")

RequestAccept(w, d, r) == /\ status[r] # "absent"
                          /\ currentRide[d] = NoRide
                          /\ online[d]
                          /\ Take(w, "accept", d, r, "absent")

\* A bug: the ride is not read again under its lock.
AcceptRideUnlocked(w) ==
  LET r == req[w].ride IN
  /\ At(w, "accept")
  /\ SetStatus(r, "accepted")
  /\ driver' = [driver EXCEPT ![r] = req[w].who]
  /\ currentRide' = [currentRide EXCEPT ![req[w].who] = r]
  /\ Finish(w)
  /\ UNCHANGED <<rider, aged, online, createLock>>

AcceptRide(w) ==
  LET r == req[w].ride IN
  /\ At(w, "accept")
  /\ status[r] = "searching"
  /\ SetStatus(r, "accepted")
  /\ driver' = [driver EXCEPT ![r] = req[w].who]
  /\ currentRide' = [currentRide EXCEPT ![req[w].who] = r]
  /\ Finish(w)
  /\ UNCHANGED <<rider, aged, online, createLock>>

-----------------------------------------------------------------------------
(* The driver's handlers.  The ride is read when the route is bound, its   *)
(* driver and status are checked on that copy, and transitionTo writes the *)
(* new status without looking at the row again.                            *)

RequestArrived(w, r) ==
  /\ driver[r] # NoOne
  /\ status[r] \in {"accepted", "driver_en_route"}
  /\ Take(w, IF status[r] = "accepted" THEN "en_route" ELSE "arrived",
          NoOne, r, "absent")

DriverEnRoute(w) == /\ At(w, "en_route")
                    /\ SetStatus(req[w].ride, "driver_en_route")
                    /\ Goto(w, "arrived")
                    /\ UNCHANGED <<rider, driver, aged, users, createLock>>

DriverArrived(w) == /\ At(w, "arrived")
                    /\ SetStatus(req[w].ride, "arrived")
                    /\ Finish(w)
                    /\ UNCHANGED <<rider, driver, aged, users, createLock>>

RequestStart(w, r) == /\ driver[r] # NoOne
                      /\ status[r] \in {"arrived", "waiting_for_rider"}
                      /\ Take(w, "start", NoOne, r, "absent")

StartRide(w) == /\ At(w, "start")
                /\ SetStatus(req[w].ride, "in_progress")
                /\ Finish(w)
                /\ UNCHANGED <<rider, driver, aged, users, createLock>>

\* completeRide reads the ride again, under a row lock, in its transaction.
RequestComplete(w, r) == driver[r] # NoOne /\ Take(w, "complete", NoOne, r, "absent")

CompleteRide(w) ==
  LET r == req[w].ride IN
  /\ At(w, "complete")
  /\ status[r] = "in_progress"
  /\ SetStatus(r, "completed")
  /\ currentRide' = [currentRide EXCEPT ![driver[r]] = NoRide]
  /\ Finish(w)
  /\ UNCHANGED <<rider, driver, aged, online, createLock>>

\* The locked read of an accept or of a completion found no such row.
RejectRequest(w) ==
  /\ \/ At(w, "accept") /\ status[req[w].ride] # "searching"
     \/ At(w, "complete") /\ status[req[w].ride] # "in_progress"
  /\ Finish(w)
  /\ UNCHANGED <<rows, users, createLock>>

-----------------------------------------------------------------------------
(* Cancellation by the rider or the driver, and the driver's no-show.      *)

\* A bug: a ride is cancelled whatever its status.
RequestCancelAnyStatus(w, r) == /\ status[r] # "absent"
                                /\ Take(w, "cancel", driver[r], r, "absent")

RequestCancel(w, r) == /\ status[r] \in Cancellable
                       /\ Take(w, "cancel", driver[r], r, "absent")

\* A bug: a status the enum does not have.
CancelRideMisspelt(w) ==
  /\ At(w, "cancel")
  /\ SetStatus(req[w].ride, "canceled")
  /\ IF req[w].who = NoOne THEN Finish(w) ELSE Goto(w, "free_driver")
  /\ UNCHANGED <<rider, driver, aged, users, createLock>>

CancelRide(w) ==
  /\ At(w, "cancel")
  /\ SetStatus(req[w].ride, "cancelled")
  /\ IF req[w].who = NoOne THEN Finish(w) ELSE Goto(w, "free_driver")
  /\ UNCHANGED <<rider, driver, aged, users, createLock>>

RequestNoShow(w, r) == /\ driver[r] # NoOne
                       /\ status[r] \in {"accepted", "arrived", "waiting_for_rider"}
                       /\ Take(w, "no_show", driver[r], r, status[r])

\* transitionTo refuses what the table does not list.
MarkNoShow(w) ==
  /\ At(w, "no_show")
  /\ IF CanTransition(req[w].seen, "no_show")
     THEN SetStatus(req[w].ride, "no_show") /\ Goto(w, "free_driver")
     ELSE UNCHANGED status /\ Finish(w)
  /\ UNCHANGED <<rider, driver, aged, users, createLock>>

\* The last statement of both: whatever ride the driver is on, it is freed.
FreeDriver(w) == /\ At(w, "free_driver")
                 /\ currentRide' = [currentRide EXCEPT ![req[w].who] = NoRide]
                 /\ Finish(w)
                 /\ UNCHANGED <<rows, online, createLock>>

-----------------------------------------------------------------------------
(* PUT /driver/status, and the passing of time.                            *)

ToggleOnline(d) == /\ online' = [online EXCEPT ![d] = ~@]
                   /\ UNCHANGED <<rows, currentRide, createLock, req>>

Age(r) == /\ status[r] = "searching" /\ r \notin aged
          /\ aged' = aged \cup {r}
          /\ UNCHANGED <<status, rider, driver, users, createLock, req>>

-----------------------------------------------------------------------------
(* The scheduler.  rides:expire-stale is one UPDATE statement, every thirty*)
(* seconds.  CleanupStaleRidesJob lists the rides to cancel, then cancels  *)
(* them one by one from the copies it listed; which of the rides old       *)
(* enough to be aged have reached its own, longer limits is left open.     *)

\* A bug: leaves out the rides some driver is accepting at the moment.
ExpireUnclaimedRides ==
  LET stale == {r \in aged : /\ status[r] = "searching"
                             /\ ~\E w \in Workers : At(w, "accept") /\ req[w].ride = r} IN
  /\ stale # {}
  /\ status' = [r \in Rides |-> IF r \in stale THEN "cancelled" ELSE status[r]]
  /\ UNCHANGED <<rider, driver, aged, users, createLock, req>>

ExpireStaleRides ==
  LET stale == {r \in aged : status[r] = "searching"} IN
  /\ stale # {}
  /\ status' = [r \in Rides |-> IF r \in stale THEN "cancelled" ELSE status[r]]
  /\ UNCHANGED <<rider, driver, aged, users, createLock, req>>

ListStale(w, step, candidates) ==
  /\ \E S \in SUBSET candidates : Proceed(w, [Idle EXCEPT !.step = step, !.todo = S])
  /\ UNCHANGED <<rows, users, createLock>>

StartCleanup(w) == /\ At(w, "idle")
                   /\ ListStale(w, "sweep_pending", {r \in aged : status[r] = "searching"})

ListStaleAccepted(w) ==
  /\ At(w, "sweep_pending") /\ req[w].todo = {}
  /\ ListStale(w, "sweep_accepted", {r \in Rides : status[r] = "accepted"})

\* A bug: the job also takes the ride away from its driver.
CancelStaleUnassigning(w) ==
  /\ req[w].step \in SweepSteps
  /\ \E r \in req[w].todo : /\ SetStatus(r, "cancelled")
                            /\ driver' = [driver EXCEPT ![r] = NoOne]
                            /\ Proceed(w, [req[w] EXCEPT !.todo = @ \ {r}])
  /\ UNCHANGED <<rider, aged, users, createLock>>

CancelStale(w) ==
  /\ req[w].step \in SweepSteps
  /\ \E r \in req[w].todo : /\ SetStatus(r, "cancelled")
                            /\ Proceed(w, [req[w] EXCEPT !.todo = @ \ {r}])
  /\ UNCHANGED <<rider, driver, aged, users, createLock>>

EndCleanup(w) == /\ At(w, "sweep_accepted") /\ req[w].todo = {}
                 /\ Finish(w)
                 /\ UNCHANGED <<rows, users, createLock>>

-----------------------------------------------------------------------------
\* A worker dies, its database connection drops, or the rest of the handler
\* throws: what was written stays.
Crash(w) == ~At(w, "idle") /\ Finish(w) /\ UNCHANGED <<rows, users, createLock>>

Begin(w) == \/ \E u \in Riders : RequestRide(w, u)
            \/ \E d \in Drivers, r \in Rides : RequestAccept(w, d, r)
            \/ \E r \in Rides : \/ RequestArrived(w, r) \/ RequestStart(w, r)
                                \/ RequestComplete(w, r) \/ RequestCancel(w, r)
                                \/ RequestNoShow(w, r)
            \/ StartCleanup(w)

Continue(w) == \/ PutCreateLock(w) \/ CheckNoActiveRide(w) \/ InsertRide(w)
               \/ ForgetCreateLock(w) \/ AcceptRide(w) \/ DriverEnRoute(w)
               \/ DriverArrived(w) \/ StartRide(w) \/ CompleteRide(w)
               \/ RejectRequest(w) \/ CancelRide(w) \/ MarkNoShow(w)
               \/ FreeDriver(w) \/ ListStaleAccepted(w) \/ CancelStale(w)
               \/ EndCleanup(w)

Environment == \/ \E u \in Riders : CreateLockExpires(u)
               \/ \E d \in Drivers : ToggleOnline(d)
               \/ \E r \in Rides : Age(r)
               \/ ExpireStaleRides

Next == \/ \E w \in Workers : Begin(w) \/ Continue(w) \/ Crash(w)
        \/ Environment

Spec == Init /\ [][Next]_vars

\* The same system while every request and job runs to its end.
NextWithoutCrash == \/ \E w \in Workers : Begin(w) \/ Continue(w)
                    \/ Environment

CrashFreeSpec == Init /\ [][NextWithoutCrash]_vars

\* The scheduler runs rides:expire-stale for ever and time passes.
SchedulerFairness == /\ WF_vars(ExpireStaleRides)
                     /\ \A r \in Rides : WF_vars(Age(r))

FairSpec == Spec /\ SchedulerFairness

-----------------------------------------------------------------------------
(* Properties that hold whatever the requests and jobs in flight.          *)

\* A ride that is under way, or was completed, has a driver: the handlers that
\* write these statuses without looking at the row again only ever act on a
\* ride that some driver had accepted when it was read.
RideHasDriver ==
  \A r \in Rides : status[r] \in WithDriver \cup {"completed"} => driver[r] # NoOne

\* users.current_ride_id and rides.driver_id agree: a driver is only ever held
\* by a ride that is his own, so a location update or a message sent through
\* the pointer reaches the right ride.
PointerBacked ==
  \A d \in Drivers : currentRide[d] # NoRide => driver[currentRide[d]] = d

\* First to accept wins, for good: no later accept, job or stale handler ever
\* gives an accepted ride to another driver or takes it away.
DriverChosenOnce ==
  [][\A r \in Rides : driver[r] # NoOne => driver'[r] = driver[r]]_vars

\* A ride cancelled before any driver took it stays cancelled and driverless,
\* although accepts and cancellations of it may still be in flight.
DriverlessCancelIsFinal ==
  [][\A r \in Rides : status[r] = "cancelled" /\ driver[r] = NoOne
                        => status'[r] = "cancelled" /\ driver'[r] = NoOne]_vars

\* No request searches for ever: it is accepted or cancelled, even if no web
\* worker ever finishes another request.
SearchEnds ==
  \A r \in Rides : status[r] = "searching" ~> status[r] # "searching"

-----------------------------------------------------------------------------
(* Properties of one worker beside the scheduler, where requests and jobs  *)
(* do not overlap each other.                                              *)

Abstract == INSTANCE RideStatusMachine

\* The service implements the abstract status machine.
FollowsStatusMachine == Abstract!Spec

\* validateRiderCanRequestRide: a rider waits for or sits in one ride.
OneActiveRidePerRider ==
  \A r1, r2 \in {r \in Rides : status[r] \in ActiveForRider} :
    rider[r1] = rider[r2] => r1 = r2

\* acceptRide's check of current_ride_id: a driver serves one ride.
OneActiveRidePerDriver ==
  \A r1, r2 \in {r \in Rides : status[r] \in WithDriver} :
    driver[r1] = driver[r2] => r1 = r2

-----------------------------------------------------------------------------
(* What the documents say and the code does not do.                        *)

\* A completed, cancelled or no-show ride never changes status again.
TerminalIsFinal ==
  [][\A r \in Rides : status[r] \in Terminal => status'[r] = status[r]]_vars
=============================================================================
