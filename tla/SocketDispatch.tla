--------------------------- MODULE SocketDispatch ---------------------------
(***************************************************************************)
(* The ride events of the socket server (socket-server/src/handlers/       *)
(* ride.js) and the keys they share in Redis (middleware/authorize.js):    *)
(* ride:pending, ride:claim and ride:info.  Handlers are asynchronous: a   *)
(* step is one call of Redis or of the API and what is computed from its   *)
(* answer.  The API is modelled by its effect on the row of the ride, of   *)
(* which RideLifecycle is the detailed model: a request that takes no lock *)
(* checks the row in one step and writes it in a later one.                *)
(*                                                                         *)
(* pending[r]   whether ride:pending:r exists                              *)
(* claim[r]     the driver in ride:claim:r                                 *)
(* info[r]      the hash ride:info:r, rider: whether rider_id is set       *)
(* announced[r] the drivers named to the rider in ride:accepted (history)  *)
(* upset[r]     what went wrong around the claims of r (history)           *)
(***************************************************************************)
EXTENDS Naturals, FiniteSets

CONSTANTS Drivers, Rider, Rides, Handlers, None,
          MaxEvents,  \* bounds of a run: events received, and
          MaxFaults   \* errors of Redis, lost answers and crashes

ASSUME ConstantsAssumption ==
  /\ Rider \notin Drivers
  /\ None \notin Drivers \cup {Rider}
  /\ MaxEvents \in Nat
  /\ MaxFaults \in Nat

VARIABLES row, pending, claim, info, handler, announced, upset, events, faults

vars == <<row, pending, claim, info, handler, announced, upset, events, faults>>

Users == Drivers \cup {Rider}
RowStatus == {"searching", "accepted", "arrived", "in_progress", "completed", "cancelled"}
Ended == {"completed", "cancelled"}
InfoStatus == {"none", "pending", "claimed", "in_progress", "completed", "cancelled"}
Moves == {"start", "complete", "cancel"}
Event == {"none", "book", "accept", "arrived"} \cup Moves
Steps == {"idle", "claim", "book", "offer", "check", "lookup", "record", "call", "write",
          "withdraw", "release", "clear", "reset"}
Upsets == {"expired", "late", "overtaken", "fault"}

Idle == [step |-> "idle", event |-> "none", user |-> None, ride |-> None]

TypeOK ==
  /\ row \in [Rides -> [status : RowStatus, driver : Drivers \cup {None}]]
  /\ pending \in [Rides -> BOOLEAN]
  /\ claim \in [Rides -> Drivers \cup {None}]
  /\ info \in [Rides -> [rider : BOOLEAN, driver : Drivers \cup {None}, status : InfoStatus]]
  /\ handler \in [Handlers -> {Idle} \cup
        [step : Steps, event : Event, user : Users, ride : Rides]]
  /\ announced \in [Rides -> SUBSET Drivers]
  /\ upset \in [Rides -> SUBSET Upsets]
  /\ events \in 0..MaxEvents
  /\ faults \in 0..MaxFaults

\* A ride the rider created over REST and whose drivers the relay may have told.
Init ==
  /\ row = [r \in Rides |-> [status |-> "searching", driver |-> None]]
  /\ pending = [r \in Rides |-> FALSE]
  /\ claim = [r \in Rides |-> None]
  /\ info = [r \in Rides |-> [rider |-> FALSE, driver |-> None, status |-> "none"]]
  /\ handler = [h \in Handlers |-> Idle]
  /\ announced = [r \in Rides |-> {}]
  /\ upset = [r \in Rides |-> {}]
  /\ events = 0
  /\ faults = 0

At(h, step, kinds) == handler[h].step = step /\ handler[h].event \in kinds

Goto(h, step) == handler' = [handler EXCEPT ![h].step = step]
Done(h) == handler' = [handler EXCEPT ![h] = Idle]

Upset(r, reasons) == upset' = [upset EXCEPT ![r] = @ \cup reasons]

Fault == faults < MaxFaults /\ faults' = faults + 1

\* The accepts of r that hold their claim: granted, and not yet given up or finished.
Holders(r) == {h \in Handlers : /\ handler[h].ride = r
                                /\ handler[h].event = "accept"
                                /\ handler[h].step \in {"record", "call", "withdraw", "release"}}

\* The accepts of r that were granted a claim and have not ended.
Accepting(r) == Holders(r) \cup {h \in Handlers : /\ handler[h].ride = r
                                                  /\ handler[h].step \in {"clear", "reset"}}

-----------------------------------------------------------------------------
(* Receipt of an event, with the checks on its payload and the role. *)

Receive(h, event, u, r, step) ==
  /\ events < MaxEvents
  /\ events' = events + 1
  /\ handler[h] = Idle
  /\ handler' = [handler EXCEPT ![h] = [step |-> step, event |-> event, user |-> u, ride |-> r]]
  /\ UNCHANGED <<row, pending, claim, info, announced, upset, faults>>

ReceiveBook(h, r) == Receive(h, "book", Rider, r, "book")
ReceiveAccept(h, d, r) == Receive(h, "accept", d, r, "claim")
ReceiveArrived(h, d, r) == Receive(h, "arrived", d, r, "check")
ReceiveMove(h, u, r) == \E event \in Moves : Receive(h, event, u, r, "check")

Recorded == [start |-> "in_progress", complete |-> "completed", cancel |-> "cancelled"]

\* updateRideInfo: the hset of a handler at this step.  Its expire follows.
UpdateHash(h) ==
  LET r == handler[h].ride IN
  \/ /\ At(h, "book", {"book"})
     /\ info' = [info EXCEPT ![r].rider = TRUE, ![r].status = "pending"]
  \/ /\ At(h, "record", {"accept"})
     /\ info' = [info EXCEPT ![r].driver = handler[h].user, ![r].status = "claimed"]
  \/ /\ At(h, "record", Moves)
     /\ info' = [info EXCEPT ![r].status = Recorded[handler[h].event]]
  \/ /\ At(h, "reset", {"accept"})
     /\ info' = [info EXCEPT ![r].status = "pending"]

(* rider:book-ride *)

CreateRideInfo(h) ==
  /\ At(h, "book", {"book"})
  /\ UpdateHash(h)
  /\ Goto(h, "offer")
  /\ UNCHANGED <<row, pending, claim, announced, upset, events, faults>>

OfferRide(h) ==
  /\ At(h, "offer", {"book"})
  /\ pending' = [pending EXCEPT ![handler[h].ride] = TRUE]
  /\ Done(h)
  /\ UNCHANGED <<row, claim, info, announced, upset, events, faults>>

(* driver:accept-ride *)

\* A bug: The claim is set without NX.
ClaimRideAlways(h) ==
  LET r == handler[h].ride IN
  /\ At(h, "claim", {"accept"})
  /\ claim' = [claim EXCEPT ![r] = handler[h].user]
  /\ Goto(h, "record")
  /\ UNCHANGED <<row, pending, info, announced, upset, events, faults>>

ClaimRide(h) ==
  LET r == handler[h].ride IN
  /\ At(h, "claim", {"accept"})
  /\ claim[r] = None
  /\ claim' = [claim EXCEPT ![r] = handler[h].user]
  /\ Upset(r, {u \in {"late"} : row[r].driver # None}
              \cup {u \in {"overtaken"} : Accepting(r) # {}})
  /\ Goto(h, "record")
  /\ UNCHANGED <<row, pending, info, announced, events, faults>>

RefuseClaim(h) ==
  /\ At(h, "claim", {"accept"})
  /\ claim[handler[h].ride] # None
  /\ Done(h)
  /\ UNCHANGED <<row, pending, claim, info, announced, upset, events, faults>>

\* A bug: The driver is announced before the API has answered.
RecordClaimAnnounced(h) ==
  LET r == handler[h].ride IN
  /\ At(h, "record", {"accept"})
  /\ info' = [info EXCEPT ![r].driver = handler[h].user, ![r].status = "claimed"]
  /\ announced' = [announced EXCEPT ![r] = @ \cup {handler[h].user}]
  /\ Goto(h, "call")
  /\ UNCHANGED <<row, pending, claim, upset, events, faults>>

RecordClaim(h) ==
  /\ At(h, "record", {"accept"})
  /\ UpdateHash(h)
  /\ Goto(h, "call")
  /\ UNCHANGED <<row, pending, claim, announced, upset, events, faults>>

AnnounceDriver(h) ==
  LET r == handler[h].ride IN
  /\ At(h, "withdraw", {"accept"})
  /\ pending' = [pending EXCEPT ![r] = FALSE]
  /\ announced' = [announced EXCEPT ![r] = @ \cup {handler[h].user}]
  /\ Done(h)
  /\ UNCHANGED <<row, claim, info, upset, events, faults>>

\* A bug: The key is emptied where it should be deleted.
ReleaseClaimBadly(h) ==
  /\ At(h, "release", {"accept"})
  /\ claim' = [claim EXCEPT ![handler[h].ride] = ""]
  /\ Goto(h, "clear")
  /\ UNCHANGED <<row, pending, info, announced, upset, events, faults>>

ReleaseClaim(h) ==
  /\ At(h, "release", {"accept"})
  /\ claim' = [claim EXCEPT ![handler[h].ride] = None]
  /\ Goto(h, "clear")
  /\ UNCHANGED <<row, pending, info, announced, upset, events, faults>>

\* A bug: The driver of a refused accept stays in the hash.
ClearNothing(h) ==
  /\ At(h, "clear", {"accept"})
  /\ Goto(h, "reset")
  /\ UNCHANGED <<row, pending, claim, info, announced, upset, events, faults>>

ClearRideDriver(h) ==
  /\ At(h, "clear", {"accept"})
  /\ info' = [info EXCEPT ![handler[h].ride].driver = None]
  /\ Goto(h, "reset")
  /\ UNCHANGED <<row, pending, claim, announced, upset, events, faults>>

ResetStatus(h) ==
  /\ At(h, "reset", {"accept"})
  /\ UpdateHash(h)
  /\ Done(h)
  /\ UNCHANGED <<row, pending, claim, announced, upset, events, faults>>

(* driver:arrived, ride:start, ride:complete, ride:cancel *)

\* isParticipant: the hash decides if it names the rider, the keys if it does not.
Decide(h, participates) ==
  IF participates
  THEN Goto(h, IF handler[h].event \in Moves THEN "record" ELSE "call")
  ELSE Done(h)

CheckParticipant(h) ==
  LET r == handler[h].ride IN
  /\ At(h, "check", {"arrived"} \cup Moves)
  /\ IF info[r].rider
     THEN Decide(h, handler[h].user \in {Rider, info[r].driver})
     ELSE Goto(h, "lookup")
  /\ UNCHANGED <<row, pending, claim, info, announced, upset, events, faults>>

LookUpParticipant(h) ==
  LET r == handler[h].ride IN
  /\ At(h, "lookup", {"arrived"} \cup Moves)
  /\ Decide(h, handler[h].user = claim[r] \/ (handler[h].user = Rider /\ pending[r]))
  /\ UNCHANGED <<row, pending, claim, info, announced, upset, events, faults>>

\* The status is written before the API is asked and stays if the API refuses.
RecordMove(h) ==
  /\ At(h, "record", Moves)
  /\ UpdateHash(h)
  /\ Goto(h, "call")
  /\ UNCHANGED <<row, pending, claim, announced, upset, events, faults>>

WithdrawOffer(h) ==
  /\ At(h, "withdraw", {"cancel"})
  /\ pending' = [pending EXCEPT ![handler[h].ride] = FALSE]
  /\ Done(h)
  /\ UNCHANGED <<row, claim, info, announced, upset, events, faults>>
-----------------------------------------------------------------------------
(* The API, at the row of the ride. *)

\* What the API requires of the row of a ride for a request of user u.  The two
\* writes of an arrival (driver_en_route, driver_arrived) are one here: the API
\* allows at driver_en_route what it allows at accepted.
Accepts(r) == row[r].status = "searching" /\ row[r].driver = None

Allows(event, u, r) ==
  \/ event = "accept" /\ Accepts(r)
  \/ event = "arrived" /\ u = row[r].driver /\ row[r].status = "accepted"
  \/ event = "start" /\ u = row[r].driver /\ row[r].status = "arrived"
  \/ event = "complete" /\ u = row[r].driver /\ row[r].status = "in_progress"
  \/ event = "cancel" /\ u \in {Rider, row[r].driver} /\ row[r].status \notin Ended

StatusAfter == [accept |-> "accepted", arrived |-> "arrived", start |-> "in_progress",
                complete |-> "completed", cancel |-> "cancelled"]

Apply(event, u, r) ==
  row' = [row EXCEPT ![r] = [status |-> StatusAfter[event],
                             driver |-> IF event = "accept" THEN u ELSE @.driver]]

\* The requests that check the row again under its lock, where they write it.
Locked == {"accept", "complete"}

\* The API is to write the row for h: at once where it holds the lock, else on
\* the strength of what it read earlier, whatever the row holds by now.
Serves(h) ==
  \/ /\ handler[h].step = "call"
     /\ handler[h].event \in Locked
     /\ Allows(handler[h].event, handler[h].user, handler[h].ride)
  \/ handler[h].step = "write"

ApiReads(h) ==
  /\ handler[h].step = "call"
  /\ handler[h].event \notin Locked
  /\ Allows(handler[h].event, handler[h].user, handler[h].ride)
  /\ Goto(h, "write")
  /\ UNCHANGED <<row, pending, claim, info, announced, upset, events, faults>>

\* callApi, answered with success.
ApiAccepts(h) ==
  LET e == handler[h].event IN
  /\ Serves(h)
  /\ Apply(e, handler[h].user, handler[h].ride)
  /\ IF e \in {"accept", "cancel"} THEN Goto(h, "withdraw") ELSE Done(h)
  /\ UNCHANGED <<pending, claim, info, announced, upset, events, faults>>

\* What a handler does without a success: an accept gives its claim up, the others end.
GiveUp(h) == IF handler[h].event = "accept" THEN Goto(h, "release") ELSE Done(h)

\* callApi, answered with an error.  A driver may be refused for what he is
\* (suspended, busy, not approved) whatever the state of the ride.
ApiRefuses(h) ==
  LET e == handler[h].event IN
  /\ handler[h].step = "call"
  /\ e = "accept" \/ ~Allows(e, handler[h].user, handler[h].ride)
  /\ GiveUp(h)
  /\ UNCHANGED <<row, pending, claim, info, announced, upset, events, faults>>

\* callApi without an answer: the request was lost, or served and its answer lost.
LoseRequest(h) ==
  /\ Fault
  /\ handler[h].step \in {"call", "write"}
  /\ GiveUp(h)
  /\ UNCHANGED <<row, pending, claim, info, announced, upset, events>>

LoseAnswer(h) ==
  /\ Fault
  /\ Serves(h)
  /\ Apply(handler[h].event, handler[h].user, handler[h].ride)
  /\ GiveUp(h)
  /\ Upset(handler[h].ride, {"fault"})
  /\ UNCHANGED <<pending, claim, info, announced, events>>

\* A cancellation over REST or by a job, of which the socket server learns
\* nothing.  It may have read the row before the ride was completed.
EndOverRest(r) ==
  /\ row[r].status # "cancelled"
  /\ row' = [row EXCEPT ![r].status = "cancelled"]
  /\ UNCHANGED <<pending, claim, info, handler, announced, upset, events, faults>>

-----------------------------------------------------------------------------
(* Expiry of keys, errors of Redis and crashes of the process. *)

\* 30 seconds after the claim, whatever its handler is doing: nothing renews the key.
ClaimExpires(r) ==
  /\ claim[r] # None
  /\ claim' = [claim EXCEPT ![r] = None]
  /\ Upset(r, {u \in {"expired"} : Holders(r) # {}})
  /\ UNCHANGED <<row, pending, info, handler, announced, events, faults>>

\* 300 seconds after the booking.
OfferExpires(r) ==
  /\ pending[r]
  /\ pending' = [pending EXCEPT ![r] = FALSE]
  /\ UNCHANGED <<row, claim, info, handler, announced, upset, events, faults>>

\* A call of Redis throws and the catch around the handler ends it.  Where an
\* expire follows a write, the write may be done.
RedisThrows(h) ==
  /\ Fault
  /\ \/ handler[h].step \in {"claim", "book", "offer", "check", "lookup", "record"}
     \/ At(h, "withdraw", {"cancel"})
  /\ Done(h)
  /\ Upset(handler[h].ride, {u \in {"fault"} : h \in Holders(handler[h].ride)})
  /\ \/ UNCHANGED <<pending, info>>
     \/ UpdateHash(h) /\ UNCHANGED pending
     \/ /\ At(h, "offer", {"book"})
        /\ pending' = [pending EXCEPT ![handler[h].ride] = TRUE]
        /\ UNCHANGED info
  /\ UNCHANGED <<row, claim, announced, events>>

\* A call of Redis fails where its error is caught on the spot and the handler goes on.
WithdrawFails(h) ==
  LET r == handler[h].ride IN
  /\ Fault
  /\ At(h, "withdraw", {"accept"})
  /\ announced' = [announced EXCEPT ![r] = @ \cup {handler[h].user}]
  /\ Done(h)
  /\ UNCHANGED <<row, pending, claim, info, upset, events>>

CleanupFails(h) ==
  /\ Fault
  /\ handler[h].step \in {"release", "clear", "reset"}
  /\ IF handler[h].step = "release" THEN Goto(h, "clear") ELSE Done(h)
  /\ Upset(handler[h].ride, {"fault"})
  /\ UNCHANGED info \/ (At(h, "reset", {"accept"}) /\ UpdateHash(h))
  /\ UNCHANGED <<row, pending, claim, announced, events>>

\* The process dies with all its handlers; a request it sent is served or not.
Crash ==
  /\ Fault
  /\ handler' = [h \in Handlers |-> Idle]
  /\ upset' = [r \in Rides |-> upset[r] \cup {u \in {"fault"} : Accepting(r) # {}}]
  /\ UNCHANGED <<pending, claim, info, announced, events>>
  /\ \/ UNCHANGED row
     \/ \E h \in Handlers :
          /\ Serves(h)
          /\ Apply(handler[h].event, handler[h].user, handler[h].ride)
-----------------------------------------------------------------------------
AcceptStep(h) ==
  \/ ClaimRide(h) \/ RefuseClaim(h) \/ RecordClaim(h)
  \/ AnnounceDriver(h) \/ ReleaseClaim(h) \/ ClearRideDriver(h) \/ ResetStatus(h)

OtherStep(h) ==
  \/ CreateRideInfo(h) \/ OfferRide(h)
  \/ CheckParticipant(h) \/ LookUpParticipant(h) \/ RecordMove(h) \/ WithdrawOffer(h)

ApiStep(h) == ApiReads(h) \/ ApiAccepts(h) \/ ApiRefuses(h) \/ LoseRequest(h) \/ LoseAnswer(h)

FailStep(h) == RedisThrows(h) \/ WithdrawFails(h) \/ CleanupFails(h)

ReceiveStep(h) ==
  \E r \in Rides :
    \/ ReceiveBook(h, r)
    \/ \E d \in Drivers : ReceiveAccept(h, d, r) \/ ReceiveArrived(h, d, r)
    \/ \E u \in Users : ReceiveMove(h, u, r)

Next ==
  \/ \E h \in Handlers :
       ReceiveStep(h) \/ AcceptStep(h) \/ OtherStep(h) \/ ApiStep(h) \/ FailStep(h)
  \/ \E r \in Rides : EndOverRest(r) \/ ClaimExpires(r) \/ OfferExpires(r)
  \/ Crash

Spec == Init /\ [][Next]_vars

-----------------------------------------------------------------------------
(* Properties. *)

\* ride:accepted, the event that shows the rider who is coming, names only the
\* driver the API gave the ride to: lost answers, expired claims, refused
\* accepts and crashes may leave him unannounced but never announce another.
AnnouncedIsTheDriver == \A r \in Rides : announced[r] \subseteq {row[r].driver}

\* While no claim outlived its 30 seconds before its accept was settled, at
\* most one accept of a ride is between its claim and its outcome, so the API
\* is asked for one driver at a time.
OneClaimer == \A r \in Rides : "expired" \notin upset[r] => Cardinality(Holders(r)) <= 1

\* Unless a call of Redis failed or the process died, a claim belongs to the
\* driver of the ride or to an accept still at work: no refused or abandoned
\* accept keeps the ride from the other drivers.
ClaimIsHeld ==
  \A r \in Rides : claim[r] # None /\ "fault" \notin upset[r] =>
    \/ row[r].driver = claim[r]
    \/ \E h \in Holders(r) : handler[h].user = claim[r]

\* When the accepts of a ride are over and none of them was disturbed (by a
\* fault, an expiry under way, a claim granted during a clean-up or after the
\* ride was taken), the driver whom ride:info lets act is the driver of the ride.
ParticipantAgrees ==
  \A r \in Rides : upset[r] = {} /\ Accepting(r) = {} => info[r].driver = row[r].driver

\* The same without regard to what disturbed the accepts: a driver announced to
\* the rider may act on the ride.  It is what the hash is documented to track.
InfoTracksDriver ==
  \A r \in Rides : announced[r] # {} /\ Accepting(r) = {} => info[r].driver \in announced[r]
=============================================================================
