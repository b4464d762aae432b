----------------------------- MODULE RideScreens -----------------------------
(***************************************************************************)
(* One ride as its two people see it: the rider on RideTrackingScreen, the *)
(* driver on ActiveRideScreen, the socket server and the row between them. *)
(* The rider's screen polls the API and hears events; the driver's screen  *)
(* goes ahead of the server: it sends an event and shows the next phase.   *)
(* Each screen has a socket of its own (SocketHook is the detailed model). *)
(* The ride service is there at the grain of its writes: an arrival, a     *)
(* start and a cancellation write what an earlier look at the row allowed, *)
(* whatever has become of it; the others hold its lock.                    *)
(*                                                                         *)
(* row      the status, whether this driver was given the ride, and        *)
(*          whether completed_at is set                                    *)
(* event    how far each event the driver sends has come: queued in the    *)
(*          hook, sent (a handler is at work), checked (by the API, not    *)
(*          yet written), moving (half written), served (by the API, not   *)
(*          yet announced), over                                           *)
(* tracking the rider's screen: shown is rideState, modal showCompletion   *)
(* reads    its loadRide calls on their way, asked or answered; two that   *)
(*          are alike count as one                                         *)
(* cancel   the rider's cancellation                                       *)
(* active   the driver's screen; told: it has said "Ride Completed"        *)
(* load     the loadRide call of the driver's screen                       *)
(* linked   the screens whose socket is connected                          *)
(* inbox    the events on their way to each screen that do more than make  *)
(*          it load the ride, as a poll does                               *)
(* room     the sockets in the room of the ride: the screen they belong to *)
(* upset    what else can put the driver's screen out of step (history)    *)
(***************************************************************************)
EXTENDS Naturals, FiniteSets, RideStatuses

CONSTANTS MaxReads,  \* bounds of a run: reads of the rider's screen under way, and
          MaxFaults  \* failures of the network, of the API and of Redis

ASSUME BoundsAssumption == MaxReads \in Nat \ {0} /\ MaxFaults \in Nat

VARIABLES row, event, tracking, reads, cancel, active, load, linked, inbox, room, upset, faults

server == <<row, event, room>>
rider == <<tracking, reads, cancel>>
driver == <<active, load>>
vars == <<row, event, tracking, reads, cancel, active, load, linked, inbox, room, upset, faults>>

Events == {"accept", "arrived", "start", "complete"}
Screens == {"tracking", "active"}

TypeOK ==
  /\ row \in [status : Status, mine : BOOLEAN, completed : BOOLEAN]
  /\ event \in [Events -> {"none", "queued", "sent", "checked", "moving", "served", "over"}]
  /\ tracking \in [open : BOOLEAN, shown : Status, modal : BOOLEAN]
  /\ reads \in SUBSET (Status \cup {"asked"})
  /\ cancel \in {"none", "asked", "checked", "done", "refused"}
  /\ active \in [screen : {"off", "loading", "error", "ready", "left"},
                 phase : {"to_pickup", "arrived", "in_progress"}, told : BOOLEAN]
  /\ load \in Status \cup {"none", "asked", "forbidden"}
  /\ linked \subseteq Screens
  /\ inbox \in [Screens -> SUBSET {"completed", "cancelled"}]
  /\ room \subseteq Screens \cup {"requests"}
  /\ upset \subseteq {"overtaken", "dropped"}
  /\ faults \in 0..MaxFaults

\* The rider has booked and opened the screen; the driver sees the offer.
Init ==
  /\ row = [status |-> "searching", mine |-> FALSE, completed |-> FALSE]
  /\ event = [e \in Events |-> "none"]
  /\ tracking = [open |-> TRUE, shown |-> "searching", modal |-> FALSE]
  /\ reads = {"asked"}
  /\ cancel = "none"
  /\ active = [screen |-> "off", phase |-> "to_pickup", told |-> FALSE]
  /\ load = "none"
  /\ linked = {} /\ inbox = [s \in Screens |-> {}] /\ room = {}
  /\ upset = {} /\ faults = 0

Fault == faults < MaxFaults /\ faults' = faults + 1

\* An event to the screens in S whose sockets are there to hear it.
Tell(S, e) == inbox' = [s \in Screens |-> inbox[s] \cup {x \in {e} : s \in S \cap linked}]

-----------------------------------------------------------------------------
(* The driver's screen. *)

\* RideRequestsScreen accepts on a socket of its own and opens ActiveRideScreen at once.
Accept ==
  /\ active.screen = "off"
  /\ active' = [active EXCEPT !.screen = "loading"]
  /\ event' = [event EXCEPT !["accept"] = "sent"]
  /\ load' = "asked"
  /\ UNCHANGED <<row, room, rider, linked, inbox, upset, faults>>

LoadAnswered ==
  /\ load = "asked"
  /\ load' = IF row.mine THEN row.status ELSE "forbidden"
  /\ UNCHANGED <<server, rider, active, linked, inbox, upset, faults>>

\* A bug: The phase is set to whatever the answer says.
LoadedBlindly ==
  /\ load \notin {"none", "asked"}
  /\ load' = "none"
  /\ active' = IF load = "forbidden" THEN [active EXCEPT !.screen = "error"]
                                     ELSE [active EXCEPT !.screen = "ready", !.phase = load]
  /\ UNCHANGED <<server, rider, linked, inbox, upset, faults>>

\* The phase follows the answer only when it is one of two statuses.  The screen
\* would load the ride again on ride:started, which goes to the rider's user room
\* and to the room of the ride, and its socket is in neither.
Loaded ==
  /\ load \notin {"none", "asked"}
  /\ load' = "none"
  /\ active' = CASE load = "forbidden" -> [active EXCEPT !.screen = "error"]
                 [] load \in {"arrived", "in_progress"} ->
                      [active EXCEPT !.screen = "ready", !.phase = load]
                 [] OTHER -> [active EXCEPT !.screen = "ready"]
  /\ UNCHANGED <<server, rider, linked, inbox, upset, faults>>

RetryLoad ==
  /\ active.screen = "error"
  /\ active' = [active EXCEPT !.screen = "loading"]
  /\ load' = "asked"
  /\ UNCHANGED <<server, rider, linked, inbox, upset, faults>>

LoadFails ==
  /\ Fault
  /\ load # "none"
  /\ load' = "none"
  /\ active' = [active EXCEPT !.screen = "error"]
  /\ UNCHANGED <<server, rider, linked, inbox, upset>>

\* A bug: An event is not kept when the socket is not connected.
EmitDropped(e) == event' = [event EXCEPT ![e] = IF "active" \in linked THEN "sent" ELSE "over"]

\* emit of the hook.
Emit(e) == event' = [event EXCEPT ![e] = IF "active" \in linked THEN "sent" ELSE "queued"]

\* A button: its event is sent and the next phase is shown, without an answer.
Press(phase, e, next) ==
  /\ active.screen = "ready" /\ active.phase = phase /\ ~active.told
  /\ Emit(e)
  /\ active' = next
  /\ UNCHANGED <<row, room, rider, load, linked, inbox, upset, faults>>

MarkArrived == Press("to_pickup", "arrived", [active EXCEPT !.phase = "arrived"])
StartTrip == Press("arrived", "start", [active EXCEPT !.phase = "in_progress"])
CompleteTrip == Press("in_progress", "complete", [active EXCEPT !.told = TRUE])

\* The screen is left: after the message, by the back button, by "Cancel Ride", which sends
\* nothing, or on ride:cancelled.  What the hook had queued goes with it.
LeaveActive ==
  /\ active.screen \in {"loading", "error", "ready"}
  /\ active' = [screen |-> "left", phase |-> "to_pickup", told |-> FALSE]
  /\ load' = "none"
  /\ event' = [e \in Events |-> IF event[e] = "queued" THEN "over" ELSE event[e]]
  /\ upset' = upset \cup {u \in {"dropped"} : \E e \in Events : event[e] = "queued"}
  /\ linked' = linked \ {"active"}
  /\ inbox' = [inbox EXCEPT !["active"] = {}]
  /\ room' = room \ {"active"}
  /\ UNCHANGED <<row, rider, faults>>

HearActive == "cancelled" \in inbox["active"] /\ LeaveActive

-----------------------------------------------------------------------------
(* The socket server and the API. *)

Before == [accept |-> {}, arrived |-> {"accept"}, start |-> {"accept", "arrived"},
           complete |-> {"accept", "arrived", "start"}]

\* Handlers run side by side, so an event may be served before those sent ahead of it.
Overtakes(e) ==
  upset' = upset \cup {u \in {"overtaken"} :
                        \E b \in Before[e] : event[b] \in {"queued", "sent", "checked", "moving"}}

Progress(e, s) == event' = [event EXCEPT ![e] = s]

\* The statuses at which the API takes an event.
Takes == [accept |-> {"searching"}, arrived |-> {"accepted", "driver_en_route"},
          start |-> {"arrived", "waiting_for_rider"}, complete |-> {"in_progress"}]

\* driverArrived and startRide look at the row without a lock ...
Check(e) ==
  /\ e \in {"arrived", "start"} /\ event[e] = "sent"
  /\ row.mine /\ row.status \in Takes[e]
  /\ Progress(e, IF row.status = "driver_en_route" THEN "moving" ELSE "checked")
  /\ Overtakes(e)
  /\ UNCHANGED row

\* ... and transitionTo writes by what they saw.
Write(e, from, status, to) ==
  /\ event[e] = from
  /\ row' = [row EXCEPT !.status = status]
  /\ Progress(e, to)
  /\ UNCHANGED upset

\* driverArrived writes twice.  What is announced of an arrival or a start only makes the
\* rider's screen load the ride, as a poll does.
ServeEnRoute == Write("arrived", "checked", "driver_en_route", "moving")
ServeArrived == Write("arrived", "moving", "arrived", "over")
ServeStart == Write("start", "checked", "in_progress", "over")

\* acceptRide and completeRide read the row again under its lock.
ServeAccept ==
  /\ event["accept"] = "sent"
  /\ row.status \in Takes["accept"]
  /\ row' = [row EXCEPT !.status = "accepted", !.mine = TRUE]
  /\ Progress("accept", "served")
  /\ UNCHANGED upset

ServeComplete ==
  /\ event["complete"] = "sent"
  /\ row.mine /\ row.status \in Takes["complete"]
  /\ row' = [row EXCEPT !.status = "completed", !.completed = TRUE]
  /\ Progress("complete", "served")
  /\ Overtakes("complete")

\* A bug: The answer of the API is not looked at.
RefuseUnseen(e) ==
  /\ event[e] = "sent"
  /\ row.status \notin Takes[e] \/ (e # "accept" /\ ~row.mine)
  /\ Progress(e, "served")
  /\ Overtakes(e)
  /\ UNCHANGED row

\* The API refuses; the screen has no listener for the error that is sent back.
Refuse(e) ==
  /\ event[e] = "sent"
  /\ row.status \notin Takes[e] \/ (e # "accept" /\ ~row.mine)
  /\ Progress(e, "over")
  /\ Overtakes(e)
  /\ UNCHANGED row

Serve(e) ==
  /\ \/ e = "accept" /\ ServeAccept
     \/ Check(e)
     \/ e = "arrived" /\ (ServeEnRoute \/ ServeArrived)
     \/ e = "start" /\ ServeStart
     \/ e = "complete" /\ ServeComplete
     \/ Refuse(e)
  /\ UNCHANGED <<rider, driver, linked, inbox, room, faults>>

\* The rider's user room hears of it.  The socket that accepted joins the ride's room, the
\* socket that completes leaves it.
Announce(e) ==
  /\ event[e] = "served"
  /\ Progress(e, "over")
  /\ IF e = "complete" THEN Tell({"tracking"}, "completed") ELSE UNCHANGED inbox
  /\ room' = CASE e = "accept" -> room \cup {"requests"}
               [] e = "complete" -> room \ {"active"}
               [] OTHER -> room
  /\ UNCHANGED <<row, rider, driver, linked, upset, faults>>

\* A handler dies: the request was lost or left half done, or its answer was lost.
LoseEvent(e) ==
  /\ Fault
  /\ event[e] \in {"sent", "checked", "moving", "served"}
  /\ Progress(e, "over")
  /\ UNCHANGED <<row, room, rider, driver, linked, inbox, upset>>

\* cancelRide looks at the row, and cancels by what it saw even a ride that was
\* completed since; the broadcast is relayed to the room of the ride.
CheckCancel ==
  /\ cancel = "asked"
  /\ row.status \in Cancellable
  /\ cancel' = "checked"
  /\ UNCHANGED <<server, tracking, reads, driver, linked, inbox, upset, faults>>

RefuseCancel ==
  /\ cancel = "asked"
  /\ row.status \notin Cancellable
  /\ cancel' = "refused"
  /\ UNCHANGED <<server, tracking, reads, driver, linked, inbox, upset, faults>>

ServeCancel ==
  /\ cancel = "checked"
  /\ row' = [row EXCEPT !.status = "cancelled"]
  /\ Tell(room, "cancelled")
  /\ cancel' = "done"
  /\ UNCHANGED <<event, room, tracking, reads, driver, linked, upset, faults>>

\* No driver in time.
ExpireSearch ==
  /\ row.status = "searching"
  /\ row' = [row EXCEPT !.status = "cancelled"]
  /\ UNCHANGED <<event, room, rider, driver, linked, inbox, upset, faults>>

-----------------------------------------------------------------------------
(* The rider's screen. *)

\* A bug: The interval is cleared by the first answer.
LoadRideOnce ==
  /\ tracking.open /\ tracking.shown = "searching"
  /\ Cardinality(reads) < MaxReads
  /\ reads' = reads \cup {"asked"}

LoadRide ==
  /\ tracking.open
  /\ Cardinality(reads) < MaxReads
  /\ reads' = reads \cup {"asked"}

Poll ==
  /\ LoadRide
  /\ UNCHANGED <<server, tracking, cancel, driver, linked, inbox, upset, faults>>

ReadAnswered ==
  /\ "asked" \in reads
  /\ reads' = (reads \ {"asked"}) \cup {row.status}
  /\ UNCHANGED <<server, tracking, cancel, driver, linked, inbox, upset, faults>>

\* The answers are applied in the order in which they come.
ReadReceived(status) ==
  /\ status \in reads \ {"asked"}
  /\ reads' = reads \ {status}
  /\ tracking' = [tracking EXCEPT !.shown = status, !.modal = @ \/ status = "completed"]
  /\ UNCHANGED <<server, cancel, driver, linked, inbox, upset, faults>>

\* A call that fails shows an error until the next one; offline it is answered with the copy
\* of the last answer, which is on the screen.
ReadFails(read) ==
  /\ Fault
  /\ read \in reads
  /\ reads' = reads \ {read}
  /\ UNCHANGED <<server, tracking, cancel, driver, linked, inbox, upset>>

HearTracking(e) ==
  /\ e \in inbox["tracking"]
  /\ inbox' = [inbox EXCEPT !["tracking"] = @ \ {e}]
  /\ IF "asked" \in reads THEN UNCHANGED reads ELSE LoadRide
  /\ tracking' = IF e = "completed" THEN [tracking EXCEPT !.modal = TRUE]
                                    ELSE [tracking EXCEPT !.shown = "cancelled"]
  /\ UNCHANGED <<server, cancel, driver, linked, upset, faults>>

CloseTracking ==
  /\ tracking' = [open |-> FALSE, shown |-> "searching", modal |-> FALSE]
  /\ reads' = {}
  /\ linked' = linked \ {"tracking"}
  /\ inbox' = [inbox EXCEPT !["tracking"] = {}]

AskCancel ==
  /\ tracking.open /\ tracking.shown \in {"searching", "accepted", "arrived", "in_progress"}
  /\ cancel = "none"
  /\ cancel' = "asked"
  /\ UNCHANGED <<server, tracking, reads, driver, linked, inbox, upset, faults>>

CancelAnswered ==
  /\ tracking.open /\ cancel = "done"
  /\ CloseTracking
  /\ UNCHANGED <<server, cancel, driver, upset, faults>>

\* The answer is lost and the call is made again.
LoseCancelAnswer ==
  /\ Fault
  /\ tracking.open /\ cancel = "done"
  /\ cancel' = "asked"
  /\ UNCHANGED <<server, tracking, reads, driver, linked, inbox, upset>>

PressDone ==
  /\ tracking.open /\ tracking.shown \in {"completed", "cancelled"}
  /\ CloseTracking
  /\ UNCHANGED <<server, cancel, driver, upset, faults>>

-----------------------------------------------------------------------------
(* The sockets of the two screens. *)

Mounted(s) == \/ s = "tracking" /\ tracking.open
              \/ s = "active" /\ active.screen \in {"loading", "error", "ready"}

\* The queue is flushed.  The rider's screen also emits join:ride:<id> and ride:track, and
\* the server has no handler for either name: the room stays as it is.
LinkUp(s) ==
  /\ Mounted(s) /\ s \notin linked
  /\ linked' = linked \cup {s}
  /\ event' = [e \in Events |-> IF s = "active" /\ event[e] = "queued" THEN "sent" ELSE event[e]]
  /\ UNCHANGED <<row, room, rider, driver, inbox, upset, faults>>

LinkDown(s) ==
  /\ Fault
  /\ s \in linked
  /\ linked' = linked \ {s}
  /\ inbox' = [inbox EXCEPT ![s] = {}]
  /\ room' = room \ {s}
  /\ UNCHANGED <<row, event, rider, driver, upset>>

-----------------------------------------------------------------------------
DriverStep == \/ Accept \/ LoadAnswered \/ Loaded \/ RetryLoad \/ LoadFails
              \/ MarkArrived \/ StartTrip \/ CompleteTrip \/ LeaveActive

RiderStep == \/ Poll \/ AskCancel \/ CancelAnswered \/ LoseCancelAnswer
             \/ PressDone
             \/ ReadAnswered
             \/ \E e \in inbox["tracking"] : HearTracking(e)
             \/ \E read \in reads : ReadReceived(read) \/ ReadFails(read)

ServerStep == \/ \E e \in Events : Serve(e) \/ Announce(e) \/ LoseEvent(e)
              \/ CheckCancel \/ RefuseCancel \/ ServeCancel \/ ExpireSearch

Next == DriverStep \/ RiderStep \/ ServerStep \/ \E s \in Screens : LinkUp(s) \/ LinkDown(s)

\* What the server, the sockets and their listeners have to do.  A ride gives them only so
\* much of it, so fairness to all of it together is fairness to each.
Work == \/ \E e \in Events : Serve(e) \/ Announce(e)
        \/ CheckCancel \/ RefuseCancel \/ ServeCancel \/ CancelAnswered
        \/ \E s \in Screens : LinkUp(s)
        \/ HearActive \/ \E e \in inbox["tracking"] : HearTracking(e)

\* The interval fires, calls and handlers end, sockets reconnect; what people do is theirs.
Fairness ==
  /\ WF_vars(Poll) /\ WF_vars(ReadAnswered) /\ WF_vars(\E read \in reads : ReadReceived(read))
  /\ WF_vars(LoadAnswered \/ Loaded)
  /\ WF_vars(Work)

Spec == Init /\ [][Next]_vars /\ Fairness

-----------------------------------------------------------------------------
(* Properties. *)

\* The completion card with the fare and the rating (showCompletion) is only ever raised for a
\* ride that was completed, though a cancellation under way may have the last word on its status.
ModalIsReal == tracking.modal => row.completed

\* Where nothing failed and no event overtook another or was dropped with its screen, the phase
\* the driver's screen went ahead to is the status the ride has, once the handlers are through:
\* also on a ride that was cancelled while one of them was at work and goes on all the same.
Reached == CASE active.told -> "completed"
             [] active.phase = "to_pickup" -> "accepted"
             [] OTHER -> active.phase

PhaseIsReached ==
  /\ active.screen = "ready" /\ row.status # "cancelled"
  /\ faults = 0 /\ upset = {}
  /\ \A e \in Events : event[e] \in {"none", "over"}
  => row.status = Reached

\* Whatever was lost or came out of order, the rider's screen ends up showing the ride's status.
ViewSettles == <>[](tracking.open => tracking.shown = row.status)

\* docs/flow/02-driver/driver-user-flow.md: the ride:cancelled event raises an alert and
\* takes the driver back.
CancelReachesDriver ==
  row.status = "cancelled" /\ row.mine /\ active.screen = "ready" ~> active.screen = "left"
=============================================================================
