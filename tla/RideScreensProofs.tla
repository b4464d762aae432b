-------------------------- MODULE RideScreensProofs --------------------------
(***************************************************************************)
(* Proofs about RideScreens: its types, and that the rider's completion    *)
(* card is only raised for a ride that was completed.  The card follows    *)
(* from what was read or heard earlier, so the invariant speaks of every   *)
(* report of a completion that is still on its way: an answer of loadRide, *)
(* an event in the socket, and a completion the API has served but the     *)
(* socket server has not announced.                                        *)
(* Then the phase the driver's screen went ahead to, by the order in which *)
(* his events were run.                                                    *)
(***************************************************************************)
EXTENDS RideScreens, TLAPS

RowType == [status : Status, mine : BOOLEAN, completed : BOOLEAN]
Progressions == {"none", "queued", "sent", "checked", "moving", "served", "over"}
Tracking == [open : BOOLEAN, shown : Status, modal : BOOLEAN]
Active == [screen : {"off", "loading", "error", "ready", "left"},
           phase : {"to_pickup", "arrived", "in_progress"}, told : BOOLEAN]
Inboxes == [Screens -> SUBSET {"completed", "cancelled"}]

\* Reports of a completion on their way to the rider's screen, or raised on it.
Reported(t, r, e, i) == \/ t.modal
                        \/ "completed" \in r
                        \/ e["complete"] = "served"
                        \/ "completed" \in i["tracking"]

Inv == /\ TypeOK
       /\ row.status = "completed" => row.completed
       /\ Reported(tracking, reads, event, inbox) => row.completed

-----------------------------------------------------------------------------
(* The server. *)

LEMMA StatusIs ==
  {"searching", "accepted", "driver_en_route", "arrived", "in_progress", "completed",
   "cancelled"} \subseteq Status
BY DEF Status

\* What a step of an event does to its own entry.
LEMMA EventStep ==
  ASSUME TypeOK, NEW e \in Events, NEW s \in Progressions, Progress(e, s)
  PROVE  /\ event' \in [Events -> Progressions] /\ event'[e] = s
         /\ \A x \in Events : x # e => event'[x] = event[x]
BY DEF TypeOK, Progress, Progressions

\* A write of an arrival or a start: it leaves a completion alone, and is one.
LEMMA WriteStep ==
  ASSUME TypeOK, NEW e \in Events, NEW from, NEW status \in Status, NEW to \in Progressions,
         Write(e, from, status, to)
  PROVE  /\ event[e] = from /\ event' \in [Events -> Progressions] /\ event'[e] = to
         /\ \A x \in Events : x # e => event'[x] = event[x]
         /\ row' \in RowType /\ row'.status = status /\ row'.mine = row.mine
         /\ row'.completed = row.completed
         /\ UNCHANGED upset
<1>1. row' = [row EXCEPT !.status = status] /\ row \in RowType
  BY DEF Write, TypeOK, RowType
<1>2. event[e] = from /\ Progress(e, to) /\ UNCHANGED upset
  BY DEF Write
<1> QED
  BY <1>1, <1>2, EventStep DEF RowType

LEMMA WritesAre ==
  ASSUME TypeOK, ServeEnRoute \/ ServeArrived \/ ServeStart
  PROVE  /\ event' \in [Events -> Progressions] /\ event'["complete"] = event["complete"]
         /\ row' \in RowType /\ row'.completed = row.completed /\ row'.status # "completed"
         /\ UNCHANGED upset
<1>1. PICK e \in {"arrived", "start"}, from \in Progressions, to \in Progressions,
            status \in Status : status # "completed" /\ Write(e, from, status, to)
  BY StatusIs DEF ServeEnRoute, ServeArrived, ServeStart, Progressions
<1>2. e \in Events /\ "complete" \in Events /\ e # "complete"
  BY DEF Events
<1> QED
  BY <1>1, <1>2, WriteStep

LEMMA UpsetStep == ASSUME TypeOK, NEW e \in Events, Overtakes(e)
                   PROVE  upset' \subseteq {"overtaken", "dropped"}
BY DEF TypeOK, Overtakes

LEMMA ServeStep ==
  ASSUME Inv, NEW e \in Events, Serve(e)
  PROVE  Inv'
<1>0. TypeOK /\ UNCHANGED <<rider, driver, linked, inbox, room, faults>>
  BY DEF Inv, Serve
<1>1. CASE e = "accept" /\ ServeAccept
  <2>1. row' \in RowType /\ row'.completed = row.completed /\ row'.status # "completed"
        /\ UNCHANGED upset
    BY <1>0, <1>1, StatusIs DEF ServeAccept, TypeOK, RowType
  <2>2. Progress("accept", "served") /\ "accept" \in Events /\ "served" \in Progressions
    BY <1>1 DEF ServeAccept, Events, Progressions
  <2>3. event' \in [Events -> Progressions] /\ event'["complete"] = event["complete"]
    BY <1>0, <2>2, EventStep DEF Events
  <2> QED
    BY <1>0, <2>1, <2>3 DEF Inv, TypeOK, Reported, RowType, Progressions, rider, driver
<1>2. CASE Check(e)
  <2>1. PICK s \in {"checked", "moving"} : Progress(e, s)
    BY <1>2 DEF Check
  <2>2. e # "complete" /\ s \in Progressions /\ "complete" \in Events /\ UNCHANGED row
    BY <1>2 DEF Check, Progressions, Events
  <2>3. event' \in [Events -> Progressions] /\ event'["complete"] = event["complete"]
    BY <1>0, <2>1, <2>2, EventStep
  <2>4. upset' \subseteq {"overtaken", "dropped"}
    BY <1>0, <1>2, UpsetStep DEF Check
  <2> QED
    BY <1>0, <2>2, <2>3, <2>4 DEF Inv, TypeOK, Reported, Progressions, rider, driver
<1>3. CASE ServeEnRoute \/ ServeArrived \/ ServeStart
  <2>1. /\ event' \in [Events -> Progressions] /\ event'["complete"] = event["complete"]
        /\ row' \in RowType /\ row'.completed = row.completed /\ row'.status # "completed"
        /\ UNCHANGED upset
    BY <1>0, <1>3, WritesAre
  <2>2. UNCHANGED <<tracking, reads, cancel, active, load, linked, inbox, room, faults>>
    BY <1>0 DEF rider, driver
  <2>3. TypeOK'
    BY <1>0, <2>1, <2>2 DEF TypeOK, RowType, Progressions
  <2> QED
    BY <2>1, <2>2, <2>3 DEF Inv, Reported
<1>4. CASE e = "complete" /\ ServeComplete
  <2>1. row'.completed /\ row' \in RowType
    BY <1>0, <1>4, StatusIs DEF ServeComplete, TypeOK, RowType
  <2>2. event' \in [Events -> Progressions]
    <3>1. Progress("complete", "served") /\ "served" \in Progressions
      BY <1>4 DEF ServeComplete, Progressions
    <3> QED
      BY <1>0, <1>4, <3>1, EventStep
  <2>3. upset' \subseteq {"overtaken", "dropped"}
    BY <1>0, <1>4, UpsetStep DEF ServeComplete
  <2> QED
    BY <1>0, <2>1, <2>2, <2>3 DEF Inv, TypeOK, Reported, RowType, Progressions, rider, driver
<1>5. CASE Refuse(e)
  <2>1. Progress(e, "over") /\ "over" \in Progressions /\ UNCHANGED row
    BY <1>5 DEF Refuse, Progressions
  <2>2. event' \in [Events -> Progressions] /\ event'[e] = "over"
        /\ \A x \in Events : x # e => event'[x] = event[x]
    BY <1>0, <2>1, EventStep
  <2>3. event'["complete"] = "served" => event["complete"] = "served"
    BY <2>2 DEF Events
  <2>4. upset' \subseteq {"overtaken", "dropped"}
    BY <1>0, <1>5, UpsetStep DEF Refuse
  <2> QED
    BY <1>0, <2>1, <2>2, <2>3, <2>4 DEF Inv, TypeOK, Reported, Progressions, rider, driver
<1> QED
  BY <1>1, <1>2, <1>3, <1>4, <1>5 DEF Serve

\* An event to a screen is put into its inbox, or lost.
LEMMA TellStep ==
  ASSUME TypeOK, NEW S, NEW e \in {"completed", "cancelled"}, Tell(S, e)
  PROVE  /\ inbox' \in Inboxes
         /\ \A s \in Screens : inbox'[s] \subseteq inbox[s] \cup {e}
BY DEF TypeOK, Tell, Inboxes

LEMMA AnnounceStep ==
  ASSUME Inv, NEW e \in Events, Announce(e)
  PROVE  Inv'
<1>0. /\ TypeOK /\ event[e] = "served" /\ Progress(e, "over") /\ "over" \in Progressions
      /\ UNCHANGED <<row, rider, driver, linked, upset, faults>>
  BY DEF Inv, Announce, Progressions
<1>1. event' \in [Events -> Progressions] /\ event'[e] = "over"
      /\ \A x \in Events : x # e => event'[x] = event[x]
  BY <1>0, EventStep
<1>2. event'["complete"] = "served" => event["complete"] = "served"
  BY <1>1 DEF Events
<1>3. room' \subseteq Screens \cup {"requests"}
  BY <1>0 DEF Announce, TypeOK, Screens
<1>4. CASE e = "complete"
  <2>1. inbox' \in Inboxes
    BY <1>0, <1>4, TellStep DEF Announce
  <2>2. row'.completed
    BY <1>0, <1>4 DEF Inv, Reported
  <2> QED
    BY <1>0, <1>1, <1>3, <2>1, <2>2 DEF Inv, TypeOK, Reported, Inboxes, Progressions, rider, driver
<1>5. CASE e # "complete"
  <2>1. inbox' = inbox
    BY <1>5 DEF Announce
  <2> QED
    BY <1>0, <1>1, <1>2, <1>3, <2>1 DEF Inv, TypeOK, Reported, Progressions, rider, driver
<1> QED
  BY <1>4, <1>5

LEMMA FaultStep == ASSUME TypeOK, Fault PROVE faults' \in 0..MaxFaults
BY BoundsAssumption DEF TypeOK, Fault

LEMMA LoseEventStep ==
  ASSUME Inv, NEW e \in Events, LoseEvent(e)
  PROVE  Inv'
<1>0. /\ TypeOK /\ Fault /\ Progress(e, "over") /\ "over" \in Progressions
      /\ UNCHANGED <<row, room, rider, driver, linked, inbox, upset>>
  BY DEF Inv, LoseEvent, Progressions
<1>1. event' \in [Events -> Progressions] /\ event'[e] = "over"
      /\ \A x \in Events : x # e => event'[x] = event[x]
  BY <1>0, EventStep
<1>2. event'["complete"] = "served" => event["complete"] = "served"
  BY <1>1 DEF Events
<1> QED
  BY <1>0, <1>1, <1>2, FaultStep DEF Inv, TypeOK, Reported, Progressions, rider, driver

LEMMA CancelStep ==
  ASSUME Inv, CheckCancel \/ RefuseCancel \/ ServeCancel \/ ExpireSearch
  PROVE  Inv'
<1>1. CASE CheckCancel \/ RefuseCancel
  BY <1>1 DEF CheckCancel, RefuseCancel, Inv, TypeOK, Reported, server, driver
<1>2. CASE ServeCancel
  <2>1. row' \in RowType /\ row'.completed = row.completed /\ row'.status # "completed"
    BY <1>2, StatusIs DEF ServeCancel, Inv, TypeOK, RowType
  <2>2. inbox' \in Inboxes /\ inbox'["tracking"] \subseteq inbox["tracking"] \cup {"cancelled"}
    BY <1>2, TellStep DEF ServeCancel, Inv, Screens
  <2>3. /\ UNCHANGED <<event, room, tracking, reads, driver, linked, upset, faults>>
        /\ cancel' = "done"
    BY <1>2 DEF ServeCancel
  <2> QED
    BY <2>1, <2>2, <2>3 DEF Inv, TypeOK, Reported, RowType, Inboxes, driver
<1>3. CASE ExpireSearch
  <2>1. row' \in RowType /\ row'.completed = row.completed /\ row'.status # "completed"
    BY <1>3, StatusIs DEF ExpireSearch, Inv, TypeOK, RowType
  <2> QED
    BY <1>3, <2>1 DEF ExpireSearch, Inv, TypeOK, Reported, RowType, rider, driver
<1> QED
  BY <1>1, <1>2, <1>3

-----------------------------------------------------------------------------
(* The driver's screen. *)

LEMMA LoadStep ==
  ASSUME Inv, Accept \/ LoadAnswered \/ Loaded \/ RetryLoad \/ LoadFails
  PROVE  Inv'
<1>1. CASE Accept
  <2>1. active' \in Active /\ event' \in [Events -> Progressions]
        /\ event'["complete"] = event["complete"]
    BY <1>1 DEF Accept, Inv, TypeOK, Active, Events, Progressions
  <2> QED
    BY <1>1, <2>1 DEF Accept, Inv, TypeOK, Reported, Active, Progressions, rider
<1>2. CASE LoadAnswered
  BY <1>2 DEF LoadAnswered, Inv, TypeOK, Reported, server, rider
<1>3. CASE Loaded
  <2>1. CASE load = "forbidden"
    <3>1. active' \in Active
      BY <1>3, <2>1 DEF Loaded, Inv, TypeOK, Active
    <3> QED
      BY <1>3, <3>1 DEF Loaded, Inv, TypeOK, Reported, Active, server, rider
  <2>2. CASE load \in {"arrived", "in_progress"}
    <3>1. active' \in Active
      BY <1>3, <2>2 DEF Loaded, Inv, TypeOK, Active
    <3> QED
      BY <1>3, <3>1 DEF Loaded, Inv, TypeOK, Reported, Active, server, rider
  <2>3. CASE load \notin {"forbidden", "arrived", "in_progress"}
    <3>1. active' \in Active
      BY <1>3, <2>3 DEF Loaded, Inv, TypeOK, Active
    <3> QED
      BY <1>3, <3>1 DEF Loaded, Inv, TypeOK, Reported, Active, server, rider
  <2> QED
    BY <2>1, <2>2, <2>3
<1>4. CASE RetryLoad
  <2>1. active' \in Active
    BY <1>4 DEF RetryLoad, Inv, TypeOK, Active
  <2> QED
    BY <1>4, <2>1 DEF RetryLoad, Inv, TypeOK, Reported, Active, server, rider
<1>5. CASE LoadFails
  <2>1. active' \in Active
    BY <1>5 DEF LoadFails, Inv, TypeOK, Active
  <2> QED
    BY <1>5, <2>1, FaultStep DEF LoadFails, Inv, TypeOK, Reported, Active, server, rider
<1> QED
  BY <1>1, <1>2, <1>3, <1>4, <1>5

\* A button only sends: what it shows next needs no report.
LEMMA PressStep ==
  ASSUME Inv, MarkArrived \/ StartTrip \/ CompleteTrip
  PROVE  Inv'
<1>1. PICK e \in Events :
        /\ Emit(e) /\ active' \in Active
        /\ UNCHANGED <<row, room, rider, load, linked, inbox, upset, faults>>
  <2>1. CASE MarkArrived
    BY <2>1 DEF MarkArrived, Press, Inv, TypeOK, Active, Events
  <2>2. CASE StartTrip
    BY <2>2 DEF StartTrip, Press, Inv, TypeOK, Active, Events
  <2>3. CASE CompleteTrip
    BY <2>3 DEF CompleteTrip, Press, Inv, TypeOK, Active, Events
  <2> QED
    BY <2>1, <2>2, <2>3
<1>2. /\ event' \in [Events -> Progressions]
      /\ event'["complete"] = "served" => event["complete"] = "served"
  <2>1. PICK s \in {"sent", "queued"} : event' = [event EXCEPT ![e] = s]
    BY <1>1 DEF Emit
  <2> QED
    BY <2>1 DEF Inv, TypeOK, Progressions, Events
<1> QED
  BY <1>1, <1>2 DEF Inv, TypeOK, Reported, Active, Progressions, rider

\* Queued events that are dropped, or sent, report nothing.
LEMMA QueueStep ==
  ASSUME TypeOK, NEW s \in {"over", "sent"}, NEW P \in BOOLEAN,
         event' = [e \in Events |-> IF P /\ event[e] = "queued" THEN s ELSE event[e]]
  PROVE  /\ event' \in [Events -> Progressions]
         /\ event'["complete"] = "served" => event["complete"] = "served"
BY DEF TypeOK, Progressions, Events

LEMMA InboxCleared ==
  ASSUME TypeOK, NEW s \in Screens, inbox' = [inbox EXCEPT ![s] = {}]
  PROVE  inbox' \in Inboxes /\ inbox'["tracking"] \subseteq inbox["tracking"]
BY DEF TypeOK, Inboxes, Screens

LEMMA LeaveStep ==
  ASSUME Inv, LeaveActive
  PROVE  Inv'
<1>1. /\ event' \in [Events -> Progressions]
      /\ event'["complete"] = "served" => event["complete"] = "served"
  <2>1. event' = [e \in Events |-> IF TRUE /\ event[e] = "queued" THEN "over" ELSE event[e]]
    BY DEF LeaveActive
  <2> QED
    BY <2>1, QueueStep DEF Inv
<1>2. inbox' \in Inboxes /\ inbox'["tracking"] \subseteq inbox["tracking"]
  BY InboxCleared DEF LeaveActive, Inv, Screens
<1>3. active' \in Active /\ upset' \subseteq {"overtaken", "dropped"}
      /\ linked' \subseteq Screens /\ room' \subseteq Screens \cup {"requests"}
  BY DEF LeaveActive, Inv, TypeOK, Active
<1>4. load' = "none" /\ UNCHANGED <<row, rider, faults>>
  BY DEF LeaveActive
<1> QED
  BY <1>1, <1>2, <1>3, <1>4 DEF Inv, TypeOK, Reported, Active, Inboxes, Progressions, rider

-----------------------------------------------------------------------------
(* The rider's screen. *)

LEMMA ReadStep ==
  ASSUME Inv, \/ Poll \/ ReadAnswered
              \/ \E read \in reads : ReadReceived(read) \/ ReadFails(read)
  PROVE  Inv'
<1>1. CASE Poll
  BY <1>1 DEF Poll, LoadRide, Inv, TypeOK, Reported, server, driver
<1>2. CASE ReadAnswered
  <2>1. reads' = (reads \ {"asked"}) \cup {row.status} /\ row.status \in Status
    BY <1>2 DEF ReadAnswered, Inv, TypeOK
  <2> QED
    BY <1>2, <2>1 DEF ReadAnswered, Inv, TypeOK, Reported, server, driver
<1>3. ASSUME NEW read \in reads, ReadReceived(read) PROVE Inv'
  <2>1. read \in Status /\ reads' = reads \ {read}
        /\ UNCHANGED <<server, cancel, driver, linked, inbox, upset, faults>>
    BY <1>3 DEF ReadReceived, Inv, TypeOK
  <2>2. tracking' = [tracking EXCEPT !.shown = read, !.modal = tracking.modal \/ read = "completed"]
    BY <1>3 DEF ReadReceived
  <2> DEFINE raised == tracking.modal \/ read = "completed"
  <2>3. raised \in BOOLEAN
    BY DEF Inv, TypeOK
  <2>4. tracking' = [tracking EXCEPT !.shown = read, !.modal = raised]
    BY <2>2
  <2>5. raised => Reported(tracking, reads, event, inbox)
    BY DEF Reported
  <2> HIDE DEF raised
  <2>6. tracking' \in Tracking /\ tracking'.modal = raised
    BY <2>1, <2>3, <2>4 DEF Inv, TypeOK, Tracking
  <2> QED
    BY <2>1, <2>5, <2>6 DEF Inv, TypeOK, Reported, Tracking, server, driver
<1>4. ASSUME NEW read \in reads, ReadFails(read) PROVE Inv'
  BY <1>4, FaultStep DEF ReadFails, Inv, TypeOK, Reported, server, driver
<1> QED
  BY <1>1, <1>2, <1>3, <1>4

LEMMA HearStep ==
  ASSUME Inv, NEW e \in inbox["tracking"], HearTracking(e)
  PROVE  Inv'
<1>1. inbox' = [inbox EXCEPT !["tracking"] = inbox["tracking"] \ {e}]
      /\ UNCHANGED <<server, cancel, driver, linked, upset, faults>>
  BY DEF HearTracking
<1>2. inbox' \in Inboxes /\ inbox'["tracking"] \subseteq inbox["tracking"]
  BY <1>1 DEF Inv, TypeOK, Inboxes, Screens
<1>3. /\ reads' \in SUBSET (Status \cup {"asked"})
      /\ "completed" \in reads' => "completed" \in reads
  BY DEF HearTracking, LoadRide, Inv, TypeOK
<1>4. tracking' \in Tracking /\ (tracking'.modal => tracking.modal \/ e = "completed")
  BY StatusIs DEF HearTracking, Inv, TypeOK, Tracking
<1> QED
  BY <1>1, <1>2, <1>3, <1>4 DEF Inv, TypeOK, Reported, Inboxes, Tracking, server, driver

LEMMA CloseStep ==
  ASSUME Inv, CloseTracking, UNCHANGED <<server, cancel, driver, upset, faults>>
  PROVE  Inv'
<1>1. inbox' \in Inboxes /\ inbox'["tracking"] \subseteq inbox["tracking"]
  BY InboxCleared DEF CloseTracking, Inv, Screens
<1>2. tracking' \in Tracking /\ ~tracking'.modal /\ reads' = {} /\ linked' \subseteq Screens
  BY StatusIs DEF CloseTracking, Inv, TypeOK, Tracking
<1> QED
  BY <1>1, <1>2 DEF Inv, TypeOK, Reported, Inboxes, Tracking, server, driver

LEMMA RiderCancels ==
  ASSUME Inv, AskCancel \/ CancelAnswered \/ LoseCancelAnswer \/ PressDone
  PROVE  Inv'
<1>1. CASE AskCancel
  BY <1>1 DEF AskCancel, Inv, TypeOK, Reported, server, driver
<1>2. CASE CancelAnswered
  BY <1>2, CloseStep DEF CancelAnswered
<1>3. CASE LoseCancelAnswer
  BY <1>3, FaultStep DEF LoseCancelAnswer, Inv, TypeOK, Reported, server, driver
<1>4. CASE PressDone
  BY <1>4, CloseStep DEF PressDone
<1> QED
  BY <1>1, <1>2, <1>3, <1>4

-----------------------------------------------------------------------------
(* The sockets. *)

LEMMA LinkStep ==
  ASSUME Inv, NEW s \in Screens, LinkUp(s) \/ LinkDown(s)
  PROVE  Inv'
<1>1. CASE LinkUp(s)
  <2>1. /\ event' \in [Events -> Progressions]
        /\ event'["complete"] = "served" => event["complete"] = "served"
    <3> DEFINE mine == s = "active"
    <3>1. event' = [e \in Events |-> IF mine /\ event[e] = "queued" THEN "sent" ELSE event[e]]
      BY <1>1 DEF LinkUp
    <3>2. mine \in BOOLEAN
      OBVIOUS
    <3> HIDE DEF mine
    <3> QED
      BY <3>1, <3>2, QueueStep DEF Inv
  <2>2. linked' \subseteq Screens
    BY <1>1 DEF LinkUp, Inv, TypeOK
  <2> QED
    BY <1>1, <2>1, <2>2 DEF LinkUp, Inv, TypeOK, Reported, Progressions, rider, driver
<1>2. CASE LinkDown(s)
  <2>1. inbox' \in Inboxes /\ inbox'["tracking"] \subseteq inbox["tracking"]
    BY <1>2, InboxCleared DEF LinkDown, Inv
  <2> QED
    BY <1>2, <2>1, FaultStep DEF LinkDown, Inv, TypeOK, Reported, Inboxes, rider, driver
<1> QED
  BY <1>1, <1>2

-----------------------------------------------------------------------------
LEMMA InitInv == Init => Inv
<1> SUFFICES ASSUME Init PROVE Inv
  OBVIOUS
<1>1. row \in RowType /\ row.status = "searching" /\ tracking \in Tracking /\ ~tracking.modal
  BY StatusIs DEF Init, RowType, Tracking
<1>2. active \in Active /\ event \in [Events -> Progressions] /\ event["complete"] = "none"
      /\ inbox \in Inboxes /\ inbox["tracking"] = {}
  BY DEF Init, Active, Progressions, Events, Inboxes, Screens
<1>3. reads = {"asked"} /\ cancel = "none" /\ load = "none" /\ linked = {} /\ room = {}
      /\ upset = {} /\ faults = 0
  BY DEF Init
<1> QED
  BY <1>1, <1>2, <1>3, BoundsAssumption
     DEF Inv, TypeOK, Reported, RowType, Tracking, Active, Progressions, Inboxes

LEMMA StepInv == Inv /\ [Next]_vars => Inv'
<1> SUFFICES ASSUME Inv, [Next]_vars PROVE Inv'
  OBVIOUS
<1>1. CASE DriverStep
  BY <1>1, LoadStep, PressStep, LeaveStep DEF DriverStep
<1>2. CASE RiderStep
  BY <1>2, ReadStep, HearStep, RiderCancels DEF RiderStep
<1>3. CASE ServerStep
  BY <1>3, ServeStep, AnnounceStep, LoseEventStep, CancelStep DEF ServerStep
<1>4. CASE \E s \in Screens : LinkUp(s) \/ LinkDown(s)
  BY <1>4, LinkStep
<1>5. CASE UNCHANGED vars
  BY <1>5 DEF vars, Inv, TypeOK, Reported
<1> QED
  BY <1>1, <1>2, <1>3, <1>4, <1>5 DEF Next

LEMMA InvAlways == Spec => []Inv
BY InitInv, StepInv, PTL DEF Spec

\* The two screens, the events between them and the row stay well typed.
THEOREM TypeCorrect == Spec => []TypeOK
<1>1. Inv => TypeOK
  BY DEF Inv
<1> QED
  BY <1>1, InvAlways, PTL

\* However polls, answers, events and failures interleave, the rider is shown the completion
\* card (showCompletion) only for a ride that was completed, also where a cancellation has the last word.
THEOREM CompletionIsReal == Spec => []ModalIsReal
<1>1. Inv => ModalIsReal
  BY DEF Inv, Reported, ModalIsReal
<1> QED
  BY <1>1, InvAlways, PTL

-----------------------------------------------------------------------------
(* The driver's screen goes ahead of the server.  While nothing failed, was overtaken or was    *)
(* dropped, the events the server has run determine the status of a ride that is not cancelled, *)
(* and the events the screen has sent are those of its phase: so both agree once all that was   *)
(* sent has run.  A cancelled ride may leave that status again: by the write of an arrival or a *)
(* start that looked at it before.  So the order in which the events ran is kept for it too.    *)

Ran(e) == event[e] \in {"served", "over"}

Smooth == faults = 0 /\ upset = {}

Ordered == /\ event["complete"] # "none" => event["start"] # "none"
           /\ event["start"] # "none" => event["arrived"] # "none"
           /\ event["arrived"] # "none" => event["accept"] # "none"

\* The events ran in the order of the buttons, for the driver who was given the ride.
RanInOrder == /\ row.mine => Ran("accept")
              /\ Ran("complete") => Ran("start")
              /\ Ran("start") => Ran("arrived")
              /\ Ran("arrived") => Ran("accept")
              /\ event["arrived"] \in {"checked", "moving"} => row.mine
              /\ event["start"] = "checked" => row.mine /\ Ran("arrived")

\* The status that the events run so far have given the row.
RowIs == row.status # "cancelled" =>
         /\ Ran("accept") => row.mine
         /\ ~Ran("accept") => row.status = "searching"
         /\ Ran("accept") /\ ~Ran("arrived") =>
              \/ row.status = "accepted"
              \/ row.status = "driver_en_route" /\ event["arrived"] = "moving"
         /\ Ran("arrived") /\ ~Ran("start") => row.status = "arrived"
         /\ Ran("start") /\ ~Ran("complete") => row.status = "in_progress"
         /\ Ran("complete") => row.status = "completed"

\* The events that the phase of the screen stands for.
PhaseIs == active.screen # "left" =>
           /\ active.phase = "to_pickup" <=> event["arrived"] = "none"
           /\ active.phase = "in_progress" <=> event["start"] # "none"
           /\ active.told <=> event["complete"] # "none"
           /\ active.screen # "ready" => active.phase = "to_pickup"
           /\ active.screen = "off" => event["accept"] = "none"

\* A screen that shows its ride was given it, and no button was pressed before.
LoadIs == /\ load # "none" => active.screen = "loading"
          /\ load \in Status => load \in {"accepted", "cancelled"}
          /\ load \in Status \/ active.screen = "ready" => row.mine

InStep == Smooth => Ordered /\ RanInOrder /\ RowIs /\ PhaseIs /\ LoadIs

Seen == <<row, event, active, load>>

LEMMA EventsAre ==
  /\ {"accept", "arrived", "start", "complete"} = Events
  /\ "none" \notin Status /\ "asked" \notin Status /\ "forbidden" \notin Status
BY DEF Events, Status

LEMMA StaysSmooth ==
  ASSUME TypeOK, UNCHANGED Seen, faults' = faults \/ Fault, upset \subseteq upset', InStep
  PROVE  InStep'
<1>1. Smooth' => Smooth
  BY DEF Seen, Smooth, Fault, TypeOK
<1> QED
  BY <1>1 DEF InStep, Seen, Smooth, Ordered, RanInOrder, RowIs, PhaseIs, LoadIs, Ran

Pending == {"queued", "sent", "checked", "moving"}

LEMMA OvertakesIs ==
  ASSUME NEW e \in Events, Overtakes(e), upset' = {}
  PROVE  upset = {} /\ \A b \in Before[e] : event[b] \notin Pending
<1>1. upset = {} /\ {u \in {"overtaken"} : \E b \in Before[e] : event[b] \in Pending} = {}
  BY DEF Overtakes, Pending
<1>2. ~(\E b \in Before[e] : event[b] \in Pending)
  BY <1>1
<1> QED
  BY <1>1, <1>2

LEMMA AcceptInStep ==
  ASSUME Inv, InStep, Accept
  PROVE  InStep'
<1>0. /\ active.screen = "off" /\ active' = [active EXCEPT !.screen = "loading"]
      /\ event' = [event EXCEPT !["accept"] = "sent"] /\ load' = "asked"
      /\ UNCHANGED <<row, upset, faults>>
      /\ event \in [Events -> Progressions] /\ active \in Active
  BY DEF Accept, Inv, TypeOK, Progressions, Active
<1>1. /\ event'["accept"] = "sent" /\ event'["arrived"] = event["arrived"]
      /\ event'["start"] = event["start"] /\ event'["complete"] = event["complete"]
  BY <1>0, EventsAre
<1>2. /\ active'.screen = "loading" /\ active'.phase = active.phase
      /\ active'.told = active.told
  BY <1>0 DEF Active
<1> SUFFICES ASSUME Smooth' PROVE Ordered' /\ RanInOrder' /\ RowIs' /\ PhaseIs' /\ LoadIs'
  BY DEF InStep
<1>3. Ordered /\ RanInOrder /\ RowIs /\ PhaseIs /\ LoadIs
  BY <1>0 DEF InStep, Smooth
<1> QED
  BY <1>0, <1>1, <1>2, <1>3, EventsAre DEF Ordered, RanInOrder, RowIs, PhaseIs, LoadIs, Ran

LEMMA LoadInStep ==
  ASSUME Inv, InStep, LoadAnswered \/ Loaded \/ RetryLoad \/ LoadFails
  PROVE  InStep'
<1>0. active \in Active /\ load \in Status \cup {"none", "asked", "forbidden"}
  BY DEF Inv, TypeOK, Active
<1> SUFFICES ASSUME Smooth' PROVE Ordered' /\ RanInOrder' /\ RowIs' /\ PhaseIs' /\ LoadIs'
  BY DEF InStep
<1>1. UNCHANGED <<row, event, upset>> /\ ~LoadFails /\ faults' = faults
  BY DEF LoadAnswered, Loaded, RetryLoad, LoadFails, server, Smooth, Fault, Inv, TypeOK
<1>2. Ordered /\ RanInOrder /\ RowIs /\ PhaseIs /\ LoadIs
  BY <1>1 DEF InStep, Smooth
<1>3. Ordered' /\ RanInOrder' /\ RowIs'
  BY <1>1, <1>2 DEF Ordered, RanInOrder, RowIs, Ran
<1>4. CASE LoadAnswered
  <2>1. load = "asked" /\ UNCHANGED active
        /\ load' = IF row.mine THEN row.status ELSE "forbidden"
    BY <1>4 DEF LoadAnswered
  <2>2. active.screen = "loading" /\ active.phase = "to_pickup"
    BY <1>2, <2>1, EventsAre DEF LoadIs, PhaseIs
  <2>3. row.mine => row.status \in {"accepted", "cancelled"}
    <3>1. event["arrived"] = "none"
      BY <1>2, <2>2 DEF PhaseIs
    <3> QED
      BY <1>2, <3>1 DEF RanInOrder, RowIs, Ran
  <2> QED
    BY <1>1, <1>2, <1>3, <2>1, <2>2, <2>3, EventsAre DEF PhaseIs, LoadIs
<1>5. CASE Loaded
  <2>1. load \notin {"none", "asked"} /\ load' = "none"
    BY <1>5 DEF Loaded
  <2>2. active.screen = "loading" /\ load \in {"accepted", "cancelled", "forbidden"}
    BY <1>0, <1>2, <2>1 DEF LoadIs
  <2>3. PICK s \in {"error", "ready"} :
          active' = [active EXCEPT !.screen = s] /\ (s = "ready" => load \in {"accepted", "cancelled"})
    BY <1>5, <2>2 DEF Loaded
  <2>4. active'.screen = s /\ active'.phase = active.phase /\ active'.told = active.told
    BY <1>0, <2>3 DEF Active
  <2>5. load \in {"accepted", "cancelled"} => row.mine
    BY <1>2, StatusIs DEF LoadIs
  <2> QED
    BY <1>1, <1>2, <1>3, <2>1, <2>2, <2>3, <2>4, <2>5, EventsAre DEF PhaseIs, LoadIs
<1>6. CASE RetryLoad
  <2>1. active.screen = "error" /\ load' = "asked" /\ active' = [active EXCEPT !.screen = "loading"]
    BY <1>6 DEF RetryLoad
  <2>2. active'.screen = "loading" /\ active'.phase = active.phase /\ active'.told = active.told
    BY <1>0, <2>1 DEF Active
  <2> QED
    BY <1>1, <1>2, <1>3, <2>1, <2>2, EventsAre DEF PhaseIs, LoadIs
<1> QED
  BY <1>1, <1>4, <1>5, <1>6

LEMMA PressInStep ==
  ASSUME Inv, InStep, MarkArrived \/ StartTrip \/ CompleteTrip
  PROVE  InStep'
<1>0. active \in Active /\ event \in [Events -> Progressions]
  BY DEF Inv, TypeOK, Active, Progressions
<1> SUFFICES ASSUME Smooth' PROVE Ordered' /\ RanInOrder' /\ RowIs' /\ PhaseIs' /\ LoadIs'
  BY DEF InStep
<1>1. UNCHANGED <<row, load, upset, faults>> /\ active.screen = "ready" /\ ~active.told
  BY DEF MarkArrived, StartTrip, CompleteTrip, Press
<1>2. Ordered /\ RanInOrder /\ RowIs /\ PhaseIs /\ LoadIs
  BY <1>1 DEF InStep, Smooth
<1>3. load = "none" /\ row.mine /\ Ran("accept") /\ event["accept"] # "none"
  BY <1>1, <1>2 DEF LoadIs, RanInOrder, Ran
<1>4. ASSUME NEW e \in Events, Emit(e)
      PROVE  /\ event'[e] \in {"sent", "queued"}
             /\ \A x \in Events : x # e => event'[x] = event[x]
  BY <1>0, <1>4 DEF Emit
<1>5. CASE MarkArrived
  <2>1. active.phase = "to_pickup" /\ active' = [active EXCEPT !.phase = "arrived"] /\ Emit("arrived")
    BY <1>5 DEF MarkArrived, Press
  <2>2. active'.screen = "ready" /\ active'.phase = "arrived" /\ active'.told = active.told
    BY <1>0, <1>1, <2>1 DEF Active
  <2>3. /\ event'["arrived"] \in {"sent", "queued"} /\ event["arrived"] = "none"
        /\ event'["accept"] = event["accept"] /\ event'["start"] = event["start"]
        /\ event'["complete"] = event["complete"]
    BY <1>1, <1>2, <1>4, <2>1, EventsAre DEF PhaseIs
  <2> QED
    BY <1>1, <1>2, <1>3, <2>1, <2>2, <2>3, EventsAre DEF Ordered, RanInOrder, RowIs, PhaseIs, LoadIs, Ran
<1>6. CASE StartTrip
  <2>1. active.phase = "arrived" /\ active' = [active EXCEPT !.phase = "in_progress"] /\ Emit("start")
    BY <1>6 DEF StartTrip, Press
  <2>2. active'.screen = "ready" /\ active'.phase = "in_progress" /\ active'.told = active.told
    BY <1>0, <1>1, <2>1 DEF Active
  <2>3. /\ event'["start"] \in {"sent", "queued"} /\ event["start"] = "none"
        /\ event'["accept"] = event["accept"] /\ event'["arrived"] = event["arrived"]
        /\ event'["complete"] = event["complete"]
    BY <1>1, <1>2, <1>4, <2>1, EventsAre DEF PhaseIs
  <2> QED
    BY <1>1, <1>2, <1>3, <2>1, <2>2, <2>3, EventsAre DEF Ordered, RanInOrder, RowIs, PhaseIs, LoadIs, Ran
<1>7. CASE CompleteTrip
  <2>1. active.phase = "in_progress" /\ active' = [active EXCEPT !.told = TRUE] /\ Emit("complete")
    BY <1>7 DEF CompleteTrip, Press
  <2>2. active'.screen = "ready" /\ active'.phase = active.phase /\ active'.told
    BY <1>0, <1>1, <2>1 DEF Active
  <2>3. /\ event'["complete"] \in {"sent", "queued"} /\ event["complete"] = "none"
        /\ event'["accept"] = event["accept"] /\ event'["arrived"] = event["arrived"]
        /\ event'["start"] = event["start"]
    BY <1>1, <1>2, <1>4, <2>1, EventsAre DEF PhaseIs
  <2> QED
    BY <1>1, <1>2, <1>3, <2>1, <2>2, <2>3, EventsAre DEF Ordered, RanInOrder, RowIs, PhaseIs, LoadIs, Ran
<1> QED
  BY <1>5, <1>6, <1>7

\* Leaving drops nothing where upset stays empty.
LEMMA LeaveInStep ==
  ASSUME Inv, InStep, LeaveActive
  PROVE  InStep'
<1> SUFFICES ASSUME Smooth' PROVE Ordered' /\ RanInOrder' /\ RowIs' /\ PhaseIs' /\ LoadIs'
  BY DEF InStep
<1>1. /\ UNCHANGED <<row, faults>> /\ load' = "none" /\ active'.screen = "left"
      /\ event' = [e \in Events |-> IF event[e] = "queued" THEN "over" ELSE event[e]]
      /\ upset' = upset \cup {u \in {"dropped"} : \E e \in Events : event[e] = "queued"}
      /\ event \in [Events -> Progressions]
  BY DEF LeaveActive, Inv, TypeOK, Progressions
<1>2. upset = {} /\ {u \in {"dropped"} : \E e \in Events : event[e] = "queued"} = {}
  BY <1>1 DEF Smooth
<1>3. \A e \in Events : event'[e] = event[e]
  BY <1>1, <1>2
<1>4. Ordered /\ RanInOrder /\ RowIs
  BY <1>1, <1>2 DEF InStep, Smooth
<1> QED
  BY <1>1, <1>3, <1>4, EventsAre DEF Ordered, RanInOrder, RowIs, PhaseIs, LoadIs, Ran

\* A step of event e in the server leaves the other events and the driver's screen alone.
LEMMA ServeFrame ==
  ASSUME Inv, NEW e \in Events, Serve(e)
  PROVE  /\ UNCHANGED <<active, load, faults>>
         /\ event[e] # "none" /\ event'[e] # "none"
         /\ \A x \in Events : x # e => event'[x] = event[x]
         /\ upset' = {} => upset = {}
<1>1. event \in [Events -> Progressions] /\ TypeOK
  BY DEF Inv, TypeOK, Progressions
<1>2. UNCHANGED <<active, load, faults>>
  BY DEF Serve, driver
<1>3. /\ event[e] \in {"sent", "checked", "moving"}
      /\ \E s \in {"checked", "moving", "served", "over"} : Progress(e, s)
      /\ UNCHANGED upset \/ Overtakes(e)
  BY DEF Serve, Check, Write, ServeAccept, ServeEnRoute, ServeArrived, ServeStart, ServeComplete,
         Refuse
<1>4. /\ event'[e] \in {"checked", "moving", "served", "over"}
      /\ \A x \in Events : x # e => event'[x] = event[x]
  BY <1>1, <1>3 DEF Progress
<1>5. upset' = {} => upset = {}
  BY <1>3 DEF Overtakes
<1> QED
  BY <1>2, <1>3, <1>4, <1>5

\* The event whose turn it was is the next to run.
LEMMA InTurn ==
  ASSUME Inv, InStep, Smooth, NEW e \in Events, Overtakes(e), upset' = {}, event[e] = "sent"
  PROVE  \A b \in Before[e] : Ran(b)
<1>1. \A b \in Before[e] : event[b] \notin Pending
  BY OvertakesIs
<1>2. Ordered /\ event \in [Events -> Progressions]
  BY DEF InStep, Inv, TypeOK, Progressions
<1>3. \A b \in Before[e] : b \in Events /\ event[b] # "none"
  BY <1>2, EventsAre DEF Before, Ordered
<1> QED
  BY <1>1, <1>2, <1>3 DEF Ran, Pending, Progressions

LEMMA ServeInStep ==
  ASSUME Inv, InStep, NEW e \in Events, Serve(e)
  PROVE  InStep'
<1> SUFFICES ASSUME Smooth' PROVE Ordered' /\ RanInOrder' /\ RowIs' /\ PhaseIs' /\ LoadIs'
  BY DEF InStep
<1>0. /\ UNCHANGED <<active, load, faults>>
      /\ event[e] # "none" /\ event'[e] # "none"
      /\ \A x \in Events : x # e => event'[x] = event[x]
      /\ upset = {} /\ upset' = {} /\ Smooth
      /\ event \in [Events -> Progressions] /\ row \in RowType /\ TypeOK
  BY ServeFrame DEF Smooth, Inv, TypeOK, Progressions, RowType
<1>1. Ordered /\ RanInOrder /\ RowIs /\ PhaseIs /\ LoadIs
  BY <1>0 DEF InStep
<1>2. Ordered' /\ PhaseIs'
  BY <1>0, <1>1, EventsAre DEF Ordered, PhaseIs
<1>3. row'.mine = row.mine => LoadIs'
  BY <1>0, <1>1 DEF LoadIs
<1>4. CASE e = "accept" /\ ServeAccept
  <2>1. /\ event["accept"] = "sent" /\ Progress("accept", "served")
        /\ row' = [row EXCEPT !.status = "accepted", !.mine = TRUE]
    BY <1>4 DEF ServeAccept
  <2>2. event'["accept"] = "served" /\ row'.status = "accepted" /\ row'.mine
    BY <1>0, <2>1, EventsAre DEF Progress, RowType
  <2>3. ~Ran("accept") /\ ~row.mine /\ ~Ran("arrived") /\ ~Ran("start") /\ ~Ran("complete")
    BY <1>1, <2>1 DEF RanInOrder, Ran
  <2>4. RanInOrder' /\ RowIs'
    BY <1>0, <1>1, <1>4, <2>2, <2>3, EventsAre DEF RanInOrder, RowIs, Ran
  <2>5. LoadIs'
    BY <1>0, <1>1, <2>2 DEF LoadIs
  <2> QED
    BY <1>2, <2>4, <2>5
<1>5. CASE Check(e)
  <2>1. /\ event[e] = "sent" /\ row.mine /\ UNCHANGED row /\ e \in {"arrived", "start"}
        /\ \A b \in Before[e] : Ran(b)
        /\ Progress(e, IF row.status = "driver_en_route" THEN "moving" ELSE "checked")
    BY <1>0, <1>5, InTurn DEF Check
  <2>2. /\ event'[e] = IF row.status = "driver_en_route" THEN "moving" ELSE "checked"
        /\ \A x \in Events : event'[x] \in {"served", "over"} <=> event[x] \in {"served", "over"}
    BY <1>0, <2>1 DEF Progress
  <2>3. RanInOrder'
    BY <1>0, <1>1, <2>1, <2>2, EventsAre DEF RanInOrder, Ran, Before
  <2>4. RowIs'
    BY <1>0, <1>1, <2>1, <2>2, EventsAre DEF RowIs, Ran
  <2> QED
    BY <1>2, <1>3, <2>1, <2>3, <2>4
<1>6. CASE e = "arrived" /\ ServeEnRoute
  <2>1. /\ event["arrived"] = "checked" /\ event'["arrived"] = "moving"
        /\ row'.status = "driver_en_route" /\ row'.mine = row.mine
    BY <1>0, <1>6, WriteStep, StatusIs DEF ServeEnRoute, Progressions
  <2> QED
    BY <1>0, <1>1, <1>2, <1>3, <1>6, <2>1, EventsAre DEF RanInOrder, RowIs, Ran
<1>7. CASE e = "arrived" /\ ServeArrived
  <2>1. /\ event["arrived"] = "moving" /\ event'["arrived"] = "over"
        /\ row'.status = "arrived" /\ row'.mine = row.mine
    BY <1>0, <1>7, WriteStep, StatusIs DEF ServeArrived, Progressions
  <2> QED
    BY <1>0, <1>1, <1>2, <1>3, <1>7, <2>1, EventsAre DEF RanInOrder, RowIs, Ran
<1>8. CASE e = "start" /\ ServeStart
  <2>1. /\ event["start"] = "checked" /\ event'["start"] = "over"
        /\ row'.status = "in_progress" /\ row'.mine = row.mine
    BY <1>0, <1>8, WriteStep, StatusIs DEF ServeStart, Progressions
  <2> QED
    BY <1>0, <1>1, <1>2, <1>3, <1>8, <2>1, EventsAre DEF RanInOrder, RowIs, Ran
<1>9. CASE e = "complete" /\ ServeComplete
  <2>1. /\ event["complete"] = "sent" /\ row.mine /\ Progress("complete", "served")
        /\ row' = [row EXCEPT !.status = "completed", !.completed = TRUE]
        /\ Overtakes("complete")
    BY <1>9 DEF ServeComplete
  <2>2. row'.status = "completed" /\ row'.mine = row.mine /\ event'["complete"] = "served"
    BY <1>0, <2>1, EventsAre DEF RowType, Progress
  <2>3. Ran("start")
    BY <1>0, <1>9, <2>1, InTurn DEF Before
  <2> QED
    BY <1>0, <1>1, <1>2, <1>3, <1>9, <2>1, <2>2, <2>3, EventsAre DEF RanInOrder, RowIs, Ran
<1>10. CASE Refuse(e)
  <2>1. /\ event[e] = "sent" /\ UNCHANGED row /\ Progress(e, "over")
        /\ row.status \notin Takes[e] \/ (e # "accept" /\ ~row.mine)
        /\ \A b \in Before[e] : Ran(b)
    BY <1>0, <1>10, InTurn DEF Refuse
  <2>2. event'[e] = "over" /\ ~Ran(e)
    BY <1>0, <2>1 DEF Progress, Ran
  <2>3. RanInOrder'
    BY <1>0, <1>1, <2>1, <2>2, EventsAre DEF RanInOrder, Ran, Before
  <2>4. row.status = "cancelled"
    <3> SUFFICES ASSUME row.status # "cancelled" PROVE FALSE
      OBVIOUS
    <3>1. e # "accept"
      BY <1>1, <2>1, <2>2 DEF Takes, RowIs
    <3>2. e # "arrived"
      BY <1>1, <2>1, <2>2 DEF Takes, RowIs, Before
    <3>3. e # "start"
      BY <1>1, <2>1, <2>2 DEF Takes, RowIs, RanInOrder, Before
    <3>4. e # "complete"
      BY <1>1, <2>1, <2>2 DEF Takes, RowIs, RanInOrder, Before
    <3> QED
      BY <3>1, <3>2, <3>3, <3>4, EventsAre
  <2> QED
    BY <1>2, <1>3, <2>1, <2>3, <2>4 DEF RowIs
<1> QED
  BY <1>4, <1>5, <1>6, <1>7, <1>8, <1>9, <1>10 DEF Serve

\* Announcing an event, and flushing the queue, run none.
LEMMA AnnounceInStep ==
  ASSUME Inv, InStep, \/ \E e \in Events : Announce(e)
                      \/ \E s \in Screens : LinkUp(s)
  PROVE  InStep'
<1> SUFFICES ASSUME Smooth' PROVE Ordered' /\ RanInOrder' /\ RowIs' /\ PhaseIs' /\ LoadIs'
  BY DEF InStep
<1>0. event \in [Events -> Progressions]
  BY DEF Inv, TypeOK, Progressions
<1>1. /\ UNCHANGED <<row, active, load, upset, faults>>
      /\ \A x \in Events : /\ event'[x] = "none" <=> event[x] = "none"
                           /\ event'[x] \in {"served", "over"} <=> event[x] \in {"served", "over"}
                           /\ event'[x] \in {"checked", "moving"} \/ event[x] \in {"checked", "moving"}
                                => event'[x] = event[x]
  <2>1. CASE \E e \in Events : Announce(e)
    <3>1. PICK e \in Events : Announce(e)
      BY <2>1
    <3>2. event[e] = "served" /\ event' = [event EXCEPT ![e] = "over"]
      BY <3>1 DEF Announce, Progress
    <3> QED
      BY <1>0, <3>1, <3>2 DEF Announce, driver
  <2>2. CASE \E s \in Screens : LinkUp(s)
    <3>1. PICK s \in Screens : LinkUp(s)
      BY <2>2
    <3> DEFINE mine == s = "active"
    <3>2. event' = [e \in Events |-> IF mine /\ event[e] = "queued" THEN "sent" ELSE event[e]]
      BY <3>1 DEF LinkUp
    <3> HIDE DEF mine
    <3> QED
      BY <1>0, <3>1, <3>2 DEF LinkUp, driver
  <2> QED
    BY <2>1, <2>2
<1>2. Ordered /\ RanInOrder /\ RowIs /\ PhaseIs /\ LoadIs
  BY <1>1 DEF InStep, Smooth
<1>3. Ordered' /\ PhaseIs' /\ LoadIs'
  BY <1>1, <1>2, EventsAre DEF Ordered, PhaseIs, LoadIs
<1>4. RanInOrder' /\ RowIs'
  BY <1>1, <1>2, EventsAre DEF RanInOrder, RowIs, Ran
<1> QED
  BY <1>3, <1>4

\* A failure ends what InStep speaks of.
LEMMA EndsSmooth ==
  ASSUME Inv, (\E e \in Events : LoseEvent(e)) \/ (\E s \in Screens : LinkDown(s))
  PROVE  InStep'
<1>1. faults' # 0
  BY DEF LoseEvent, LinkDown, Fault, Inv, TypeOK
<1> QED
  BY <1>1 DEF InStep, Smooth

\* A cancellation leaves the order of the events as it was.
LEMMA CancelInStep ==
  ASSUME Inv, InStep, ServeCancel \/ ExpireSearch
  PROVE  InStep'
<1> SUFFICES ASSUME Smooth' PROVE Ordered' /\ RanInOrder' /\ RowIs' /\ PhaseIs' /\ LoadIs'
  BY DEF InStep
<1>1. UNCHANGED <<event, active, load, upset, faults>>
  BY DEF ServeCancel, ExpireSearch, driver
<1>2. row'.status = "cancelled" /\ row'.mine = row.mine
  BY DEF ServeCancel, ExpireSearch, Inv, TypeOK
<1>3. Ordered /\ RanInOrder /\ PhaseIs /\ LoadIs
  BY <1>1 DEF InStep, Smooth
<1> QED
  BY <1>1, <1>2, <1>3 DEF Ordered, RanInOrder, RowIs, PhaseIs, LoadIs, Ran

LEMMA RiderInStep ==
  ASSUME Inv, InStep, RiderStep \/ CheckCancel \/ RefuseCancel \/ UNCHANGED vars
  PROVE  InStep'
<1>1. UNCHANGED Seen /\ (faults' = faults \/ Fault) /\ upset' = upset
  <2>1. CASE Poll \/ AskCancel \/ ReadAnswered \/ LoseCancelAnswer
    BY <2>1 DEF Poll, AskCancel, ReadAnswered, LoseCancelAnswer, server, driver, Seen
  <2>2. CASE CancelAnswered \/ PressDone
    BY <2>2 DEF CancelAnswered, PressDone, server, driver, Seen
  <2>3. CASE \E e \in inbox["tracking"] : HearTracking(e)
    BY <2>3 DEF HearTracking, server, driver, Seen
  <2>4. CASE \E read \in reads : ReadReceived(read) \/ ReadFails(read)
    BY <2>4 DEF ReadReceived, ReadFails, server, driver, Seen
  <2>5. CASE CheckCancel \/ RefuseCancel \/ UNCHANGED vars
    BY <2>5 DEF CheckCancel, RefuseCancel, server, driver, Seen, vars
  <2> QED
    BY <2>1, <2>2, <2>3, <2>4, <2>5 DEF RiderStep
<1> QED
  BY <1>1, StaysSmooth DEF Inv

LEMMA InitInStep == Init => InStep
<1> SUFFICES ASSUME Init PROVE Ordered /\ RanInOrder /\ RowIs /\ PhaseIs /\ LoadIs
  BY DEF InStep
<1>1. \A e \in Events : event[e] = "none"
  BY DEF Init
<1> QED
  BY <1>1, EventsAre DEF Init, Ordered, RanInOrder, RowIs, PhaseIs, LoadIs, Ran

LEMMA StepInStep == Inv /\ InStep /\ [Next]_vars => InStep'
<1> SUFFICES ASSUME Inv, InStep, [Next]_vars PROVE InStep'
  OBVIOUS
<1>1. CASE DriverStep
  BY <1>1, AcceptInStep, LoadInStep, PressInStep, LeaveInStep DEF DriverStep
<1>2. CASE RiderStep \/ UNCHANGED vars
  BY <1>2, RiderInStep
<1>3. CASE ServerStep
  BY <1>3, ServeInStep, AnnounceInStep, EndsSmooth, CancelInStep, RiderInStep DEF ServerStep
<1>4. CASE \E s \in Screens : LinkUp(s) \/ LinkDown(s)
  BY <1>4, AnnounceInStep, EndsSmooth
<1> QED
  BY <1>1, <1>2, <1>3, <1>4 DEF Next

\* Where nothing failed, overtook or was dropped, the phase to which the driver's screen went
\* ahead is the status of a ride that is not cancelled, once the server has run all that was
\* sent: also where an arrival or a start was written over a cancellation.
THEOREM PhaseCatchesUp == Spec => []PhaseIsReached
<1>1. Inv /\ InStep => PhaseIsReached
  <2> SUFFICES ASSUME Inv, InStep, active.screen = "ready", row.status # "cancelled",
                      faults = 0, upset = {}, \A e \in Events : event[e] \in {"none", "over"}
               PROVE  row.status = Reached
    BY DEF PhaseIsReached
  <2>1. Ordered /\ RanInOrder /\ RowIs /\ PhaseIs /\ LoadIs
    BY DEF InStep, Smooth
  <2>2. \A e \in Events : Ran(e) <=> event[e] # "none"
    BY DEF Ran
  <2>3. /\ active.phase \in {"to_pickup", "arrived", "in_progress"} /\ active.told \in BOOLEAN
    BY DEF Inv, TypeOK
  <2>4. Ran("accept")
    BY <2>1 DEF LoadIs, RanInOrder
  <2>5. CASE active.told
    <3>1. Ran("complete")
      BY <2>1, <2>2, <2>5, EventsAre DEF PhaseIs
    <3>2. active.phase = "in_progress"
      BY <2>1, <2>2, <2>5, EventsAre DEF PhaseIs, Ordered
    <3> QED
      BY <2>1, <2>5, <3>1, <3>2 DEF RowIs, Reached
  <2>6. CASE ~active.told /\ active.phase = "to_pickup"
    <3>1. ~Ran("arrived") /\ event["arrived"] # "moving"
      BY <2>1, <2>2, <2>6, EventsAre DEF PhaseIs
    <3> QED
      BY <2>1, <2>4, <2>6, <3>1 DEF RowIs, Reached
  <2>7. CASE ~active.told /\ active.phase = "arrived"
    <3>1. Ran("arrived") /\ ~Ran("start")
      BY <2>1, <2>2, <2>7, EventsAre DEF PhaseIs
    <3> QED
      BY <2>1, <2>7, <3>1 DEF RowIs, Reached
  <2>8. CASE ~active.told /\ active.phase = "in_progress"
    <3>1. Ran("start") /\ ~Ran("complete")
      BY <2>1, <2>2, <2>8, EventsAre DEF PhaseIs
    <3> QED
      BY <2>1, <2>8, <3>1 DEF RowIs, Reached
  <2> QED
    BY <2>3, <2>5, <2>6, <2>7, <2>8
<1>2. Spec => []InStep
  BY InitInStep, StepInStep, InvAlways, PTL DEF Spec
<1> QED
  BY <1>1, <1>2, InvAlways, PTL
=============================================================================
