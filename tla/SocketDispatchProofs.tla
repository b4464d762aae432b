------------------------- MODULE SocketDispatchProofs -------------------------
(***************************************************************************)
(* Proofs about SocketDispatch for any number of drivers, rides and        *)
(* handlers, and any number of faults.                                     *)
(*                                                                         *)
(* The argument: the properties of a ride r relate its driver d in the     *)
(* row, its claim c, the driver i in its hash, the drivers a announced,    *)
(* its upsets u and the accepts among the handlers hs that were granted a  *)
(* claim.  Safe(hs, r, d, c, i, a, u) is inductive in those.  An action    *)
(* that involves no such accept changes none of them (Unseen); every other *)
(* action concerns one ride and leaves the others alone, so what remains   *)
(* is one lemma per action of an accept, the expiry and the crash.         *)
(* The last section shows that a ride with a driver keeps him, from which  *)
(* it follows that the rider is told of one driver only.                   *)
(***************************************************************************)
EXTENDS SocketDispatch, FiniteSetTheorems, TLAPS

Stages == {"record", "call", "withdraw", "release", "clear", "reset"}

Messages == [step : Steps, event : Event, user : Users, ride : Rides]

\* The accepts of r that were granted a claim, and those that hold it, when
\* the handlers are hs: Accepting and Holders with their state as a parameter.
AcceptingIn(hs, r) ==
  {h \in Handlers : hs[h].event = "accept" /\ hs[h].ride = r /\ hs[h].step \in Stages}
HoldersIn(hs, r) == {h \in AcceptingIn(hs, r) : hs[h].step \notin {"clear", "reset"}}

\* The steps of an accept belong to an accept, and an accept to a driver.  Only
\* a request without a lock is between its check and its write.
Coherent ==
  \A h \in Handlers :
    /\ handler[h].step # "idle" => handler[h] \in Messages
    /\ handler[h].step \in {"release", "clear", "reset"} => handler[h].event = "accept"
    /\ handler[h].event = "accept" => handler[h].user \in Drivers
    /\ handler[h].step = "write" => handler[h].event \in {"arrived", "start", "cancel"}

\* Whoever is about to be announced, or was, is the driver of the ride.
Settled(hs, r, d, a) ==
  /\ a \subseteq {d}
  /\ \A h \in AcceptingIn(hs, r) : hs[h].step = "withdraw" => d = hs[h].user

\* Until a claim expires early, it is in the key and has one holder.
Exclusive(hs, r, c, u) ==
  "expired" \notin u =>
    \A h \in HoldersIn(hs, r) : c = hs[h].user /\ \A g \in HoldersIn(hs, r) : g = h

\* ClaimIsHeld, of one ride.
Held(hs, r, d, c, u) ==
  c # None /\ "fault" \notin u => d = c \/ \E h \in HoldersIn(hs, r) : hs[h].user = c

\* On an undisturbed ride accepts come one after the other ...
Alone(hs, r, u) == u = {} => \A h, g \in AcceptingIn(hs, r) : g = h

\* ... each keeps the row and the hash in step ...
InStep(hs, r, d, i, u) ==
  u = {} => \A h \in AcceptingIn(hs, r) :
    /\ IF hs[h].step = "withdraw" THEN d = hs[h].user ELSE d = None
    /\ hs[h].step \in {"record", "reset"} => i = None
    /\ hs[h].step \in {"call", "withdraw"} => i = hs[h].user

\* ... and leaves them in agreement: ParticipantAgrees, of one ride.
Agrees(hs, r, d, i, u) == u = {} /\ AcceptingIn(hs, r) = {} => i = d

Safe(hs, r, d, c, i, a, u) ==
  /\ Settled(hs, r, d, a)
  /\ Exclusive(hs, r, c, u)
  /\ Held(hs, r, d, c, u)
  /\ Alone(hs, r, u)
  /\ InStep(hs, r, d, i, u)
  /\ Agrees(hs, r, d, i, u)

AllSafe ==
  \A r \in Rides :
    Safe(handler, r, row[r].driver, claim[r], info[r].driver, announced[r], upset[r])

IInv == TypeOK /\ Coherent /\ AllSafe

\* Init establishes the inductive invariant.
LEMMA InitIInv == Init => IInv
<1> SUFFICES ASSUME Init PROVE IInv
  OBVIOUS
<1>1. TypeOK /\ Coherent
  BY ConstantsAssumption DEF Init, TypeOK, Coherent, Idle, RowStatus, InfoStatus, Users, Upsets
<1>2. \A r \in Rides : AcceptingIn(handler, r) = {} /\ HoldersIn(handler, r) = {}
  BY DEF Init, AcceptingIn, HoldersIn, Idle
<1>3. AllSafe
  BY <1>2 DEF Init, AllSafe, Safe, Settled, Exclusive, Held, Alone, InStep, Agrees
<1> QED
  BY <1>1, <1>3 DEF IInv

-----------------------------------------------------------------------------
(* Types. *)

\* The types of the handlers, by themselves.
HandlersOK == handler \in [Handlers -> {Idle} \cup Messages] /\ Coherent

\* A handler that takes a further step of its event stays well formed.
LEMMA GotoKeepsHandlers ==
  ASSUME HandlersOK, NEW h \in Handlers, handler[h].step # "idle", NEW s \in Steps, Goto(h, s),
         s \in {"release", "clear", "reset"} => handler[h].event = "accept",
         s = "write" => handler[h].event \in {"arrived", "start", "cancel"}
  PROVE  HandlersOK'
<1>1. handler[h] \in Messages
  BY DEF HandlersOK, Coherent
<1>2. [handler[h] EXCEPT !.step = s] \in Messages
  BY <1>1 DEF Messages
<1>3. handler' = [handler EXCEPT ![h] = [handler[h] EXCEPT !.step = s]]
  BY DEF Goto
<1> DEFINE new == [handler[h] EXCEPT !.step = s]
<1>4. new.step = s /\ new.event = handler[h].event /\ new.user = handler[h].user
  BY <1>1 DEF Messages
<1> HIDE DEF new
<1> QED
  BY <1>2, <1>3, <1>4 DEF HandlersOK, Coherent, new

\* A handler that ends is idle.
LEMMA DoneKeepsHandlers ==
  ASSUME HandlersOK, NEW h \in Handlers, Done(h)
  PROVE  HandlersOK'
BY DEF HandlersOK, Coherent, Done, Idle

\* Every step keeps the handlers well formed.
LEMMA NextKeepsHandlers == HandlersOK /\ Next => HandlersOK'
<1> SUFFICES ASSUME HandlersOK, Next PROVE HandlersOK'
  OBVIOUS
<1>1. ASSUME NEW h \in Handlers, ReceiveStep(h) PROVE HandlersOK'
  <2>1. ASSUME NEW event \in Event, NEW u \in Users, NEW r \in Rides,
               NEW step \in {"book", "claim", "check"}, Receive(h, event, u, r, step),
               event = "accept" => u \in Drivers
        PROVE  HandlersOK'
    <3> DEFINE new == [step |-> step, event |-> event, user |-> u, ride |-> r]
    <3>1. new \in Messages
      BY DEF Messages, Steps
    <3>2. handler' = [handler EXCEPT ![h] = new]
      BY <2>1 DEF Receive
    <3>3. new.step = step /\ new.event = event /\ new.user = u
      OBVIOUS
    <3> HIDE DEF new
    <3> QED
      BY <2>1, <3>1, <3>2, <3>3 DEF HandlersOK, Coherent
  <2> QED
    BY <1>1, <2>1
       DEF ReceiveStep, ReceiveBook, ReceiveAccept, ReceiveArrived, ReceiveMove, Event, Moves, Users
<1>2. ASSUME NEW h \in Handlers, AcceptStep(h) \/ OtherStep(h) PROVE HandlersOK'
  BY <1>2, GotoKeepsHandlers, DoneKeepsHandlers
     DEF AcceptStep, ClaimRide, RefuseClaim, RecordClaim, AnnounceDriver, ReleaseClaim,
         ClearRideDriver, ResetStatus, OtherStep, CreateRideInfo, OfferRide, Decide,
         CheckParticipant, LookUpParticipant, RecordMove, WithdrawOffer, At, Steps
<1>3. ASSUME NEW h \in Handlers, ApiStep(h) \/ FailStep(h) PROVE HandlersOK'
  <2>1. CASE ApiReads(h)
    BY <2>1, GotoKeepsHandlers DEF ApiReads, Allows, Locked, Steps
  <2>2. CASE ApiStep(h) /\ ~ApiReads(h)
    BY <2>2, GotoKeepsHandlers, DoneKeepsHandlers
       DEF ApiStep, ApiAccepts, ApiRefuses, LoseRequest, LoseAnswer, Serves, GiveUp, Steps
  <2>3. CASE FailStep(h)
    BY <2>3, GotoKeepsHandlers, DoneKeepsHandlers
       DEF FailStep, RedisThrows, WithdrawFails, CleanupFails, At, Steps, HandlersOK, Coherent
  <2> QED
    BY <1>3, <2>1, <2>2, <2>3
<1>4. ASSUME Crash PROVE HandlersOK'
  BY <1>4 DEF Crash, HandlersOK, Coherent, Idle
<1>5. ASSUME UNCHANGED handler PROVE HandlersOK'
  BY <1>5 DEF HandlersOK, Coherent
<1> QED
  BY <1>1, <1>2, <1>3, <1>4, <1>5 DEF Next, EndOverRest, ClaimExpires, OfferExpires

\* The types of the row and of the keys.
KeysOK ==
  /\ row \in [Rides -> [status : RowStatus, driver : Drivers \cup {None}]]
  /\ pending \in [Rides -> BOOLEAN]
  /\ claim \in [Rides -> Drivers \cup {None}]
  /\ info \in [Rides -> [rider : BOOLEAN, driver : Drivers \cup {None}, status : InfoStatus]]
  /\ announced \in [Rides -> SUBSET Drivers]
  /\ upset \in [Rides -> SUBSET Upsets]

\* A handler at work has a ride and a user, and an accept has a driver.
LEMMA ActorOK ==
  ASSUME Coherent, NEW h \in Handlers, handler[h].step # "idle"
  PROVE  /\ handler[h].ride \in Rides
         /\ handler[h].event = "accept" => handler[h].user \in Drivers
BY DEF Coherent, Messages

\* A write of the hash: it changes the driver at an accept alone.
LEMMA HashIsUpdated ==
  ASSUME KeysOK, Coherent, NEW h \in Handlers, UpdateHash(h)
  PROVE  /\ info' \in [Rides -> [rider : BOOLEAN, driver : Drivers \cup {None},
                                status : InfoStatus]]
         /\ ~At(h, "record", {"accept"}) =>
              \A q \in Rides : info'[q].driver = info[q].driver
         /\ \A q \in Rides : q # handler[h].ride => info'[q] = info[q]
<1>1. handler[h].ride \in Rides /\ (handler[h].event = "accept" => handler[h].user \in Drivers)
  BY ActorOK DEF UpdateHash, At
<1>2. {"claimed", "pending", "in_progress", "completed", "cancelled"} \subseteq InfoStatus
  BY DEF InfoStatus
<1> DEFINE r == handler[h].ride
<1>3. ASSUME NEW d \in Drivers, NEW s \in InfoStatus,
             info' = [info EXCEPT ![r].driver = d, ![r].status = s]
      PROVE  /\ info' \in [Rides -> [rider : BOOLEAN, driver : Drivers \cup {None},
                                    status : InfoStatus]]
             /\ \A q \in Rides : q # r => info'[q] = info[q]
  BY <1>1, <1>3 DEF KeysOK
<1>4. ASSUME NEW s \in InfoStatus,
             \/ info' = [info EXCEPT ![r].rider = TRUE, ![r].status = s]
             \/ info' = [info EXCEPT ![r].status = s]
      PROVE  /\ info' \in [Rides -> [rider : BOOLEAN, driver : Drivers \cup {None},
                                    status : InfoStatus]]
             /\ \A q \in Rides : info'[q].driver = info[q].driver
             /\ \A q \in Rides : q # r => info'[q] = info[q]
  <2> DEFINE new == [info[r] EXCEPT !.rider = info'[r].rider, !.status = s]
  <2>1. info[r] \in [rider : BOOLEAN, driver : Drivers \cup {None}, status : InfoStatus]
    BY <1>1 DEF KeysOK
  <2>2. /\ info' = [info EXCEPT ![r] = new]
        /\ new \in [rider : BOOLEAN, driver : Drivers \cup {None}, status : InfoStatus]
        /\ new.driver = info[r].driver
    <3>1. CASE info' = [info EXCEPT ![r].rider = TRUE, ![r].status = s]
      BY <1>1, <2>1, <3>1 DEF KeysOK
    <3>2. CASE info' = [info EXCEPT ![r].status = s]
      BY <1>1, <2>1, <3>2 DEF KeysOK
    <3> QED
      BY <1>4, <3>1, <3>2
  <2> HIDE DEF new
  <2> QED
    BY <1>1, <2>2 DEF KeysOK
<1>5. At(h, "record", Moves) => Recorded[handler[h].event] \in InfoStatus
  BY DEF At, Recorded, Moves, InfoStatus
<1>6. CASE At(h, "record", {"accept"})
  <2>1. /\ info' = [info EXCEPT ![r].driver = handler[h].user, ![r].status = "claimed"]
        /\ handler[h].user \in Drivers
    BY <1>1, <1>6 DEF UpdateHash, At, Moves
  <2> QED
    BY <1>2, <1>3, <1>6, <2>1
<1>7. CASE ~At(h, "record", {"accept"})
  <2>1. \E s \in InfoStatus : \/ info' = [info EXCEPT ![r].rider = TRUE, ![r].status = s]
                             \/ info' = [info EXCEPT ![r].status = s]
    BY <1>2, <1>5, <1>7 DEF UpdateHash
  <2> QED
    BY <1>4, <2>1
<1> QED
  BY <1>6, <1>7

\* What an accept does to the keys keeps their types.
LEMMA AcceptKeepsKeys ==
  ASSUME KeysOK, Coherent, NEW h \in Handlers, AcceptStep(h)
  PROVE  KeysOK'
<1>1. handler[h].step # "idle" /\ handler[h].event = "accept"
  BY DEF AcceptStep, ClaimRide, RefuseClaim, RecordClaim, AnnounceDriver, ReleaseClaim,
         ClearRideDriver, ResetStatus, At
<1>2. handler[h].ride \in Rides /\ handler[h].user \in Drivers
  BY <1>1, ActorOK
<1>4. CASE ClaimRide(h)
  <2>1. claim' \in [Rides -> Drivers \cup {None}]
    BY <1>2, <1>4 DEF KeysOK, ClaimRide
  <2>2. upset' \in [Rides -> SUBSET Upsets]
    BY <1>2, <1>4 DEF KeysOK, ClaimRide, Upset, Upsets
  <2> QED
    BY <1>4, <2>1, <2>2 DEF KeysOK, ClaimRide
<1>5. CASE RecordClaim(h)
  BY <1>5, HashIsUpdated DEF KeysOK, RecordClaim
<1>6. CASE ClearRideDriver(h)
  <2>1. info' \in [Rides -> [rider : BOOLEAN, driver : Drivers \cup {None},
                            status : InfoStatus]]
    BY <1>2, <1>6 DEF KeysOK, ClearRideDriver
  <2> QED
    BY <1>6, <2>1 DEF KeysOK, ClearRideDriver
<1>7. CASE ResetStatus(h)
  BY <1>7, HashIsUpdated DEF KeysOK, ResetStatus
<1>8. CASE RefuseClaim(h)
  BY <1>8 DEF KeysOK, RefuseClaim
<1>9. CASE AnnounceDriver(h)
  BY <1>2, <1>9 DEF KeysOK, AnnounceDriver
<1>10. CASE ReleaseClaim(h)
  BY <1>2, <1>10 DEF KeysOK, ReleaseClaim
<1> QED
  BY <1>4, <1>5, <1>6, <1>7, <1>8, <1>9, <1>10 DEF AcceptStep

\* What the other events do to the keys keeps their types.
LEMMA OtherKeepsKeys ==
  ASSUME KeysOK, Coherent, NEW h \in Handlers, OtherStep(h)
  PROVE  KeysOK'
<1>1. handler[h].ride \in Rides
  BY ActorOK DEF OtherStep, CreateRideInfo, OfferRide, CheckParticipant, LookUpParticipant,
                 RecordMove, WithdrawOffer, At
<1>2. CASE CreateRideInfo(h)
  BY <1>2, HashIsUpdated DEF KeysOK, CreateRideInfo
<1>3. CASE RecordMove(h)
  BY <1>3, HashIsUpdated DEF KeysOK, RecordMove
<1>4. CASE OfferRide(h) \/ WithdrawOffer(h)
  BY <1>1, <1>4 DEF KeysOK, OfferRide, WithdrawOffer
<1>5. CASE CheckParticipant(h) \/ LookUpParticipant(h)
  BY <1>5 DEF KeysOK, CheckParticipant, LookUpParticipant
<1> QED
  BY <1>2, <1>3, <1>4, <1>5 DEF OtherStep

\* The API writes a status and the driver that accepts.
LEMMA ApplyKeepsRow ==
  ASSUME KeysOK, Coherent, NEW h \in Handlers, Serves(h),
         Apply(handler[h].event, handler[h].user, handler[h].ride)
  PROVE  row' \in [Rides -> [status : RowStatus, driver : Drivers \cup {None}]]
<1>1. handler[h].ride \in Rides /\ (handler[h].event = "accept" => handler[h].user \in Drivers)
  BY ActorOK DEF Serves
<1>2. StatusAfter[handler[h].event] \in RowStatus
  BY DEF Coherent, Serves, Locked, StatusAfter, RowStatus
<1> QED
  BY <1>1, <1>2 DEF KeysOK, Apply

\* The calls of the API, the failures and the crash keep the types of the keys.
LEMMA ApiAndFailuresKeepKeys ==
  ASSUME KeysOK, Coherent,
         Crash \/ \E h \in Handlers : ApiStep(h) \/ FailStep(h)
  PROVE  KeysOK'
<1>1. ASSUME NEW h \in Handlers, ApiAccepts(h) PROVE KeysOK'
  BY <1>1, ApplyKeepsRow DEF KeysOK, ApiAccepts
<1>2. ASSUME NEW h \in Handlers, ApiReads(h) \/ ApiRefuses(h) \/ LoseRequest(h) PROVE KeysOK'
  BY <1>2 DEF KeysOK, ApiReads, ApiRefuses, LoseRequest
<1>3. ASSUME NEW h \in Handlers, LoseAnswer(h) PROVE KeysOK'
  <2>1. row' \in [Rides -> [status : RowStatus, driver : Drivers \cup {None}]]
    BY <1>3, ApplyKeepsRow DEF LoseAnswer
  <2>2. upset' \in [Rides -> SUBSET Upsets]
    BY <1>3 DEF KeysOK, LoseAnswer, Upset, Upsets
  <2> QED
    BY <1>3, <2>1, <2>2 DEF KeysOK, LoseAnswer
<1>4. ASSUME NEW h \in Handlers, RedisThrows(h) \/ CleanupFails(h) PROVE KeysOK'
  <2>1. upset' \in [Rides -> SUBSET Upsets]
    BY <1>4 DEF KeysOK, RedisThrows, CleanupFails, Upset, Upsets
  <2>2. info' \in [Rides -> [rider : BOOLEAN, driver : Drivers \cup {None},
                            status : InfoStatus]]
    BY <1>4, HashIsUpdated DEF KeysOK, RedisThrows, CleanupFails
  <2>3. pending' \in [Rides -> BOOLEAN]
    BY <1>4 DEF KeysOK, RedisThrows, CleanupFails
  <2> QED
    BY <1>4, <2>1, <2>2, <2>3 DEF KeysOK, RedisThrows, CleanupFails
<1>5. ASSUME NEW h \in Handlers, WithdrawFails(h) PROVE KeysOK'
  <2>1. handler[h].user \in Drivers
    BY <1>5, ActorOK DEF WithdrawFails, At
  <2> QED
    BY <1>5, <2>1 DEF KeysOK, WithdrawFails
<1>6. ASSUME Crash PROVE KeysOK'
  <2>1. row' \in [Rides -> [status : RowStatus, driver : Drivers \cup {None}]]
    BY <1>6, ApplyKeepsRow DEF KeysOK, Crash
  <2>2. upset' \in [Rides -> SUBSET Upsets]
    BY <1>6 DEF KeysOK, Crash, Upsets
  <2> QED
    BY <1>6, <2>1, <2>2 DEF KeysOK, Crash
<1> QED
  BY <1>1, <1>2, <1>3, <1>4, <1>5, <1>6 DEF ApiStep, FailStep

\* Every step counts its events and its faults within the bounds.
LEMMA NextKeepsBounds ==
  ASSUME events \in 0..MaxEvents, faults \in 0..MaxFaults, Next
  PROVE  events' \in 0..MaxEvents /\ faults' \in 0..MaxFaults
<1> DEFINE Bounded == events' \in 0..MaxEvents /\ faults' \in 0..MaxFaults
<1>1. ASSUME NEW h \in Handlers, ReceiveStep(h) PROVE Bounded
  BY <1>1, ConstantsAssumption
     DEF ReceiveStep, ReceiveBook, ReceiveAccept, ReceiveArrived, ReceiveMove, Receive
<1>2. ASSUME NEW h \in Handlers, AcceptStep(h) \/ OtherStep(h) PROVE Bounded
  BY <1>2 DEF AcceptStep, ClaimRide, RefuseClaim, RecordClaim, AnnounceDriver, ReleaseClaim,
              ClearRideDriver, ResetStatus, OtherStep, CreateRideInfo, OfferRide,
              CheckParticipant, LookUpParticipant, RecordMove, WithdrawOffer
<1>3. ASSUME NEW h \in Handlers, ApiStep(h) \/ FailStep(h) \/ Crash PROVE Bounded
  <2>1. events' = events /\ (faults' = faults \/ Fault)
    BY <1>3 DEF ApiStep, ApiReads, ApiAccepts, ApiRefuses, LoseRequest, LoseAnswer, FailStep,
                RedisThrows, WithdrawFails, CleanupFails, Crash
  <2> QED
    BY <2>1, ConstantsAssumption DEF Fault
<1>4. ASSUME Crash PROVE Bounded
  BY <1>4, ConstantsAssumption DEF Crash, Fault
<1>5. ASSUME NEW r \in Rides, EndOverRest(r) \/ ClaimExpires(r) \/ OfferExpires(r)
      PROVE  Bounded
  BY <1>5 DEF EndOverRest, ClaimExpires, OfferExpires
<1> QED
  BY <1>1, <1>2, <1>3, <1>4, <1>5 DEF Next

\* Every step keeps the variables in their types.
LEMMA NextKeepsTypes == TypeOK /\ Coherent /\ Next => TypeOK' /\ Coherent'
<1> SUFFICES ASSUME TypeOK, Coherent, Next PROVE TypeOK' /\ Coherent'
  OBVIOUS
<1>1. HandlersOK'
  BY NextKeepsHandlers DEF HandlersOK, TypeOK, Messages
<1>2. KeysOK
  BY DEF TypeOK, KeysOK
<1>3. KeysOK'
  <2>1. ASSUME NEW h \in Handlers, ReceiveStep(h) PROVE KeysOK'
    BY <1>2, <2>1 DEF KeysOK, ReceiveStep, ReceiveBook, ReceiveAccept, ReceiveArrived,
                      ReceiveMove, Receive
  <2>2. ASSUME NEW r \in Rides, EndOverRest(r) PROVE KeysOK'
    <3>1. "cancelled" \in RowStatus
      BY DEF RowStatus
    <3> QED
      BY <1>2, <2>2, <3>1 DEF KeysOK, EndOverRest
  <2>3. ASSUME NEW r \in Rides, ClaimExpires(r) PROVE KeysOK'
    BY <1>2, <2>3 DEF KeysOK, ClaimExpires, Upset, Upsets
  <2>4. ASSUME NEW r \in Rides, OfferExpires(r) PROVE KeysOK'
    BY <1>2, <2>4 DEF KeysOK, OfferExpires
  <2> QED
    BY <1>2, <2>1, <2>2, <2>3, <2>4, AcceptKeepsKeys, OtherKeepsKeys, ApiAndFailuresKeepKeys
       DEF Next
<1>4. events' \in 0..MaxEvents /\ faults' \in 0..MaxFaults
  BY NextKeepsBounds DEF TypeOK
<1> QED
  BY <1>1, <1>3, <1>4 DEF TypeOK, KeysOK, HandlersOK, Messages

-----------------------------------------------------------------------------
(* Safety. *)

\* An accept under way, its driver and the sets it is in.
LEMMA AcceptMembers ==
  ASSUME Coherent, NEW q \in Rides
  PROVE  /\ \A g \in AcceptingIn(handler, q) :
              g \in Handlers /\ handler[g].user \in Drivers /\ handler[g].user # None
         /\ HoldersIn(handler, q) \subseteq AcceptingIn(handler, q)
         /\ Holders(q) = HoldersIn(handler, q)
         /\ Accepting(q) = AcceptingIn(handler, q)
BY ConstantsAssumption
   DEF Coherent, AcceptingIn, HoldersIn, Accepting, Holders, Stages

\* A step changes nothing that Safe says of ride r, or only adds an upset.
Unseen(r) ==
  /\ AcceptingIn(handler', r) = AcceptingIn(handler, r)
  /\ \A h \in AcceptingIn(handler, r) : handler'[h] = handler[h]
  /\ row'[r].driver = row[r].driver
  /\ info'[r].driver = info[r].driver
  /\ claim'[r] = claim[r]
  /\ announced'[r] = announced[r]
  /\ upset[r] \subseteq upset'[r]

SafeNext(r) ==
  Safe(handler', r, row'[r].driver, claim'[r], info'[r].driver, announced'[r], upset'[r])

\* An unseen step keeps the ride safe.
LEMMA UnseenKeepsSafe ==
  ASSUME AllSafe, NEW r \in Rides, Unseen(r)
  PROVE  SafeNext(r)
<1>1. /\ HoldersIn(handler', r) = HoldersIn(handler, r)
      /\ \A h \in HoldersIn(handler, r) : handler'[h] = handler[h]
  BY DEF Unseen, HoldersIn
<1>2. upset'[r] = {} => upset[r] = {}
  BY DEF Unseen
<1> QED
  BY <1>1, <1>2
     DEF AllSafe, Unseen, SafeNext, Safe, Settled, Exclusive, Held, Alone, InStep, Agrees

\* A step of handler h leaves the accepts of the other handlers as they are.
LEMMA OtherAcceptsStay ==
  ASSUME TypeOK, NEW h \in Handlers, NEW new, handler' = [handler EXCEPT ![h] = new],
         NEW q \in Rides
  PROVE  /\ \A g \in Handlers : g # h => handler'[g] = handler[g]
         /\ handler'[h] = new
         /\ AcceptingIn(handler', q) \ {h} = AcceptingIn(handler, q) \ {h}
         /\ HoldersIn(handler', q) \ {h} = HoldersIn(handler, q) \ {h}
<1>1. /\ \A g \in Handlers : g # h => handler'[g] = handler[g]
      /\ handler'[h] = new
  BY DEF TypeOK
<1> QED
  BY <1>1 DEF AcceptingIn, HoldersIn

\* A handler that goes on changes only its step.
LEMMA GotoMoves ==
  ASSUME TypeOK, Coherent, NEW h \in Handlers, handler[h].step # "idle", NEW s, Goto(h, s)
  PROVE  \E new : /\ handler' = [handler EXCEPT ![h] = new]
                 /\ new.step = s /\ new.event = handler[h].event
                 /\ new.user = handler[h].user /\ new.ride = handler[h].ride
<1> DEFINE new == [handler[h] EXCEPT !.step = s]
<1>1. new.step = s /\ new.event = handler[h].event
        /\ new.user = handler[h].user /\ new.ride = handler[h].ride
  BY DEF Coherent, Messages
<1>2. handler' = [handler EXCEPT ![h] = new]
  BY DEF Goto
<1> QED
  BY <1>1, <1>2

\* A step of an accept that has a claim, from one stage to another, on ride r.
LEMMA AcceptGoesOn ==
  ASSUME TypeOK, Coherent, NEW h \in Handlers, handler[h].event = "accept",
         handler[h].step \in Stages, NEW s \in Stages, Goto(h, s), NEW q \in Rides
  PROVE  /\ AcceptingIn(handler', q) = AcceptingIn(handler, q)
         /\ HoldersIn(handler', q) \ {h} = HoldersIn(handler, q) \ {h}
         /\ \A g \in Handlers : handler'[g].user = handler[g].user
         /\ \A g \in Handlers : g # h => handler'[g] = handler[g]
         /\ handler'[h].step = s
         /\ h \in AcceptingIn(handler, handler[h].ride)
         /\ q # handler[h].ride => h \notin AcceptingIn(handler, q)
<1>1. handler[h].step # "idle"
  BY DEF Stages
<1>2. PICK new : /\ handler' = [handler EXCEPT ![h] = new]
                 /\ new.step = s /\ new.event = handler[h].event
                 /\ new.user = handler[h].user /\ new.ride = handler[h].ride
  BY <1>1, GotoMoves
<1>3. /\ \A g \in Handlers : g # h => handler'[g] = handler[g]
      /\ handler'[h] = new
      /\ HoldersIn(handler', q) \ {h} = HoldersIn(handler, q) \ {h}
  BY <1>2, OtherAcceptsStay
<1> QED
  BY <1>2, <1>3 DEF AcceptingIn

\* The end of an accept that has a claim.
LEMMA AcceptEnds ==
  ASSUME TypeOK, Coherent, NEW h \in Handlers, Done(h), NEW q \in Rides
  PROVE  /\ AcceptingIn(handler', q) = AcceptingIn(handler, q) \ {h}
         /\ HoldersIn(handler', q) = HoldersIn(handler, q) \ {h}
         /\ \A g \in Handlers : g # h => handler'[g] = handler[g]
<1>1. handler' = [handler EXCEPT ![h] = Idle]
  BY DEF Done
<1>2. /\ AcceptingIn(handler', q) \ {h} = AcceptingIn(handler, q) \ {h}
      /\ HoldersIn(handler', q) \ {h} = HoldersIn(handler, q) \ {h}
      /\ \A g \in Handlers : g # h => handler'[g] = handler[g]
      /\ handler'[h] = Idle
  BY <1>1, OtherAcceptsStay
<1>3. h \notin AcceptingIn(handler', q) /\ h \notin HoldersIn(handler', q)
  BY <1>2 DEF AcceptingIn, HoldersIn, Idle
<1> QED
  BY <1>2, <1>3

-----------------------------------------------------------------------------
(* The steps of an accept, each on its ride. *)

\* The claim of a ride is granted: nobody held it, or it had expired.
LEMMA ClaimRideIsSafe ==
  ASSUME TypeOK, Coherent, AllSafe, NEW h \in Handlers, ClaimRide(h), NEW q \in Rides
  PROVE  SafeNext(q)
<1> DEFINE r == handler[h].ride
           d == handler[h].user
<1>1. r \in Rides /\ d \in Drivers /\ d # None /\ handler[h].step = "claim"
  BY ActorOK, ConstantsAssumption DEF ClaimRide, At
<1>2. PICK new : /\ handler' = [handler EXCEPT ![h] = new]
                 /\ new.step = "record" /\ new.event = "accept"
                 /\ new.user = d /\ new.ride = r
  BY <1>1, GotoMoves DEF ClaimRide, At
<1>3. /\ \A g \in Handlers : g # h => handler'[g] = handler[g]
      /\ handler'[h] = new
      /\ AcceptingIn(handler', q) \ {h} = AcceptingIn(handler, q) \ {h}
      /\ HoldersIn(handler', q) \ {h} = HoldersIn(handler, q) \ {h}
  BY <1>2, OtherAcceptsStay
<1>4. h \notin AcceptingIn(handler, q) /\ h \notin HoldersIn(handler, q)
  BY <1>1 DEF AcceptingIn, HoldersIn, Stages
<1>5. UNCHANGED <<row, info, announced>>
  BY DEF ClaimRide
<1>6. CASE q # r
  <2>1. AcceptingIn(handler', q) = AcceptingIn(handler, q)
    BY <1>2, <1>3, <1>4, <1>6 DEF AcceptingIn
  <2>2. claim'[q] = claim[q] /\ upset'[q] = upset[q]
    BY <1>1, <1>6 DEF ClaimRide, Upset, TypeOK
  <2>3. Unseen(q)
    BY <1>3, <1>4, <1>5, <2>1, <2>2 DEF Unseen, AcceptingIn
  <2> QED
    BY <2>3, UnseenKeepsSafe
<1>7. CASE q = r
  <2>1. claim[q] = None /\ claim'[q] = d
    BY <1>1, <1>7 DEF ClaimRide, TypeOK
  <2>2. upset'[q] = upset[q] \cup {u \in {"late"} : row[q].driver # None}
                            \cup {u \in {"overtaken"} : AcceptingIn(handler, q) # {}}
    <3>1. Accepting(q) = AcceptingIn(handler, q)
      BY AcceptMembers
    <3> QED
      BY <1>1, <1>7, <3>1 DEF ClaimRide, Upset, TypeOK
  <2>3. /\ upset'[q] = {} => /\ upset[q] = {} /\ row[q].driver = None
                             /\ AcceptingIn(handler, q) = {}
        /\ "expired" \notin upset'[q] => "expired" \notin upset[q]
    BY <2>2
  <2>4. /\ AcceptingIn(handler', q) = AcceptingIn(handler, q) \cup {h}
        /\ HoldersIn(handler', q) = HoldersIn(handler, q) \cup {h}
    BY <1>2, <1>3, <1>4, <1>7 DEF AcceptingIn, HoldersIn, Stages
  <2>5. \A g \in AcceptingIn(handler, q) : handler'[g] = handler[g] /\ handler[g].user # None
    BY <1>3, <1>4, AcceptMembers
  <2>6. HoldersIn(handler, q) \subseteq AcceptingIn(handler, q)
    BY AcceptMembers
  <2>7. /\ handler'[h].step = "record" /\ handler'[h].user = d
    BY <1>2, <1>3
  <2>8. Safe(handler, q, row[q].driver, claim[q], info[q].driver, announced[q], upset[q])
    BY DEF AllSafe
  <2>9. Settled(handler', q, row'[q].driver, announced'[q])
    BY <1>5, <2>4, <2>5, <2>7, <2>8 DEF Safe, Settled
  <2>10. Exclusive(handler', q, claim'[q], upset'[q])
    <3>1. "expired" \notin upset'[q] => HoldersIn(handler, q) = {}
      BY <2>1, <2>3, <2>5, <2>6, <2>8 DEF Safe, Exclusive
    <3> QED
      BY <2>1, <2>4, <2>7, <3>1 DEF Exclusive
  <2>11. Held(handler', q, row'[q].driver, claim'[q], upset'[q])
    BY <2>1, <2>4, <2>7 DEF Held
  <2>12. Alone(handler', q, upset'[q])
    BY <2>3, <2>4 DEF Alone
  <2>13. InStep(handler', q, row'[q].driver, info'[q].driver, upset'[q])
    BY <1>5, <2>3, <2>4, <2>7, <2>8 DEF InStep, Safe, Agrees
  <2>14. Agrees(handler', q, row'[q].driver, info'[q].driver, upset'[q])
    BY <2>4 DEF Agrees
  <2> QED
    BY <2>9, <2>10, <2>11, <2>12, <2>13, <2>14 DEF SafeNext, Safe
<1> QED
  BY <1>6, <1>7

\* What every further step of an accept does to the ride it is not about.
LEMMA OtherRidesUnseen ==
  ASSUME TypeOK, Coherent, NEW h \in Handlers, handler[h].event = "accept",
         handler[h].step \in Stages,
         Done(h) \/ \E s \in Stages : Goto(h, s),
         NEW q \in Rides, q # handler[h].ride,
         row'[q].driver = row[q].driver, info'[q].driver = info[q].driver,
         claim'[q] = claim[q], announced'[q] = announced[q], upset[q] \subseteq upset'[q]
  PROVE  Unseen(q)
<1>1. h \notin AcceptingIn(handler, q)
  BY DEF AcceptingIn
<1>2. AcceptingIn(handler, q) \subseteq Handlers
  BY DEF AcceptingIn
<1>3. CASE Done(h)
  <2>1. /\ AcceptingIn(handler', q) = AcceptingIn(handler, q) \ {h}
        /\ \A g \in Handlers : g # h => handler'[g] = handler[g]
    BY <1>3, AcceptEnds
  <2>2. AcceptingIn(handler', q) = AcceptingIn(handler, q)
    BY <1>1, <2>1
  <2> QED
    BY <1>1, <1>2, <2>1, <2>2 DEF Unseen
<1>4. CASE \E s \in Stages : Goto(h, s)
  <2>1. PICK s \in Stages : Goto(h, s)
    BY <1>4
  <2>2. /\ AcceptingIn(handler', q) = AcceptingIn(handler, q)
        /\ \A g \in Handlers : g # h => handler'[g] = handler[g]
    BY <2>1, AcceptGoesOn
  <2> QED
    BY <1>1, <1>2, <2>2 DEF Unseen
<1> QED
  BY <1>3, <1>4

\* The hash is written: the driver is now the one the API will be asked for.
LEMMA RecordClaimIsSafe ==
  ASSUME TypeOK, Coherent, AllSafe, NEW h \in Handlers, RecordClaim(h), NEW q \in Rides
  PROVE  SafeNext(q)
<1> DEFINE r == handler[h].ride
           d == handler[h].user
<1>1. /\ handler[h].step = "record" /\ handler[h].event = "accept"
      /\ handler[h].step \in Stages /\ "call" \in Stages /\ Goto(h, "call")
      /\ UNCHANGED <<row, claim, announced, upset>>
  BY DEF RecordClaim, At, Stages
<1>2. r \in Rides
  BY <1>1, ActorOK DEF Stages
<1>3. CASE q # r
  <2>1. info'[q].driver = info[q].driver
    BY <1>1, <1>2, <1>3 DEF RecordClaim, UpdateHash, At, Moves, TypeOK
  <2> QED
    BY <1>1, <1>3, <2>1, OtherRidesUnseen, UnseenKeepsSafe
<1>4. CASE q = r
  <2>1. info'[q].driver = d
    BY <1>1, <1>2, <1>4 DEF RecordClaim, UpdateHash, At, Moves, TypeOK
  <2>2. /\ AcceptingIn(handler', q) = AcceptingIn(handler, q)
        /\ \A g \in Handlers : handler'[g].user = handler[g].user
        /\ \A g \in Handlers : g # h => handler'[g] = handler[g]
        /\ handler'[h].step = "call" /\ h \in AcceptingIn(handler, q)
    BY <1>1, <1>4, AcceptGoesOn
  <2>3. HoldersIn(handler', q) = HoldersIn(handler, q)
    BY <1>1, <2>2 DEF HoldersIn, AcceptingIn
  <2>4. AcceptingIn(handler, q) \subseteq Handlers /\ HoldersIn(handler, q) \subseteq Handlers
    BY DEF AcceptingIn, HoldersIn
  <2>5. Safe(handler, q, row[q].driver, claim[q], info[q].driver, announced[q], upset[q])
    BY DEF AllSafe
  <2>6. Settled(handler', q, row'[q].driver, announced'[q])
    BY <1>1, <2>2, <2>4, <2>5 DEF Safe, Settled
  <2>7. /\ Exclusive(handler', q, claim'[q], upset'[q])
        /\ Held(handler', q, row'[q].driver, claim'[q], upset'[q])
    BY <1>1, <2>2, <2>3, <2>4, <2>5 DEF Safe, Exclusive, Held
  <2>8. Alone(handler', q, upset'[q])
    BY <1>1, <2>2, <2>5 DEF Safe, Alone
  <2>9. InStep(handler', q, row'[q].driver, info'[q].driver, upset'[q])
    BY <1>1, <2>1, <2>2, <2>4, <2>5 DEF Safe, Alone, InStep
  <2>10. Agrees(handler', q, row'[q].driver, info'[q].driver, upset'[q])
    BY <2>2 DEF Agrees
  <2> QED
    BY <2>6, <2>7, <2>8, <2>9, <2>10 DEF SafeNext, Safe
<1> QED
  BY <1>3, <1>4

\* The API's part: an accept gives a driver to a ride without one, and no
\* other request changes a driver.
LEMMA ApplyAtRow ==
  ASSUME TypeOK, Coherent, NEW h \in Handlers, Serves(h),
         Apply(handler[h].event, handler[h].user, handler[h].ride),
         NEW q \in Rides
  PROVE  IF handler[h].event = "accept" /\ handler[h].ride = q
         THEN row[q].driver = None /\ row'[q].driver = handler[h].user
         ELSE row'[q].driver = row[q].driver
<1>1. handler[h].ride \in Rides
  BY ActorOK DEF Serves
<1>2. handler[h].event = "accept" => row[handler[h].ride].driver = None
  BY DEF Coherent, Serves, Allows, Accepts
<1> QED
  BY <1>1, <1>2 DEF TypeOK, Apply

\* The accept is answered, and its ride has a driver from now on.
LEMMA ApiAcceptsIsSafe ==
  ASSUME TypeOK, Coherent, AllSafe, NEW h \in Handlers, ApiAccepts(h),
         handler[h].event = "accept", NEW q \in Rides
  PROVE  SafeNext(q)
<1> DEFINE r == handler[h].ride
           d == handler[h].user
<1>1. /\ handler[h].step = "call" /\ handler[h].event = "accept"
      /\ handler[h].step \in Stages /\ "withdraw" \in Stages /\ Goto(h, "withdraw")
      /\ UNCHANGED <<info, claim, announced, upset>>
  BY DEF ApiAccepts, Serves, Coherent, Stages
<1>2. IF r = q THEN row[q].driver = None /\ row'[q].driver = d
               ELSE row'[q].driver = row[q].driver
  BY <1>1, ApplyAtRow DEF ApiAccepts
<1>3. CASE q # r
  BY <1>1, <1>2, <1>3, OtherRidesUnseen, UnseenKeepsSafe
<1>4. CASE q = r
  <2>1. /\ AcceptingIn(handler', q) = AcceptingIn(handler, q)
        /\ \A g \in Handlers : handler'[g].user = handler[g].user
        /\ \A g \in Handlers : g # h => handler'[g] = handler[g]
        /\ handler'[h].step = "withdraw" /\ h \in AcceptingIn(handler, q)
    BY <1>1, <1>4, AcceptGoesOn
  <2>2. HoldersIn(handler', q) = HoldersIn(handler, q)
    BY <1>1, <2>1 DEF HoldersIn, AcceptingIn
  <2>3. /\ \A g \in AcceptingIn(handler, q) : g \in Handlers /\ handler[g].user # None
        /\ HoldersIn(handler, q) \subseteq AcceptingIn(handler, q)
    BY AcceptMembers
  <2>4. Safe(handler, q, row[q].driver, claim[q], info[q].driver, announced[q], upset[q])
    BY DEF AllSafe
  <2>5. announced[q] = {}
    BY <1>2, <1>4, <2>4, ConstantsAssumption DEF Safe, Settled, TypeOK
  <2>6. \A g \in AcceptingIn(handler, q) : handler[g].step # "withdraw"
    BY <1>2, <1>4, <2>3, <2>4 DEF Safe, Settled
  <2>7. Settled(handler', q, row'[q].driver, announced'[q])
    BY <1>1, <1>2, <1>4, <2>1, <2>3, <2>5, <2>6 DEF Settled
  <2>8. /\ Exclusive(handler', q, claim'[q], upset'[q])
        /\ Held(handler', q, row'[q].driver, claim'[q], upset'[q])
    BY <1>1, <1>2, <1>4, <2>1, <2>2, <2>3, <2>4 DEF Safe, Exclusive, Held
  <2>9. Alone(handler', q, upset'[q])
    BY <1>1, <2>1, <2>4 DEF Safe, Alone
  <2>10. InStep(handler', q, row'[q].driver, info'[q].driver, upset'[q])
    BY <1>1, <1>2, <1>4, <2>1, <2>3, <2>4 DEF Safe, Alone, InStep
  <2>11. Agrees(handler', q, row'[q].driver, info'[q].driver, upset'[q])
    BY <2>1 DEF Agrees
  <2> QED
    BY <2>7, <2>8, <2>9, <2>10, <2>11 DEF SafeNext, Safe
<1> QED
  BY <1>3, <1>4

\* The accept is refused, or its answer lost; the ride may have its driver.
LEMMA ApiRefusesIsSafe ==
  ASSUME TypeOK, Coherent, AllSafe, NEW h \in Handlers,
         ApiRefuses(h) \/ LoseRequest(h) \/ LoseAnswer(h),
         handler[h].event = "accept", NEW q \in Rides
  PROVE  SafeNext(q)
<1> DEFINE r == handler[h].ride
           d == handler[h].user
<1>1. /\ handler[h].step = "call" /\ handler[h].event = "accept"
      /\ handler[h].step \in Stages /\ "release" \in Stages /\ Goto(h, "release")
      /\ UNCHANGED <<info, claim, announced>>
  BY DEF ApiRefuses, LoseRequest, LoseAnswer, Serves, Coherent, GiveUp, Stages
<1>2. r \in Rides
  BY <1>1, ActorOK
<1>3. \/ row'[q].driver = row[q].driver /\ upset' = upset
      \/ LoseAnswer(h) /\ IF r = q THEN row[q].driver = None /\ row'[q].driver = d
                                    ELSE row'[q].driver = row[q].driver
  <2>1. CASE LoseAnswer(h)
    BY <1>1, <2>1, ApplyAtRow DEF LoseAnswer
  <2>2. CASE ApiRefuses(h) \/ LoseRequest(h)
    BY <2>2 DEF ApiRefuses, LoseRequest
  <2> QED
    BY <2>1, <2>2
<1>4. LoseAnswer(h) => upset'[q] = IF q = r THEN upset[q] \cup {"fault"} ELSE upset[q]
  BY <1>2 DEF LoseAnswer, Upset, TypeOK
<1>5. CASE q # r
  BY <1>1, <1>3, <1>4, <1>5, OtherRidesUnseen, UnseenKeepsSafe
<1>6. CASE q = r
  <2>1. /\ AcceptingIn(handler', q) = AcceptingIn(handler, q)
        /\ \A g \in Handlers : handler'[g].user = handler[g].user
        /\ \A g \in Handlers : g # h => handler'[g] = handler[g]
        /\ handler'[h].step = "release" /\ h \in AcceptingIn(handler, q)
    BY <1>1, <1>6, AcceptGoesOn
  <2>2. HoldersIn(handler', q) = HoldersIn(handler, q)
    BY <1>1, <2>1 DEF HoldersIn, AcceptingIn
  <2>3. /\ \A g \in AcceptingIn(handler, q) : g \in Handlers /\ handler[g].user # None
        /\ HoldersIn(handler, q) \subseteq AcceptingIn(handler, q)
    BY AcceptMembers
  <2>4. Safe(handler, q, row[q].driver, claim[q], info[q].driver, announced[q], upset[q])
    BY DEF AllSafe
  <2>5. /\ "fault" \notin upset'[q] => upset' = upset /\ row'[q].driver = row[q].driver
        /\ upset[q] \subseteq upset'[q]
    BY <1>3, <1>4, <1>6
  <2>6. Settled(handler', q, row'[q].driver, announced'[q])
    <3>1. CASE row'[q].driver = row[q].driver
      BY <1>1, <2>1, <2>3, <2>4, <3>1 DEF Safe, Settled
    <3>2. CASE row[q].driver = None
      <4>1. announced[q] = {}
        BY <2>4, <3>2, ConstantsAssumption DEF Safe, Settled, TypeOK
      <4>2. \A g \in AcceptingIn(handler, q) : handler[g].step # "withdraw"
        BY <2>3, <2>4, <3>2 DEF Safe, Settled
      <4> QED
        BY <1>1, <2>1, <2>3, <4>1, <4>2 DEF Settled
    <3> QED
      BY <1>3, <1>6, <3>1, <3>2
  <2>7. /\ Exclusive(handler', q, claim'[q], upset'[q])
        /\ Held(handler', q, row'[q].driver, claim'[q], upset'[q])
    BY <1>1, <2>1, <2>2, <2>3, <2>4, <2>5 DEF Safe, Exclusive, Held
  <2>8. upset'[q] = {} => upset[q] = {} /\ row'[q].driver = row[q].driver
    BY <2>5
  <2>9. Alone(handler', q, upset'[q])
    BY <2>1, <2>4, <2>8 DEF Safe, Alone
  <2>10. InStep(handler', q, row'[q].driver, info'[q].driver, upset'[q])
    BY <1>1, <2>1, <2>3, <2>4, <2>8 DEF Safe, Alone, InStep
  <2>11. Agrees(handler', q, row'[q].driver, info'[q].driver, upset'[q])
    BY <2>1 DEF Agrees
  <2> QED
    BY <2>6, <2>7, <2>9, <2>10, <2>11 DEF SafeNext, Safe
<1> QED
  BY <1>5, <1>6

\* The accept ends well: its driver, who is the driver of the ride, is announced.
LEMMA AnnounceDriverIsSafe ==
  ASSUME TypeOK, Coherent, AllSafe, NEW h \in Handlers,
         AnnounceDriver(h) \/ WithdrawFails(h), NEW q \in Rides
  PROVE  SafeNext(q)
<1> DEFINE r == handler[h].ride
           d == handler[h].user
<1>1. /\ handler[h].step = "withdraw" /\ handler[h].event = "accept"
      /\ handler[h].step \in Stages /\ Done(h)
      /\ announced' = [announced EXCEPT ![r] = @ \cup {d}]
      /\ UNCHANGED <<row, info, claim, upset>>
  BY DEF AnnounceDriver, WithdrawFails, At, Stages
<1>2. r \in Rides
  BY <1>1, ActorOK
<1>3. CASE q # r
  <2>1. announced'[q] = announced[q]
    BY <1>1, <1>2, <1>3 DEF TypeOK
  <2> QED
    BY <1>1, <1>3, <2>1, OtherRidesUnseen, UnseenKeepsSafe
<1>4. CASE q = r
  <2>1. announced'[q] = announced[q] \cup {d}
    BY <1>1, <1>2, <1>4 DEF TypeOK
  <2>2. /\ AcceptingIn(handler', q) = AcceptingIn(handler, q) \ {h}
        /\ HoldersIn(handler', q) = HoldersIn(handler, q) \ {h}
        /\ \A g \in Handlers : g # h => handler'[g] = handler[g]
    BY <1>1, AcceptEnds
  <2>3. h \in AcceptingIn(handler, q) /\ h \in HoldersIn(handler, q)
    BY <1>1, <1>4 DEF AcceptingIn, HoldersIn
  <2>4. AcceptingIn(handler, q) \subseteq Handlers /\ HoldersIn(handler, q) \subseteq Handlers
    BY DEF AcceptingIn, HoldersIn
  <2>5. Safe(handler, q, row[q].driver, claim[q], info[q].driver, announced[q], upset[q])
    BY DEF AllSafe
  <2>6. row[q].driver = d
    BY <1>1, <2>3, <2>5 DEF Safe, Settled
  <2>7. Settled(handler', q, row'[q].driver, announced'[q])
    BY <1>1, <2>1, <2>2, <2>4, <2>5, <2>6 DEF Safe, Settled
  <2>8. Exclusive(handler', q, claim'[q], upset'[q])
    BY <1>1, <2>2, <2>4, <2>5 DEF Safe, Exclusive
  <2>9. Held(handler', q, row'[q].driver, claim'[q], upset'[q])
    BY <1>1, <2>2, <2>4, <2>5, <2>6 DEF Safe, Held
  <2>10. Alone(handler', q, upset'[q])
    BY <1>1, <2>2, <2>5 DEF Safe, Alone
  <2>11. InStep(handler', q, row'[q].driver, info'[q].driver, upset'[q])
    BY <1>1, <2>2, <2>4, <2>5 DEF Safe, InStep
  <2>12. Agrees(handler', q, row'[q].driver, info'[q].driver, upset'[q])
    BY <1>1, <2>3, <2>5, <2>6 DEF Safe, InStep, Agrees
  <2> QED
    BY <2>7, <2>8, <2>9, <2>10, <2>11, <2>12 DEF SafeNext, Safe
<1> QED
  BY <1>3, <1>4

\* A refused accept goes on cleaning up, whether or not Redis lets it.
LEMMA CleanupGoesOnIsSafe ==
  ASSUME TypeOK, Coherent, AllSafe, NEW h \in Handlers,
         \/ ReleaseClaim(h)
         \/ ClearRideDriver(h)
         \/ CleanupFails(h) /\ handler[h].step = "release",
         NEW q \in Rides
  PROVE  SafeNext(q)
<1> DEFINE r == handler[h].ride
           s == IF handler[h].step = "release" THEN "clear" ELSE "reset"
<1>1. /\ handler[h].step \in {"release", "clear"} /\ handler[h].event = "accept"
      /\ handler[h].step \in Stages /\ s \in Stages /\ Goto(h, s)
      /\ UNCHANGED <<row, announced>>
  BY DEF ReleaseClaim, ClearRideDriver, CleanupFails, At, Stages, Coherent
<1>2. r \in Rides
  BY <1>1, ActorOK
<1>3. /\ upset[q] \subseteq upset'[q]
      /\ q # r => claim'[q] = claim[q] /\ info'[q].driver = info[q].driver
  BY <1>1, <1>2 DEF ReleaseClaim, ClearRideDriver, CleanupFails, At, Upset, TypeOK
<1>4. CASE q # r
  BY <1>1, <1>3, <1>4, OtherRidesUnseen, UnseenKeepsSafe
<1>5. CASE q = r
  <2>1. /\ AcceptingIn(handler', q) = AcceptingIn(handler, q)
        /\ HoldersIn(handler', q) \ {h} = HoldersIn(handler, q) \ {h}
        /\ \A g \in Handlers : handler'[g].user = handler[g].user
        /\ \A g \in Handlers : g # h => handler'[g] = handler[g]
        /\ handler'[h].step = s /\ h \in AcceptingIn(handler, q)
    BY <1>1, <1>5, AcceptGoesOn
  <2>2. h \notin HoldersIn(handler', q)
    BY <2>1 DEF HoldersIn
  <2>3. handler[h].step = "release" => h \in HoldersIn(handler, q)
    BY <2>1 DEF HoldersIn
  <2>4. handler[h].step = "clear" => h \notin HoldersIn(handler, q)
    BY DEF HoldersIn
  <2>5. AcceptingIn(handler, q) \subseteq Handlers /\ HoldersIn(handler, q) \subseteq Handlers
    BY DEF AcceptingIn, HoldersIn
  <2>6. Safe(handler, q, row[q].driver, claim[q], info[q].driver, announced[q], upset[q])
    BY DEF AllSafe
  <2>7. \/ handler[h].step = "release" /\ (claim'[q] = None \/ "fault" \in upset'[q])
        \/ handler[h].step = "clear" /\ claim'[q] = claim[q] /\ upset'[q] = upset[q]
    BY <1>2, <1>5 DEF ReleaseClaim, ClearRideDriver, CleanupFails, Upset, At, TypeOK
  <2>8. Settled(handler', q, row'[q].driver, announced'[q])
    BY <1>1, <2>1, <2>5, <2>6 DEF Safe, Settled
  <2>9. Exclusive(handler', q, claim'[q], upset'[q])
    <3>1. CASE handler[h].step = "release"
      <4>1. "expired" \notin upset'[q] => HoldersIn(handler', q) = {}
        BY <1>3, <2>1, <2>2, <2>3, <2>6, <3>1 DEF Safe, Exclusive
      <4> QED
        BY <4>1 DEF Exclusive
    <3>2. CASE handler[h].step = "clear"
      <4>1. HoldersIn(handler', q) = HoldersIn(handler, q)
        BY <1>1, <2>1, <3>2 DEF HoldersIn, AcceptingIn
      <4> QED
        BY <2>1, <2>5, <2>6, <2>7, <3>2, <4>1 DEF Safe, Exclusive
    <3> QED
      BY <1>1, <3>1, <3>2
  <2>10. Held(handler', q, row'[q].driver, claim'[q], upset'[q])
    <3>1. CASE handler[h].step = "release"
      BY <2>7, <3>1 DEF Held
    <3>2. CASE handler[h].step = "clear"
      <4>1. HoldersIn(handler', q) = HoldersIn(handler, q)
        BY <1>1, <2>1, <3>2 DEF HoldersIn, AcceptingIn
      <4> QED
        BY <1>1, <2>1, <2>5, <2>6, <2>7, <3>2, <4>1 DEF Safe, Held
    <3> QED
      BY <1>1, <3>1, <3>2
  <2>11. upset'[q] = {} => /\ upset[q] = {}
                           /\ handler[h].step = "clear" => info'[q].driver = None
    BY <1>2, <1>3, <1>5 DEF ReleaseClaim, ClearRideDriver, CleanupFails, At, TypeOK
  <2>12. Alone(handler', q, upset'[q])
    BY <2>1, <2>6, <2>11 DEF Safe, Alone
  <2>13. InStep(handler', q, row'[q].driver, info'[q].driver, upset'[q])
    BY <1>1, <2>1, <2>5, <2>6, <2>11 DEF Safe, Alone, InStep
  <2>14. Agrees(handler', q, row'[q].driver, info'[q].driver, upset'[q])
    BY <2>1 DEF Agrees
  <2> QED
    BY <2>8, <2>9, <2>10, <2>12, <2>13, <2>14 DEF SafeNext, Safe
<1> QED
  BY <1>4, <1>5

\* An accept without success ends: cleaned up, or cut short by a fault.
LEMMA AcceptEndsIsSafe ==
  ASSUME TypeOK, Coherent, AllSafe, NEW h \in Handlers,
         handler[h].event = "accept", handler[h].step \in Stages, Done(h),
         UNCHANGED <<row, claim, announced>>,
         \A q \in Rides : upset[q] \subseteq upset'[q],
         handler[h].step # "reset" => "fault" \in upset'[handler[h].ride],
         \A q \in Rides : \/ info'[q].driver = info[q].driver
                          \/ q = handler[h].ride /\ "fault" \in upset'[q],
         NEW q \in Rides
  PROVE  SafeNext(q)
<1>1. CASE q # handler[h].ride
  BY <1>1, OtherRidesUnseen, UnseenKeepsSafe
<1>2. CASE q = handler[h].ride
  <2>1. /\ AcceptingIn(handler', q) = AcceptingIn(handler, q) \ {h}
        /\ HoldersIn(handler', q) = HoldersIn(handler, q) \ {h}
        /\ \A g \in Handlers : g # h => handler'[g] = handler[g]
    BY AcceptEnds
  <2>2. h \in AcceptingIn(handler, q)
    BY <1>2 DEF AcceptingIn
  <2>3. handler[h].step = "reset" => h \notin HoldersIn(handler, q)
    BY DEF HoldersIn
  <2>4. AcceptingIn(handler, q) \subseteq Handlers /\ HoldersIn(handler, q) \subseteq Handlers
    BY DEF AcceptingIn, HoldersIn
  <2>5. Safe(handler, q, row[q].driver, claim[q], info[q].driver, announced[q], upset[q])
    BY DEF AllSafe
  <2>6. /\ "expired" \notin upset'[q] => "expired" \notin upset[q]
        /\ "fault" \notin upset'[q] => "fault" \notin upset[q] /\ handler[h].step = "reset"
        /\ upset'[q] = {} => /\ upset[q] = {} /\ handler[h].step = "reset"
                             /\ info'[q].driver = info[q].driver
    BY <1>2
  <2>7. Settled(handler', q, row'[q].driver, announced'[q])
    BY <2>1, <2>4, <2>5 DEF Safe, Settled
  <2>8. Exclusive(handler', q, claim'[q], upset'[q])
    BY <2>1, <2>4, <2>5, <2>6 DEF Safe, Exclusive
  <2>9. Held(handler', q, row'[q].driver, claim'[q], upset'[q])
    BY <2>1, <2>3, <2>4, <2>5, <2>6 DEF Safe, Held
  <2>10. Alone(handler', q, upset'[q])
    BY <2>1, <2>5, <2>6 DEF Safe, Alone
  <2>11. InStep(handler', q, row'[q].driver, info'[q].driver, upset'[q])
    BY <2>1, <2>4, <2>5, <2>6 DEF Safe, InStep
  <2>12. Agrees(handler', q, row'[q].driver, info'[q].driver, upset'[q])
    BY <2>2, <2>5, <2>6 DEF Safe, InStep, Agrees
  <2> QED
    BY <2>7, <2>8, <2>9, <2>10, <2>11, <2>12 DEF SafeNext, Safe
<1> QED
  BY <1>1, <1>2

\* The steps that involve no accept with a claim.
LEMMA UnclaimedStepIsUnseen ==
  ASSUME TypeOK, Coherent, NEW h \in Handlers,
         ~(handler[h].event = "accept" /\ handler[h].step \in Stages),
         NEW new, handler' = [handler EXCEPT ![h] = new],
         ~(new.event = "accept" /\ new.step \in Stages),
         UNCHANGED <<claim, announced>>,
         NEW q \in Rides, row'[q].driver = row[q].driver, info'[q].driver = info[q].driver,
         upset[q] \subseteq upset'[q]
  PROVE  Unseen(q)
<1>1. /\ \A g \in Handlers : g # h => handler'[g] = handler[g]
      /\ handler'[h] = new
      /\ AcceptingIn(handler', q) \ {h} = AcceptingIn(handler, q) \ {h}
  BY OtherAcceptsStay
<1>2. h \notin AcceptingIn(handler, q) /\ h \notin AcceptingIn(handler', q)
  BY <1>1 DEF AcceptingIn
<1>3. AcceptingIn(handler', q) = AcceptingIn(handler, q)
  BY <1>1, <1>2 DEF AcceptingIn
<1>4. AcceptingIn(handler, q) \subseteq Handlers
  BY DEF AcceptingIn
<1> QED
  BY <1>1, <1>2, <1>3, <1>4 DEF Unseen

\* Receipt, the steps of the other events, and a refused claim.
LEMMA OtherEventsAreSafe ==
  ASSUME TypeOK, Coherent, AllSafe, NEW h \in Handlers,
         ReceiveStep(h) \/ OtherStep(h) \/ RefuseClaim(h), NEW q \in Rides
  PROVE  SafeNext(q)
<1>1. /\ UNCHANGED <<row, claim, announced, upset>>
      /\ info'[q].driver = info[q].driver
  <2>1. CASE ReceiveStep(h)
    BY <2>1 DEF ReceiveStep, ReceiveBook, ReceiveAccept, ReceiveArrived, ReceiveMove, Receive
  <2>2. CASE OtherStep(h) \/ RefuseClaim(h)
    <3>1. /\ UNCHANGED <<row, claim, announced, upset>>
          /\ info' = info \/ (UpdateHash(h) /\ ~At(h, "record", {"accept"}))
      BY <2>2 DEF OtherStep, CreateRideInfo, OfferRide, CheckParticipant, LookUpParticipant,
                  RecordMove, WithdrawOffer, RefuseClaim, At, Moves
    <3> QED
      BY <3>1, HashIsUpdated DEF TypeOK, KeysOK
  <2> QED
    BY <2>1, <2>2
<1>2. PICK new : /\ handler' = [handler EXCEPT ![h] = new]
                 /\ ~(new.event = "accept" /\ new.step \in Stages)
  <2>1. CASE ReceiveStep(h)
    <3>1. ASSUME NEW event, NEW u, NEW r, NEW step \in {"book", "claim", "check"},
                 Receive(h, event, u, r, step)
          PROVE  \E new : /\ handler' = [handler EXCEPT ![h] = new]
                         /\ ~(new.event = "accept" /\ new.step \in Stages)
      <4> DEFINE new == [step |-> step, event |-> event, user |-> u, ride |-> r]
      <4>1. handler' = [handler EXCEPT ![h] = new]
        BY <3>1 DEF Receive
      <4>2. new.step \notin Stages
        BY DEF Stages
      <4> HIDE DEF new
      <4> QED
        BY <4>1, <4>2
    <3> QED
      BY <2>1, <3>1 DEF ReceiveStep, ReceiveBook, ReceiveAccept, ReceiveArrived, ReceiveMove
  <2>2. CASE OtherStep(h) \/ RefuseClaim(h)
    <3>1. CASE Done(h)
      <4>1. ~(Idle.event = "accept" /\ Idle.step \in Stages)
        BY DEF Idle, Stages
      <4> QED
        BY <3>1, <4>1 DEF Done
    <3>2. ASSUME NEW s, Goto(h, s), handler[h].step # "idle", handler[h].event # "accept"
          PROVE  \E new : /\ handler' = [handler EXCEPT ![h] = new]
                         /\ ~(new.event = "accept" /\ new.step \in Stages)
      BY <3>2, GotoMoves
    <3> QED
      BY <2>2, <3>1, <3>2
         DEF OtherStep, CreateRideInfo, OfferRide, Decide, CheckParticipant, LookUpParticipant,
             RecordMove, WithdrawOffer, RefuseClaim, At, Moves
  <2> QED
    BY <2>1, <2>2
<1>3. ~(handler[h].event = "accept" /\ handler[h].step \in Stages)
  BY DEF ReceiveStep, ReceiveBook, ReceiveAccept, ReceiveArrived, ReceiveMove, Receive, Idle,
         OtherStep, CreateRideInfo, OfferRide, CheckParticipant, LookUpParticipant, RecordMove,
         WithdrawOffer, RefuseClaim, At, Moves, Stages
<1> QED
  BY <1>1, <1>2, <1>3, UnclaimedStepIsUnseen, UnseenKeepsSafe

\* The API and the faults, at an event other than an accept.
LEMMA OtherCallsAreSafe ==
  ASSUME TypeOK, Coherent, AllSafe, NEW h \in Handlers, ApiStep(h),
         handler[h].event # "accept", NEW q \in Rides
  PROVE  SafeNext(q)
<1>1. UNCHANGED <<claim, announced, info>> /\ upset[q] \subseteq upset'[q]
  BY DEF ApiStep, ApiReads, ApiAccepts, ApiRefuses, LoseRequest, LoseAnswer, Upset, TypeOK
<1>2. row'[q].driver = row[q].driver
  <2>1. CASE ApiAccepts(h) \/ LoseAnswer(h)
    BY <2>1, ApplyAtRow DEF ApiAccepts, LoseAnswer
  <2>2. CASE ApiReads(h) \/ ApiRefuses(h) \/ LoseRequest(h)
    BY <2>2 DEF ApiReads, ApiRefuses, LoseRequest
  <2> QED
    BY <2>1, <2>2 DEF ApiStep
<1>3. handler[h].step \in {"call", "write"} /\ (Done(h) \/ \E s \in Steps : Goto(h, s))
  BY DEF ApiStep, ApiReads, ApiAccepts, ApiRefuses, LoseRequest, LoseAnswer, Serves, GiveUp, Steps
<1>4. PICK new : /\ handler' = [handler EXCEPT ![h] = new]
                 /\ ~(new.event = "accept" /\ new.step \in Stages)
  <2>1. CASE Done(h)
    <3>1. ~(Idle.event = "accept" /\ Idle.step \in Stages)
      BY DEF Idle, Stages
    <3> QED
      BY <2>1, <3>1 DEF Done
  <2>2. CASE \E s \in Steps : Goto(h, s)
    BY <1>3, <2>2, GotoMoves
  <2> QED
    BY <1>3, <2>1, <2>2
<1> QED
  BY <1>1, <1>2, <1>4, UnclaimedStepIsUnseen, UnseenKeepsSafe

\* A fault during a step of Redis.
LEMMA FaultsAreSafe ==
  ASSUME TypeOK, Coherent, AllSafe, NEW h \in Handlers, FailStep(h), NEW q \in Rides
  PROVE  SafeNext(q)
<1>1. CASE WithdrawFails(h)
  BY <1>1, AnnounceDriverIsSafe
<1>2. CASE CleanupFails(h) /\ handler[h].step = "release"
  BY <1>2, CleanupGoesOnIsSafe
<1>3. CASE (RedisThrows(h) \/ CleanupFails(h)) /\ Done(h)
  <2>1. /\ UNCHANGED <<row, claim, announced>>
        /\ \A r \in Rides : upset[r] \subseteq upset'[r]
    BY <1>3 DEF RedisThrows, CleanupFails, Upset, TypeOK
  <2>2. info' = info \/ UpdateHash(h)
    BY <1>3 DEF RedisThrows, CleanupFails
  <2>3. \A r \in Rides : \/ info'[r].driver = info[r].driver
                         \/ r = handler[h].ride /\ At(h, "record", {"accept"})
    BY <2>2, HashIsUpdated DEF TypeOK, KeysOK
  <2>4. CASE handler[h].event = "accept" /\ handler[h].step \in Stages
    <3>1. handler[h].ride \in Rides
      BY <2>4, ActorOK DEF Stages
    <3>2. "fault" \in upset'[handler[h].ride]
      <4>1. CASE CleanupFails(h)
        BY <3>1, <4>1 DEF CleanupFails, Upset, TypeOK
      <4>2. CASE RedisThrows(h)
        <5>1. handler[h].step = "record"
          BY <2>4, <4>2 DEF RedisThrows, At, Stages
        <5>2. h \in Holders(handler[h].ride)
          BY <2>4, <5>1 DEF Holders
        <5> QED
          BY <3>1, <4>2, <5>2 DEF RedisThrows, Upset, TypeOK
      <4> QED
        BY <1>3, <4>1, <4>2
    <3> QED
      BY <1>3, <2>1, <2>3, <2>4, <3>2, AcceptEndsIsSafe
  <2>5. CASE ~(handler[h].event = "accept" /\ handler[h].step \in Stages)
    <3>1. ~(Idle.event = "accept" /\ Idle.step \in Stages)
      BY DEF Idle, Stages
    <3>2. handler' = [handler EXCEPT ![h] = Idle]
      BY <1>3 DEF Done
    <3>3. ~At(h, "record", {"accept"})
      BY <2>5 DEF At, Stages
    <3> QED
      BY <2>1, <2>3, <2>5, <3>1, <3>2, <3>3, UnclaimedStepIsUnseen, UnseenKeepsSafe
  <2> QED
    BY <2>4, <2>5
<1> QED
  BY <1>1, <1>2, <1>3 DEF FailStep, RedisThrows, CleanupFails

\* The claim leaves the key, and the ride remembers if that was early.
LEMMA ClaimExpiresIsSafe ==
  ASSUME TypeOK, Coherent, AllSafe, NEW r \in Rides, ClaimExpires(r), NEW q \in Rides
  PROVE  SafeNext(q)
<1>1. UNCHANGED <<row, info, handler, announced>>
  BY DEF ClaimExpires
<1>2. CASE q # r
  <2>1. claim'[q] = claim[q] /\ upset'[q] = upset[q]
    BY <1>2 DEF ClaimExpires, Upset, TypeOK
  <2> QED
    BY <1>1, <2>1, UnseenKeepsSafe DEF Unseen
<1>3. CASE q = r
  <2>1. claim'[q] = None
    BY <1>3 DEF ClaimExpires, TypeOK
  <2>2. upset'[q] = upset[q] \cup {u \in {"expired"} : HoldersIn(handler, q) # {}}
    <3>1. Holders(q) = HoldersIn(handler, q)
      BY AcceptMembers
    <3> QED
      BY <1>3, <3>1 DEF ClaimExpires, Upset, TypeOK
  <2>3. /\ "expired" \notin upset'[q] => HoldersIn(handler, q) = {}
        /\ upset'[q] = {} => upset[q] = {}
    BY <2>2
  <2>4. Safe(handler, q, row[q].driver, claim[q], info[q].driver, announced[q], upset[q])
    BY DEF AllSafe
  <2> QED
    BY <1>1, <2>1, <2>3, <2>4
       DEF SafeNext, Safe, Settled, Exclusive, Held, Alone, InStep, Agrees
<1> QED
  BY <1>2, <1>3

\* The process dies: no accept is under way any more, and one may have been served.
LEMMA CrashIsSafe ==
  ASSUME TypeOK, Coherent, AllSafe, Crash, NEW q \in Rides
  PROVE  SafeNext(q)
<1>1. /\ UNCHANGED <<claim, info, announced>>
      /\ handler' = [h \in Handlers |-> Idle]
      /\ upset'[q] = upset[q] \cup {u \in {"fault"} : AcceptingIn(handler, q) # {}}
  <2>1. Accepting(q) = AcceptingIn(handler, q)
    BY AcceptMembers
  <2> QED
    BY <2>1 DEF Crash
<1>2. AcceptingIn(handler', q) = {} /\ HoldersIn(handler', q) = {}
  BY <1>1 DEF AcceptingIn, HoldersIn, Idle
<1>3. \/ row'[q].driver = row[q].driver
      \/ row[q].driver = None /\ AcceptingIn(handler, q) # {}
  <2>1. ASSUME NEW h \in Handlers, Serves(h),
               Apply(handler[h].event, handler[h].user, handler[h].ride)
        PROVE  \/ row'[q].driver = row[q].driver
               \/ row[q].driver = None /\ AcceptingIn(handler, q) # {}
    <3>1. CASE handler[h].event = "accept" /\ handler[h].ride = q
      <4>1. h \in AcceptingIn(handler, q)
        BY <2>1, <3>1 DEF Serves, Coherent, AcceptingIn, Stages
      <4> QED
        BY <2>1, <3>1, <4>1, ApplyAtRow
    <3> QED
      BY <2>1, <3>1, ApplyAtRow
  <2> QED
    BY <2>1 DEF Crash
<1>4. Safe(handler, q, row[q].driver, claim[q], info[q].driver, announced[q], upset[q])
  BY DEF AllSafe
<1>5. /\ upset[q] \subseteq upset'[q]
      /\ AcceptingIn(handler, q) # {} => "fault" \in upset'[q]
      /\ upset'[q] = {} => upset[q] = {} /\ AcceptingIn(handler, q) = {}
  BY <1>1
<1>6. Settled(handler', q, row'[q].driver, announced'[q])
  <2>1. row[q].driver = None => announced[q] = {}
    BY <1>4, ConstantsAssumption DEF Safe, Settled, TypeOK
  <2> QED
    BY <1>1, <1>2, <1>3, <1>4, <2>1 DEF Safe, Settled
<1>7. Exclusive(handler', q, claim'[q], upset'[q])
  BY <1>2 DEF Exclusive
<1>8. Held(handler', q, row'[q].driver, claim'[q], upset'[q])
  <2>1. HoldersIn(handler, q) \subseteq AcceptingIn(handler, q)
    BY AcceptMembers
  <2> QED
    BY <1>1, <1>3, <1>4, <1>5, <2>1 DEF Safe, Held
<1>9. Alone(handler', q, upset'[q])
  BY <1>2 DEF Alone
<1>10. InStep(handler', q, row'[q].driver, info'[q].driver, upset'[q])
  BY <1>2 DEF InStep
<1>11. Agrees(handler', q, row'[q].driver, info'[q].driver, upset'[q])
  BY <1>1, <1>3, <1>4, <1>5 DEF Safe, Agrees
<1> QED
  BY <1>6, <1>7, <1>8, <1>9, <1>10, <1>11 DEF SafeNext, Safe

-----------------------------------------------------------------------------
(* The theorems. *)

\* Every step keeps the rides safe.
LEMMA NextKeepsSafe == TypeOK /\ Coherent /\ AllSafe /\ Next => AllSafe'
<1> SUFFICES ASSUME TypeOK, Coherent, AllSafe, Next, NEW q \in Rides PROVE SafeNext(q)
  BY DEF AllSafe, SafeNext
<1>1. ASSUME NEW h \in Handlers, AcceptStep(h) PROVE SafeNext(q)
  <2>1. CASE ResetStatus(h)
    <3>1. /\ handler[h].event = "accept" /\ handler[h].step = "reset"
          /\ handler[h].step \in Stages /\ Done(h)
          /\ UNCHANGED <<row, claim, announced, upset>>
      BY <2>1 DEF ResetStatus, At, Stages
    <3>2. \A r \in Rides : info'[r].driver = info[r].driver
      BY <2>1, HashIsUpdated DEF ResetStatus, At, TypeOK, KeysOK
    <3> QED
      BY <3>1, <3>2, AcceptEndsIsSafe
  <2> QED
    BY <1>1, <2>1, ClaimRideIsSafe, OtherEventsAreSafe, RecordClaimIsSafe, AnnounceDriverIsSafe,
       CleanupGoesOnIsSafe DEF AcceptStep
<1>2. ASSUME NEW h \in Handlers, ApiStep(h) PROVE SafeNext(q)
  BY <1>2, ApiAcceptsIsSafe, ApiRefusesIsSafe, OtherCallsAreSafe
     DEF ApiStep, ApiReads, Locked
<1>3. ASSUME NEW r \in Rides, EndOverRest(r) \/ OfferExpires(r) PROVE SafeNext(q)
  <2>1. row'[q].driver = row[q].driver
    <3>1. CASE EndOverRest(r)
      <4>1. row' = [row EXCEPT ![r].status = "cancelled"]
        BY <3>1 DEF EndOverRest
      <4>2. row \in [Rides -> [status : RowStatus, driver : Drivers \cup {None}]]
        BY DEF TypeOK
      <4> QED
        BY <4>1, <4>2
    <3>2. CASE OfferExpires(r)
      BY <3>2 DEF OfferExpires
    <3> QED
      BY <1>3, <3>1, <3>2
  <2>2. UNCHANGED <<claim, info, handler, announced, upset>>
    BY <1>3 DEF EndOverRest, OfferExpires
  <2> QED
    BY <2>1, <2>2, UnseenKeepsSafe DEF Unseen
<1> QED
  BY <1>1, <1>2, <1>3, OtherEventsAreSafe, FaultsAreSafe, ClaimExpiresIsSafe, CrashIsSafe
     DEF Next

\* The invariant is inductive, so it holds in every reachable state.
LEMMA Invariance == Spec => []IInv
<1>1. IInv /\ [Next]_vars => IInv'
  <2> SUFFICES ASSUME IInv, [Next]_vars PROVE IInv'
    OBVIOUS
  <2>1. CASE Next
    BY <2>1, NextKeepsTypes, NextKeepsSafe DEF IInv
  <2>2. CASE UNCHANGED vars
    BY <2>2 DEF vars, IInv, TypeOK, Coherent, AllSafe
  <2> QED
    BY <2>1, <2>2
<1> QED
  BY <1>1, InitIInv, PTL DEF Spec

\* Every variable keeps its type.
THEOREM TypeCorrect == Spec => []TypeOK
<1>1. IInv => TypeOK
  BY DEF IInv
<1> QED
  BY <1>1, Invariance, PTL

\* Whatever keys expire and whatever fails, ride:accepted names the driver of the ride.
THEOREM OnlyTheDriverIsAnnounced == Spec => []AnnouncedIsTheDriver
<1>1. IInv => AnnouncedIsTheDriver
  BY DEF IInv, AllSafe, Safe, Settled, AnnouncedIsTheDriver
<1> QED
  BY <1>1, Invariance, PTL

\* One accept at a time asks the API for a ride, until a claim expires under it.
THEOREM ClaimExcludes == Spec => []OneClaimer
<1>1. IInv => OneClaimer
  <2> SUFFICES ASSUME IInv, NEW r \in Rides, "expired" \notin upset[r]
               PROVE  Cardinality(Holders(r)) <= 1
    BY DEF OneClaimer
  <2>1. \A h, g \in Holders(r) : g = h
    BY AcceptMembers DEF IInv, AllSafe, Safe, Exclusive
  <2>2. CASE Holders(r) = {}
    BY <2>2, FS_EmptySet
  <2>3. CASE Holders(r) # {}
    <3>1. PICK h : h \in Holders(r)
      BY <2>3
    <3>2. Holders(r) = {h}
      BY <2>1, <3>1
    <3> QED
      BY <3>2, FS_Singleton
  <2> QED
    BY <2>2, <2>3
<1> QED
  BY <1>1, Invariance, PTL

\* No accept that was refused or ended leaves a claim, unless by a fault.
THEOREM ClaimsAreHeld == Spec => []ClaimIsHeld
<1>1. IInv => ClaimIsHeld
  <2> SUFFICES ASSUME IInv, NEW r \in Rides, claim[r] # None, "fault" \notin upset[r]
               PROVE  \/ row[r].driver = claim[r]
                      \/ \E h \in Holders(r) : handler[h].user = claim[r]
    BY DEF ClaimIsHeld
  <2>1. Holders(r) = HoldersIn(handler, r)
    BY AcceptMembers DEF IInv
  <2> QED
    BY <2>1 DEF IInv, AllSafe, Safe, Held
<1> QED
  BY <1>1, Invariance, PTL

\* Undisturbed accepts leave the hash with the driver of the ride.
THEOREM ParticipantsAgree == Spec => []ParticipantAgrees
<1>1. IInv => ParticipantAgrees
  <2> SUFFICES ASSUME IInv, NEW r \in Rides, upset[r] = {}, Accepting(r) = {}
               PROVE  info[r].driver = row[r].driver
    BY DEF ParticipantAgrees
  <2>1. Accepting(r) = AcceptingIn(handler, r)
    BY AcceptMembers DEF IInv
  <2> QED
    BY <2>1 DEF IInv, AllSafe, Safe, Agrees
<1> QED
  BY <1>1, Invariance, PTL
-----------------------------------------------------------------------------
(* What the rider hears of his driver. *)

\* A ride with a driver keeps him, whatever the requests without a lock write.
LEMMA DriverStays ==
  ASSUME TypeOK, Coherent, [Next]_vars, NEW r \in Rides, row[r].driver # None
  PROVE  row'[r].driver = row[r].driver
<1>1. ASSUME NEW h \in Handlers, ReceiveStep(h) \/ AcceptStep(h) \/ OtherStep(h) \/ FailStep(h)
      PROVE  UNCHANGED row
  BY <1>1 DEF ReceiveStep, ReceiveBook, ReceiveAccept, ReceiveArrived, ReceiveMove, Receive,
              AcceptStep, ClaimRide, RefuseClaim, RecordClaim, AnnounceDriver, ReleaseClaim,
              ClearRideDriver, ResetStatus, OtherStep, CreateRideInfo, OfferRide,
              CheckParticipant, LookUpParticipant, RecordMove, WithdrawOffer, FailStep,
              RedisThrows, WithdrawFails, CleanupFails
<1>2. ASSUME NEW h \in Handlers, ApiStep(h) PROVE row'[r].driver = row[r].driver
  BY <1>2, ApplyAtRow DEF ApiStep, ApiReads, ApiAccepts, ApiRefuses, LoseRequest, LoseAnswer
<1>3. ASSUME NEW q \in Rides, EndOverRest(q) PROVE row'[r].driver = row[r].driver
  BY <1>3 DEF EndOverRest, TypeOK
<1>4. CASE Crash
  BY <1>4, ApplyAtRow DEF Crash
<1> QED
  BY <1>1, <1>2, <1>3, <1>4 DEF Next, ClaimExpires, OfferExpires, vars

\* The rider is told of one driver: after the first ride:accepted of a ride no other driver is
\* announced, whatever claims expire, answers get lost or accepts are sent again.
AnnouncedForGood == [][\A r \in Rides : announced[r] # {} => announced'[r] = announced[r]]_vars

THEOREM OneDriverIsAnnounced == Spec => AnnouncedForGood
<1>1. ASSUME IInv, IInv', [Next]_vars, NEW r \in Rides, announced[r] # {}
      PROVE  announced'[r] = announced[r]
  <2>1. /\ announced[r] \subseteq {row[r].driver} /\ announced'[r] \subseteq {row'[r].driver}
        /\ announced[r] \subseteq Drivers
    BY <1>1 DEF IInv, AllSafe, Safe, Settled, TypeOK
  <2>2. row'[r].driver = row[r].driver
    <3>1. row[r].driver # None
      BY <1>1, <2>1, ConstantsAssumption
    <3> QED
      BY <1>1, <3>1, DriverStays DEF IInv
  <2>3. announced[r] \subseteq announced'[r]
    <3>1. \/ UNCHANGED announced
          \/ \E h \in Handlers :
               announced' = [announced EXCEPT ![handler[h].ride] = @ \cup {handler[h].user}]
      BY <1>1
         DEF Next, vars, ReceiveStep, ReceiveBook, ReceiveAccept, ReceiveArrived, ReceiveMove, Receive,
             AcceptStep, ClaimRide, RefuseClaim, RecordClaim, AnnounceDriver, ReleaseClaim,
             ClearRideDriver, ResetStatus, OtherStep, CreateRideInfo, OfferRide, CheckParticipant,
             LookUpParticipant, RecordMove, WithdrawOffer, ApiStep, ApiReads, ApiAccepts, ApiRefuses, LoseRequest, LoseAnswer,
             FailStep, RedisThrows, WithdrawFails, CleanupFails, EndOverRest, ClaimExpires,
             OfferExpires, Crash
    <3> QED
      BY <1>1, <3>1 DEF IInv, TypeOK
  <2> QED
    BY <1>1, <2>1, <2>2, <2>3
<1>2. IInv /\ IInv' /\ [Next]_vars
        => [\A r \in Rides : announced[r] # {} => announced'[r] = announced[r]]_vars
  BY <1>1
<1> QED
  BY <1>2, Invariance, PTL DEF Spec, AnnouncedForGood
=============================================================================
