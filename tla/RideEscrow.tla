------------------------------ MODULE RideEscrow ------------------------------
(***************************************************************************)
(* The money of completed rides: PaymentController, PaymentService,        *)
(* CashPaymentService, EscrowService and RefundService over the payments,  *)
(* disputes and wallets tables, with the gateways' webhooks and the escrow *)
(* release sweep.                                                          *)
(*                                                                         *)
(* As in RideLifecycle a worker serves one request or job at a time and a  *)
(* step of it is one transaction, or one read outside a transaction with   *)
(* the checks that follow it.  The refund transaction reads the driver's   *)
(* wallet twice without locking it, so it takes three steps, between which *)
(* it holds the lock of its payment row.                                   *)
(***************************************************************************)
EXTENDS Integers, FiniteSets

CONSTANTS
  Rides,       \* completed rides
  Drivers,
  DriverOf,    \* rides.driver_id
  Payout,      \* payments.driver_payout of a ride's payment
  Payments,    \* rows of the payments table
  Workers,
  Methods,     \* the payment methods riders choose: "wallet", "cash", "gateway"
  Requested,   \* what else is asked for: "dispute", "refund", "admin"
  NoPayment, NoRide

ASSUME RideAssumption == /\ DriverOf \in [Rides -> Drivers]
                         /\ Payout \in [Rides -> Nat \ {0}]
                         /\ NoRide \notin Rides /\ NoPayment \notin Payments

VARIABLES
  pay,       \* the payments table
  disputed,  \* the payments with a row in disputes
  old,       \* the rides completed at least 24 hours ago
  pending,   \* wallets.pending_balance of the drivers
  earnings,  \* ledger rows ride_earnings of each ride, credited to its driver
  charges,   \* ledger rows payment of each ride, debited from its rider
  refunds,   \* ledger rows refund of each ride, credited to its rider
  req        \* what each worker is doing

ledger == <<earnings, charges, refunds>>
vars   == <<pay, disputed, old, pending, ledger, req>>

Statuses == {"pending", "completed", "failed", "refunded"}
Steps    == {"idle", "pay", "complete", "fail", "insert_dispute", "hold",
             "refund", "reverse_escrow", "commit_refund", "resolve", "resolve_refund", "release"}
Locking  == {"reverse_escrow", "commit_refund"}  \* the steps of an open refund transaction

PaymentRows == [ride : Rides \cup {NoRide}, method : Methods \cup {"none"},
                status : Statuses \cup {"none"}, hold : BOOLEAN, released : BOOLEAN]

Row(r, m, s) == [ride |-> r, method |-> m, status |-> s, hold |-> FALSE, released |-> FALSE]

NoRow == Row(NoRide, "none", "none")

RequestRows == [step : Steps, ride : Rides \cup {NoRide}, method : Methods \cup {"none"},
                payment : Payments \cup {NoPayment}, seen : BOOLEAN, amount : Int,
                todo : SUBSET Payments]

Task(step, r, m, p, seen, todo) == [step |-> step, ride |-> r, method |-> m, payment |-> p,
                                    seen |-> seen, amount |-> 0, todo |-> todo]

Idle == Task("idle", NoRide, "none", NoPayment, FALSE, {})

TypeOK == /\ pay \in [Payments -> PaymentRows]
          /\ disputed \subseteq Payments
          /\ old \subseteq Rides
          /\ pending \in [Drivers -> Int]
          /\ earnings \in [Rides -> Nat] /\ charges \in [Rides -> Nat]
          /\ refunds \in [Rides -> Nat]
          /\ req \in [Workers -> RequestRows]

Init == /\ pay = [p \in Payments |-> NoRow]
        /\ disputed = {} /\ old = {}
        /\ pending = [d \in Drivers |-> 0]
        /\ earnings = [r \in Rides |-> 0]
        /\ charges = [r \in Rides |-> 0]
        /\ refunds = [r \in Rides |-> 0]
        /\ req = [w \in Workers |-> Idle]

Smaller(a, b) == IF a < b THEN a ELSE b

At(w, step) == req[w].step = step
Finish(w)   == req' = [req EXCEPT ![w] = Idle]

\* An idle worker reads a payment and keeps what its handler goes on to use.
Take(w, step, p, seen) ==
  /\ At(w, "idle")
  /\ req' = [req EXCEPT ![w] = Task(step, NoRide, "none", p, seen, {})]
  /\ UNCHANGED <<pay, disputed, old, pending, ledger>>

\* No refund transaction holds the lock of the row.
Unlocked(p) == \A w \in Workers : ~(req[w].step \in Locking /\ req[w].payment = p)

RowsOf(r) == {p \in Payments : pay[p].ride = r}
Active(p) == pay[p].status \in {"pending", "completed"}
DriverOfPayment(p) == DriverOf[pay[p].ride]
PayoutOf(p) == Payout[pay[p].ride]

AddPending(d, amount) == pending' = [pending EXCEPT ![d] = @ + amount]
Count(table, r)       == [table EXCEPT ![r] = @ + 1]

-----------------------------------------------------------------------------
(* POST /payments/rides/{ride}/pay.  The handler looks for any payment of  *)
(* the ride; the transaction looks again, under the lock of the ride row,  *)
(* for an active one (for cash the unique index on active payments does).  *)

RequestPay(w, r, m) ==
  /\ At(w, "idle")
  /\ RowsOf(r) = {}
  /\ req' = [req EXCEPT ![w] = Task("pay", r, m, NoPayment, FALSE, {})]
  /\ UNCHANGED <<pay, disputed, old, pending, ledger>>

\* A bug: no second look under the lock of the ride.
InsertUnlocked(w, status) ==
  /\ \E p \in Payments :
       /\ pay[p] = NoRow
       /\ pay' = [pay EXCEPT ![p] = Row(req[w].ride, req[w].method, status)]
  /\ Finish(w)
  /\ UNCHANGED <<disputed, old>>

Insert(w, status) ==
  LET r == req[w].ride IN
  /\ ~\E p \in RowsOf(r) : Active(p)
  /\ \E p \in Payments :
       /\ pay[p] = NoRow
       /\ pay' = [pay EXCEPT ![p] = Row(r, req[w].method, status)]
  /\ Finish(w)
  /\ UNCHANGED <<disputed, old>>

HoldPayment(w) == /\ At(w, "pay") /\ req[w].method = "wallet"
                  /\ Insert(w, "completed")
                  /\ AddPending(DriverOf[req[w].ride], Payout[req[w].ride])
                  /\ charges' = Count(charges, req[w].ride)
                  /\ UNCHANGED <<earnings, refunds>>

ProcessCashPayment(w) == /\ At(w, "pay") /\ req[w].method = "cash"
                         /\ Insert(w, "completed")
                         /\ UNCHANGED <<pending, ledger>>

ProcessGatewayPayment(w) == /\ At(w, "pay") /\ req[w].method = "gateway"
                            /\ Insert(w, "pending")
                            /\ UNCHANGED <<pending, ledger>>

\* PaymentAlreadyHeldException, or a wallet that cannot be debited.
RejectPay(w) == /\ At(w, "pay")
                /\ \/ req[w].method \in {"wallet", "cash"}
                   \/ \E p \in RowsOf(req[w].ride) : Active(p)
                /\ Finish(w)
                /\ UNCHANGED <<pay, disputed, old, pending, ledger>>

-----------------------------------------------------------------------------
(* The gateways' webhooks, in any order and any number.  A success is      *)
(* checked again under the row lock; a failure is written as it was read.  *)

ReceiveWebhook(w, p, step) == pay[p].status = "pending" /\ Take(w, step, p, FALSE)

CompleteGatewayPayment(w) ==
  LET p == req[w].payment IN
  /\ At(w, "complete") /\ Unlocked(p)
  /\ IF pay[p].status = "pending"
     THEN /\ pay' = [pay EXCEPT ![p].status = "completed"]
          /\ AddPending(DriverOfPayment(p), PayoutOf(p))
     ELSE UNCHANGED <<pay, pending>>
  /\ Finish(w)
  /\ UNCHANGED <<disputed, old, ledger>>

FailPayment(w) == /\ At(w, "fail") /\ Unlocked(req[w].payment)
                  /\ pay' = [pay EXCEPT ![req[w].payment].status = "failed"]
                  /\ Finish(w)
                  /\ UNCHANGED <<disputed, old, pending, ledger>>

-----------------------------------------------------------------------------
(* releaseCompletedRides: list the payments due, then release each of them *)
(* in a transaction that reads it again under its lock.                    *)

\* A bug: the sweep does not look at the disputes.
DueWithDisputed == {p \in Payments : /\ pay[p].status = "completed" /\ ~pay[p].released
                                     /\ pay[p].ride \in old}

Due == {p \in Payments : /\ pay[p].status = "completed" /\ ~pay[p].released
                         /\ pay[p].ride \in old /\ p \notin disputed}

StartSweep(w) == /\ At(w, "idle") /\ Due # {}
                 /\ req' = [req EXCEPT ![w] = Task("release", NoRide, "none", NoPayment, FALSE, Due)]
                 /\ UNCHANGED <<pay, disputed, old, pending, ledger>>

\* Bugs: without the check of the balance, of the status, of the flag; and
\* with a strict comparison.
ReleasableUncovered(p) == pay[p].status = "completed" /\ ~pay[p].released
ReleasableAnyStatus(p) == ~pay[p].released /\ pending[DriverOfPayment(p)] >= PayoutOf(p)
ReleasableAgain(p)     == /\ pay[p].status = "completed"
                          /\ pending[DriverOfPayment(p)] >= PayoutOf(p)
ReleasableStrictly(p)  == /\ pay[p].status = "completed" /\ ~pay[p].released
                          /\ pending[DriverOfPayment(p)] > PayoutOf(p)

Releasable(p) == /\ pay[p].status = "completed" /\ ~pay[p].released
                 /\ pending[DriverOfPayment(p)] >= PayoutOf(p)

ReleasePayment(w) ==
  /\ At(w, "release")
  /\ \E p \in req[w].todo :
       /\ Unlocked(p)
       /\ IF Releasable(p)
          THEN /\ pay' = [pay EXCEPT ![p].released = TRUE]
               /\ AddPending(DriverOfPayment(p), -PayoutOf(p))
               /\ earnings' = Count(earnings, pay[p].ride)
          ELSE UNCHANGED <<pay, pending, earnings>>
       /\ IF req[w].todo = {p} THEN Finish(w)
          ELSE req' = [req EXCEPT ![w].todo = @ \ {p}]
  /\ UNCHANGED <<disputed, old, charges, refunds>>

-----------------------------------------------------------------------------
(* POST /payments/{payment}/dispute: within 24 hours, at most one, insert  *)
(* the dispute, then move the payout out of the driver's pending balance.  *)

RequestDispute(w, p) ==
  /\ "dispute" \in Requested
  /\ pay[p] # NoRow /\ pay[p].ride \notin old /\ p \notin disputed
  /\ Take(w, "insert_dispute", p, pay[p].status = "completed" /\ ~pay[p].released)

InsertDispute(w) == /\ At(w, "insert_dispute")
                    /\ disputed' = disputed \cup {req[w].payment}
                    /\ IF req[w].seen THEN req' = [req EXCEPT ![w].step = "hold"]
                       ELSE Finish(w)
                    /\ UNCHANGED <<pay, old, pending, ledger>>

HoldPendingFundsForDispute(w) ==
  LET p    == req[w].payment
      take == Smaller(PayoutOf(p), pending[DriverOfPayment(p)]) IN
  /\ At(w, "hold") /\ Unlocked(p)
  /\ IF pay[p].status = "completed" /\ ~pay[p].released
     THEN /\ pay' = [pay EXCEPT ![p].hold = TRUE]
          /\ AddPending(DriverOfPayment(p), -take)
     ELSE UNCHANGED <<pay, pending>>
  /\ Finish(w)
  /\ UNCHANGED <<disputed, old, ledger>>

-----------------------------------------------------------------------------
(* POST /payments/{payment}/refund.                                        *)

RequestRefund(w, p) == /\ "refund" \in Requested
                       /\ pay[p].status = "completed"
                       /\ Take(w, "refund", p, FALSE)

\* Locks the payment, then reads the driver's wallet without a lock.
ProcessRefund(w) ==
  LET p == req[w].payment IN
  /\ At(w, "refund") /\ Unlocked(p)
  /\ IF pay[p].status # "completed" THEN Finish(w)
     ELSE req' = [req EXCEPT ![w].step = IF pending[DriverOfPayment(p)] > 0 THEN "reverse_escrow"
                                                                          ELSE "commit_refund"]
  /\ UNCHANGED <<pay, disputed, old, pending, ledger>>

\* It is read again for what is to be taken from it.
ReverseDriverEscrow(w) ==
  LET p == req[w].payment IN
  /\ At(w, "reverse_escrow")
  /\ req' = [req EXCEPT ![w].step = "commit_refund",
                        ![w].amount = Smaller(PayoutOf(p), pending[DriverOfPayment(p)])]
  /\ UNCHANGED <<pay, disputed, old, pending, ledger>>

\* A gateway payment is marked refunded and then handed to refundPayment, which
\* throws because it is refunded: the transaction rolls back.
CommitRefund(w) ==
  LET p == req[w].payment IN
  /\ At(w, "commit_refund")
  /\ IF pay[p].method = "gateway" THEN UNCHANGED <<pay, pending, refunds>>
     ELSE /\ pay' = [pay EXCEPT ![p].status = "refunded"]
          /\ AddPending(DriverOfPayment(p), -req[w].amount)
          /\ refunds' = Count(refunds, pay[p].ride)
  /\ Finish(w)
  /\ UNCHANGED <<disputed, old, earnings, charges>>

-----------------------------------------------------------------------------
(* The administrator's flag and resolution.                                *)

FlagRide(p) == /\ "admin" \in Requested
               /\ pay[p] # NoRow /\ ~pay[p].hold /\ Unlocked(p)
               /\ pay' = [pay EXCEPT ![p].hold = TRUE]
               /\ UNCHANGED <<disputed, old, pending, ledger, req>>

RequestResolve(w, p) == /\ "admin" \in Requested
                        /\ pay[p].hold
                        /\ Take(w, "resolve", p, FALSE)

\* One update lifts the hold; a partial refund takes a second one.
ResolveDispute(w) ==
  LET p == req[w].payment IN
  /\ At(w, "resolve") /\ Unlocked(p)
  /\ pay' = [pay EXCEPT ![p].hold = FALSE]
  /\ Finish(w) \/ req' = [req EXCEPT ![w].step = "resolve_refund"]
  /\ UNCHANGED <<disputed, old, pending, ledger>>

\* A bug: the status of the dispute is written into the payment.
MarkResolved(w) ==
  /\ At(w, "resolve_refund") /\ Unlocked(req[w].payment)
  /\ pay' = [pay EXCEPT ![req[w].payment].status = "resolved"]
  /\ Finish(w)
  /\ UNCHANGED <<disputed, old, pending, ledger>>

MarkRefunded(w) ==
  /\ At(w, "resolve_refund") /\ Unlocked(req[w].payment)
  /\ pay' = [pay EXCEPT ![req[w].payment].status = "refunded"]
  /\ Finish(w)
  /\ UNCHANGED <<disputed, old, pending, ledger>>

-----------------------------------------------------------------------------
\* A day passes; a payment request takes seconds, so none spans it.
Age(r) == /\ r \notin old
          /\ \A w \in Workers : ~(At(w, "pay") /\ req[w].ride = r)
          /\ old' = old \cup {r}
          /\ UNCHANGED <<pay, disputed, pending, ledger, req>>

\* A worker dies; an open transaction rolls back.
Crash(w) == /\ ~At(w, "idle") /\ Finish(w)
            /\ UNCHANGED <<pay, disputed, old, pending, ledger>>

Begin(w) == \/ \E r \in Rides, m \in Methods : RequestPay(w, r, m)
            \/ \E p \in Payments : \/ ReceiveWebhook(w, p, "complete")
                                   \/ ReceiveWebhook(w, p, "fail")
                                   \/ RequestDispute(w, p) \/ RequestRefund(w, p)
                                   \/ RequestResolve(w, p)
            \/ StartSweep(w)

Continue(w) == \/ HoldPayment(w) \/ ProcessCashPayment(w) \/ ProcessGatewayPayment(w)
               \/ RejectPay(w) \/ CompleteGatewayPayment(w) \/ FailPayment(w)
               \/ ReleasePayment(w) \/ InsertDispute(w) \/ HoldPendingFundsForDispute(w)
               \/ ProcessRefund(w) \/ ReverseDriverEscrow(w) \/ CommitRefund(w)
               \/ ResolveDispute(w) \/ MarkRefunded(w)

Next == \/ \E w \in Workers : Begin(w) \/ Continue(w) \/ Crash(w)
        \/ \E p \in Payments : FlagRide(p)
        \/ \E r \in Rides : Age(r)

Spec == Init /\ [][Next]_vars

\* The release command starts every minute in a process of its own, requests
\* end, and time passes.
Fairness == /\ \A w \in Workers : /\ WF_vars(Continue(w))
                                  /\ SF_vars(StartSweep(w)) /\ SF_vars(ReleasePayment(w))
            /\ \A r \in Rides : WF_vars(Age(r))

FairSpec == Spec /\ Fairness

-----------------------------------------------------------------------------
(* Whatever overlaps.                                                      *)

\* A ride has one active payment, however many pay requests for it race.
OneActivePayment ==
  \A r \in Rides : \A p, q \in RowsOf(r) : Active(p) /\ Active(q) => p = q

\* However sweeps, refunds and pay requests overlap, the ledger has one credit of the driver
\* for every payment released, none without a payment for a refund, and one debit of the
\* rider for every wallet payment.
LedgerMatchesPayments ==
  \A r \in Rides :
    /\ earnings[r] = Cardinality({p \in RowsOf(r) : pay[p].released})
    /\ refunds[r] <= Cardinality({p \in RowsOf(r) : pay[p].status = "refunded"})
    /\ charges[r] = Cardinality({p \in RowsOf(r) : pay[p].method = "wallet"})

\* A sweep that listed a payment before its refund no longer pays it out.
RefundedNotReleased ==
  [][\A p \in Payments : pay[p].status = "refunded" => pay'[p].released = pay[p].released]_vars

-----------------------------------------------------------------------------
(* One worker: requests, jobs and webhooks do not overlap.                 *)

\* The escrow of a driver is never overdrawn.
PendingNonNegative == \A d \in Drivers : pending[d] >= 0

\* No payment is released after its rider disputed it.
DisputeStopsRelease ==
  [][\A p \in disputed : pay'[p].released = pay[p].released]_vars

\* Only wallet and gateway payments, and none of them refunded: then nothing but disputes
\* takes from pending_balance what was not captured into it.
OnlyCaptures == \A p \in Payments : pay[p].method # "cash" /\ pay[p].status # "refunded"

\* The driver's share of a captured, undisputed payment reaches him.
EarningsArrive ==
  \A p \in Payments : pay[p].status = "completed" /\ p \notin disputed
                       ~> pay[p].released \/ p \in disputed \/ ~OnlyCaptures

-----------------------------------------------------------------------------
(* What the documents say and the code does not do.                        *)

\* The driver of a cash ride was paid by hand: nothing is released to him.
CashIsNotReleased == \A p \in Payments : pay[p].method = "cash" => ~pay[p].released
=============================================================================
