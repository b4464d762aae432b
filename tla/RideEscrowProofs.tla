-------------------------- MODULE RideEscrowProofs --------------------------
(***************************************************************************)
(* Proofs about RideEscrow for any rides, drivers, payments and workers,   *)
(* any payouts, and any overlap of requests, webhooks, sweeps and crashes. *)
(*                                                                         *)
(* Types says what a request in flight works on, Owned which rows are in   *)
(* the hands of webhooks and open refund transactions; the books of a ride *)
(* and the uniqueness of its active payment are inductive beside them.     *)
(* Three promises break when two requests overlap at one place; they are   *)
(* proved under the exclusion of exactly that overlap.                     *)
(***************************************************************************)
EXTENDS RideEscrow, FiniteSetTheorems, TLAPS

\* The rows of the table py that are payments of rides.
Real(py) == {p \in Payments : py[p].ride \in Rides}

RowsReal(py) == \A p \in Payments : py[p] = NoRow \/ py[p].ride \in Rides

\* The steps of a request that works on one payment.
Handling == {"complete", "fail", "insert_dispute", "hold", "refund", "reverse_escrow",
             "commit_refund", "resolve", "resolve_refund"}

\* What a request x has read are payments of rides, those of S.
Fits(x, S) == /\ x.step = "pay" => x.ride \in Rides
              /\ x.step \in Handling => x.payment \in S
              /\ x.todo \subseteq S

Backed(py, rq) == \A w \in Workers : Fits(rq[w], Real(py))

Types == TypeOK /\ RowsReal(pay) /\ Backed(pay, req)

-----------------------------------------------------------------------------
(* Types. *)

LEMMA IdleTyped == Idle \in RequestRows /\ \A S : Fits(Idle, S)
BY DEF Idle, Task, RequestRows, Steps, Fits, Handling

LEMMA InitTypes == Init => Types
<1> SUFFICES ASSUME Init PROVE Types
  OBVIOUS
<1>1. NoRow \in PaymentRows
  BY DEF NoRow, Row, PaymentRows, Statuses
<1>2. TypeOK
  BY <1>1, IdleTyped DEF Init, TypeOK
<1>3. RowsReal(pay)
  BY DEF Init, RowsReal
<1>4. Backed(pay, req)
  BY IdleTyped DEF Init, Backed
<1> QED
  BY <1>2, <1>3, <1>4 DEF Types

\* A row that is rewritten stays the payment of its ride.
LEMMA Rewritten ==
  ASSUME NEW py \in [Payments -> PaymentRows], RowsReal(py), NEW p \in Real(py),
         NEW x \in PaymentRows, x.ride = py[p].ride
  PROVE  LET py2 == [py EXCEPT ![p] = x]
         IN py2 \in [Payments -> PaymentRows] /\ RowsReal(py2) /\ Real(py2) = Real(py)
BY DEF Real, RowsReal

\* So does one that is inserted.
LEMMA Inserted ==
  ASSUME NEW py \in [Payments -> PaymentRows], RowsReal(py), NEW p \in Payments,
         NEW x \in PaymentRows, x.ride \in Rides
  PROVE  LET py2 == [py EXCEPT ![p] = x]
         IN py2 \in [Payments -> PaymentRows] /\ RowsReal(py2) /\ Real(py) \subseteq Real(py2)
BY DEF Real, RowsReal

\* What an action does to the payments and to what its worker goes on with.
LEMMA PaymentsTyped ==
  ASSUME Types, [Next]_vars
  PROVE  /\ pay' \in [Payments -> PaymentRows]
         /\ RowsReal(pay')
         /\ Real(pay) \subseteq Real(pay')
<1>0. /\ pay \in [Payments -> PaymentRows] /\ RowsReal(pay) /\ Backed(pay, req)
      /\ req \in [Workers -> RequestRows]
  BY DEF Types, TypeOK
<1>1. CASE pay' = pay
  BY <1>0, <1>1
<1>2. ASSUME NEW w \in Workers, NEW s \in Statuses, At(w, "pay"), Insert(w, s)
      PROVE  /\ pay' \in [Payments -> PaymentRows]
             /\ RowsReal(pay')
             /\ Real(pay) \subseteq Real(pay')
  <2>1. PICK p \in Payments : pay' = [pay EXCEPT ![p] = Row(req[w].ride, req[w].method, s)]
    BY <1>2 DEF Insert
  <2>2. req[w] \in RequestRows /\ req[w].ride \in Rides
    BY <1>0, <1>2 DEF Backed, Fits, At
  <2>3. /\ Row(req[w].ride, req[w].method, s) \in PaymentRows
        /\ Row(req[w].ride, req[w].method, s).ride \in Rides
    BY <2>2 DEF RequestRows, PaymentRows, Row
  <2> QED
    BY <1>0, <2>1, <2>3, Inserted
<1>3. ASSUME NEW p \in Real(pay), NEW x \in PaymentRows, x.ride = pay[p].ride,
             pay' = [pay EXCEPT ![p] = x]
      PROVE  /\ pay' \in [Payments -> PaymentRows]
             /\ RowsReal(pay')
             /\ Real(pay) \subseteq Real(pay')
  BY <1>0, <1>3, Rewritten
<1>4. ASSUME NEW p \in Real(pay)
      PROVE  /\ \A s \in Statuses : /\ [pay[p] EXCEPT !.status = s] \in PaymentRows
                                    /\ [pay[p] EXCEPT !.status = s].ride = pay[p].ride
             /\ \A b \in BOOLEAN : /\ [pay[p] EXCEPT !.hold = b] \in PaymentRows
                                   /\ [pay[p] EXCEPT !.hold = b].ride = pay[p].ride
                                   /\ [pay[p] EXCEPT !.released = b] \in PaymentRows
                                   /\ [pay[p] EXCEPT !.released = b].ride = pay[p].ride
             /\ \A f : [pay EXCEPT ![p].status = f] = [pay EXCEPT ![p] = [pay[p] EXCEPT !.status = f]]
             /\ \A f : [pay EXCEPT ![p].hold = f] = [pay EXCEPT ![p] = [pay[p] EXCEPT !.hold = f]]
             /\ \A f : [pay EXCEPT ![p].released = f]
                        = [pay EXCEPT ![p] = [pay[p] EXCEPT !.released = f]]
  BY <1>0 DEF PaymentRows, Real
<1>5. ASSUME NEW p \in Real(pay), NEW s \in Statuses, pay' = [pay EXCEPT ![p].status = s]
      PROVE  /\ pay' \in [Payments -> PaymentRows]
             /\ RowsReal(pay')
             /\ Real(pay) \subseteq Real(pay')
  BY <1>3, <1>4, <1>5
<1>6. ASSUME NEW p \in Real(pay), NEW b \in BOOLEAN,
             \/ pay' = [pay EXCEPT ![p].hold = b]
             \/ pay' = [pay EXCEPT ![p].released = b]
      PROVE  /\ pay' \in [Payments -> PaymentRows]
             /\ RowsReal(pay')
             /\ Real(pay) \subseteq Real(pay')
  BY <1>3, <1>4, <1>6
<1>7. ASSUME NEW w \in Workers, Begin(w) \/ Crash(w) PROVE pay' = pay
  BY <1>7 DEF Begin, RequestPay, ReceiveWebhook, RequestDispute, RequestRefund, RequestResolve,
              StartSweep, Take, Crash
<1>8. ASSUME NEW w \in Workers, Continue(w)
      PROVE  /\ pay' \in [Payments -> PaymentRows]
             /\ RowsReal(pay')
             /\ Real(pay) \subseteq Real(pay')
  <2>0. /\ req[w].step \in Handling => req[w].payment \in Real(pay)
        /\ req[w].todo \subseteq Real(pay)
        /\ {"pending", "completed", "failed", "refunded"} = Statuses
    BY <1>0 DEF Backed, Fits, Statuses
  <2>1. CASE HoldPayment(w) \/ ProcessCashPayment(w) \/ ProcessGatewayPayment(w)
    BY <1>2, <2>0, <2>1 DEF HoldPayment, ProcessCashPayment, ProcessGatewayPayment
  <2>2. CASE RejectPay(w) \/ InsertDispute(w) \/ ProcessRefund(w) \/ ReverseDriverEscrow(w)
    BY <1>1, <2>2 DEF RejectPay, InsertDispute, ProcessRefund, ReverseDriverEscrow
  <2>3. CASE CompleteGatewayPayment(w)
    BY <1>1, <1>5, <2>0, <2>3 DEF CompleteGatewayPayment, At, Handling
  <2>4. CASE FailPayment(w)
    BY <1>5, <2>0, <2>4 DEF FailPayment, At, Handling
  <2>5. CASE ReleasePayment(w)
    BY <1>1, <1>6, <2>0, <2>5 DEF ReleasePayment
  <2>6. CASE HoldPendingFundsForDispute(w)
    BY <1>1, <1>6, <2>0, <2>6 DEF HoldPendingFundsForDispute, At, Handling
  <2>7. CASE CommitRefund(w)
    BY <1>1, <1>5, <2>0, <2>7 DEF CommitRefund, At, Handling
  <2>8. CASE ResolveDispute(w)
    BY <1>6, <2>0, <2>8 DEF ResolveDispute, At, Handling
  <2>9. CASE MarkRefunded(w)
    BY <1>5, <2>0, <2>9 DEF MarkRefunded, At, Handling
  <2> QED
    BY <1>8, <2>1, <2>2, <2>3, <2>4, <2>5, <2>6, <2>7, <2>8, <2>9 DEF Continue
<1>9. ASSUME NEW p \in Payments, FlagRide(p)
      PROVE  /\ pay' \in [Payments -> PaymentRows]
             /\ RowsReal(pay')
             /\ Real(pay) \subseteq Real(pay')
  <2>1. p \in Real(pay)
    BY <1>0, <1>9 DEF FlagRide, RowsReal, Real
  <2> QED
    BY <1>6, <1>9, <2>1 DEF FlagRide
<1>10. ASSUME NEW r \in Rides, Age(r) PROVE pay' = pay
  BY <1>10 DEF Age
<1>11. CASE UNCHANGED vars
  BY <1>1, <1>11 DEF vars
<1> QED
  BY <1>1, <1>7, <1>8, <1>9, <1>10, <1>11 DEF Next

\* A worker that begins has read what its request needs.
LEMMA BeginTyped ==
  ASSUME Types, NEW w \in Workers, Begin(w)
  PROVE  \E x \in RequestRows : Fits(x, Real(pay)) /\ req' = [req EXCEPT ![w] = x]
<1>0. RowsReal(pay) /\ \A p \in Payments : pay[p] \in PaymentRows
  BY DEF Types, TypeOK
<1>1. ASSUME NEW r \in Rides, NEW m \in Methods, RequestPay(w, r, m)
      PROVE  Task("pay", r, m, NoPayment, FALSE, {}) \in RequestRows
  BY DEF Task, RequestRows, Steps
<1>2. ASSUME NEW r \in Rides, NEW m \in Methods
      PROVE  Fits(Task("pay", r, m, NoPayment, FALSE, {}), Real(pay))
  BY DEF Task, Fits, Handling
<1>3. ASSUME NEW s \in {"complete", "fail", "insert_dispute", "refund", "resolve"},
             NEW p \in Real(pay), NEW seen \in BOOLEAN
      PROVE  /\ Task(s, NoRide, "none", p, seen, {}) \in RequestRows
             /\ Fits(Task(s, NoRide, "none", p, seen, {}), Real(pay))
  BY DEF Task, RequestRows, Steps, Fits, Real, Handling
<1>4. ASSUME NEW p \in Payments, pay[p] # NoRow PROVE p \in Real(pay)
  BY <1>0, <1>4 DEF RowsReal, Real
<1>5. NoRow.status = "none" /\ NoRow.hold = FALSE /\ NoRow.ride = NoRide
  BY DEF NoRow, Row
<1>6. /\ Task("release", NoRide, "none", NoPayment, FALSE, Due) \in RequestRows
      /\ Fits(Task("release", NoRide, "none", NoPayment, FALSE, Due), Real(pay))
  <2>1. Due \subseteq Real(pay)
    BY <1>4, <1>5 DEF Due
  <2> QED
    BY <2>1 DEF Task, RequestRows, Steps, Fits, Real, Handling
<1>7. ASSUME NEW r \in Rides, NEW m \in Methods, RequestPay(w, r, m)
      PROVE  req' = [req EXCEPT ![w] = Task("pay", r, m, NoPayment, FALSE, {})]
  BY <1>7 DEF RequestPay
<1>8. ASSUME NEW p \in Payments,
             \/ ReceiveWebhook(w, p, "complete") \/ ReceiveWebhook(w, p, "fail")
             \/ RequestRefund(w, p) \/ RequestResolve(w, p)
      PROVE  \E s \in {"complete", "fail", "refund", "resolve"} :
               p \in Real(pay) /\ req' = [req EXCEPT ![w] = Task(s, NoRide, "none", p, FALSE, {})]
  BY <1>4, <1>5, <1>8 DEF ReceiveWebhook, RequestRefund, RequestResolve, Take
<1>9. ASSUME NEW p \in Payments, RequestDispute(w, p)
      PROVE  \E seen \in BOOLEAN : p \in Real(pay)
               /\ req' = [req EXCEPT ![w] = Task("insert_dispute", NoRide, "none", p, seen, {})]
  BY <1>4, <1>9 DEF RequestDispute, Take
<1>10. CASE StartSweep(w)
  BY <1>6, <1>10 DEF StartSweep
<1> QED
  BY <1>1, <1>2, <1>3, <1>7, <1>8, <1>9, <1>10 DEF Begin

\* One that goes on keeps it.
LEMMA ContinueTyped ==
  ASSUME Types, NEW w \in Workers, Continue(w)
  PROVE  \E x \in RequestRows : Fits(x, Real(pay)) /\ req' = [req EXCEPT ![w] = x]
<1>0. /\ req[w] \in RequestRows /\ Fits(req[w], Real(pay))
      /\ req \in [Workers -> RequestRows]
      /\ \A p \in Payments : pay[p] \in PaymentRows
      /\ pending \in [Drivers -> Int]
  BY DEF Types, TypeOK, Backed
<1>1. CASE Finish(w)
  BY <1>1, IdleTyped DEF Finish
<1>2. CASE RejectPay(w) \/ HoldPayment(w) \/ ProcessCashPayment(w) \/ ProcessGatewayPayment(w)
  BY <1>1, <1>2 DEF RejectPay, HoldPayment, ProcessCashPayment, ProcessGatewayPayment, Insert
<1>3. CASE \/ CompleteGatewayPayment(w) \/ FailPayment(w) \/ HoldPendingFundsForDispute(w)
           \/ CommitRefund(w) \/ MarkRefunded(w)
  BY <1>1, <1>3 DEF CompleteGatewayPayment, FailPayment, HoldPendingFundsForDispute,
                    CommitRefund, MarkRefunded
<1>4. ASSUME req[w].step \in Handling,
             NEW s \in {"hold", "reverse_escrow", "commit_refund", "resolve_refund"}
      PROVE  /\ [req[w] EXCEPT !.step = s] \in RequestRows
             /\ Fits([req[w] EXCEPT !.step = s], Real(pay))
             /\ [req EXCEPT ![w].step = s] = [req EXCEPT ![w] = [req[w] EXCEPT !.step = s]]
  BY <1>0, <1>4 DEF RequestRows, Fits, Steps, Handling
<1>5. CASE InsertDispute(w) \/ ProcessRefund(w) \/ ResolveDispute(w)
  <2>1. req[w].step \in Handling
    BY <1>5 DEF InsertDispute, ProcessRefund, ResolveDispute, At, Handling
  <2>2. \/ Finish(w)
        \/ \E s \in {"hold", "reverse_escrow", "commit_refund", "resolve_refund"} :
             req' = [req EXCEPT ![w].step = s]
    BY <1>5 DEF InsertDispute, ProcessRefund, ResolveDispute
  <2> QED
    BY <1>1, <1>4, <2>1, <2>2
<1>6. CASE ReverseDriverEscrow(w)
  <2> DEFINE p == req[w].payment
             a == Smaller(PayoutOf(p), pending[DriverOfPayment(p)])
             x == [[req[w] EXCEPT !.step = "commit_refund"] EXCEPT !.amount = a]
  <2>1. p \in Real(pay) /\ req[w].step \in Handling
    BY <1>0, <1>6 DEF ReverseDriverEscrow, At, Fits, Handling
  <2>2. a \in Int
    BY <1>0, <2>1, RideAssumption DEF Smaller, PayoutOf, DriverOfPayment, Real
  <2>3. x \in RequestRows /\ Fits(x, Real(pay))
    BY <1>0, <2>1, <2>2 DEF RequestRows, Fits, Steps, Handling
  <2>4. req' = [req EXCEPT ![w] = x]
    BY <1>0, <1>6 DEF ReverseDriverEscrow, RequestRows
  <2> QED
    BY <2>3, <2>4
<1>7. CASE ReleasePayment(w)
  <2>1. PICK p \in req[w].todo : \/ Finish(w)
                                 \/ req' = [req EXCEPT ![w].todo = @ \ {p}]
    BY <1>7 DEF ReleasePayment
  <2>2. /\ [req[w] EXCEPT !.todo = req[w].todo \ {p}] \in RequestRows
        /\ Fits([req[w] EXCEPT !.todo = req[w].todo \ {p}], Real(pay))
        /\ [req EXCEPT ![w].todo = @ \ {p}]
             = [req EXCEPT ![w] = [req[w] EXCEPT !.todo = req[w].todo \ {p}]]
    BY <1>0 DEF RequestRows, Fits
  <2> QED
    BY <1>1, <2>1, <2>2
<1> QED
  BY <1>2, <1>3, <1>5, <1>6, <1>7 DEF Continue

LEMMA RequestsTyped ==
  ASSUME Types, [Next]_vars
  PROVE  req' \in [Workers -> RequestRows] /\ Backed(pay', req')
<1>0. /\ req \in [Workers -> RequestRows] /\ Backed(pay, req)
      /\ Real(pay) \subseteq Real(pay')
  BY PaymentsTyped DEF Types, TypeOK
<1>1. ASSUME NEW w \in Workers, NEW x \in RequestRows, Fits(x, Real(pay)),
             req' = [req EXCEPT ![w] = x]
      PROVE  req' \in [Workers -> RequestRows] /\ Backed(pay', req')
  BY <1>0, <1>1 DEF Backed, Fits
<1>2. CASE req' = req
  BY <1>0, <1>2 DEF Backed, Fits
<1>3. ASSUME NEW w \in Workers, Begin(w) \/ Continue(w) \/ Crash(w)
      PROVE  req' \in [Workers -> RequestRows] /\ Backed(pay', req')
  BY <1>1, <1>3, BeginTyped, ContinueTyped, IdleTyped DEF Crash, Finish
<1>4. ASSUME \/ \E p \in Payments : FlagRide(p)
             \/ \E r \in Rides : Age(r)
             \/ UNCHANGED vars
      PROVE  req' = req
  BY <1>4 DEF FlagRide, Age, vars
<1> QED
  BY <1>2, <1>3, <1>4 DEF Next

LEMMA NumbersTyped ==
  ASSUME Types, [Next]_vars
  PROVE  /\ disputed' \subseteq Payments
         /\ old' \subseteq Rides
         /\ pending' \in [Drivers -> Int]
         /\ earnings' \in [Rides -> Nat] /\ charges' \in [Rides -> Nat]
         /\ refunds' \in [Rides -> Nat]
<1> DEFINE Goal == /\ disputed' \subseteq Payments
                   /\ old' \subseteq Rides
                   /\ pending' \in [Drivers -> Int]
                   /\ earnings' \in [Rides -> Nat] /\ charges' \in [Rides -> Nat]
                   /\ refunds' \in [Rides -> Nat]
<1>0. /\ disputed \subseteq Payments /\ old \subseteq Rides
      /\ pending \in [Drivers -> Int]
      /\ earnings \in [Rides -> Nat] /\ charges \in [Rides -> Nat] /\ refunds \in [Rides -> Nat]
  BY DEF Types, TypeOK
<1>1. ASSUME NEW t \in [Rides -> Nat], NEW r \in Rides PROVE Count(t, r) \in [Rides -> Nat]
  BY DEF Count
<1>2. ASSUME NEW r \in Rides PROVE DriverOf[r] \in Drivers /\ Payout[r] \in Int
  BY RideAssumption
<1>3. ASSUME NEW d \in Drivers, NEW a \in Int, AddPending(d, a) PROVE pending' \in [Drivers -> Int]
  BY <1>0, <1>3 DEF AddPending
<1>4. CASE UNCHANGED <<disputed, old, pending, ledger>>
  BY <1>0, <1>4 DEF ledger
<1>5. ASSUME NEW w \in Workers, Begin(w) \/ Crash(w) PROVE Goal
  BY <1>4, <1>5 DEF Begin, RequestPay, ReceiveWebhook, RequestDispute, RequestRefund,
                    RequestResolve, StartSweep, Take, Crash
<1>6. ASSUME NEW w \in Workers, Continue(w) PROVE Goal
  <2>0. /\ req[w] \in RequestRows /\ Fits(req[w], Real(pay))
        /\ \A p \in Real(pay) : /\ DriverOfPayment(p) \in Drivers
                                /\ PayoutOf(p) \in Int /\ -PayoutOf(p) \in Int
                                /\ pay[p].ride \in Rides
    BY <1>2 DEF Types, TypeOK, Backed, DriverOfPayment, PayoutOf, Real
  <2>1. CASE HoldPayment(w)
    <3>1. req[w].ride \in Rides /\ DriverOf[req[w].ride] \in Drivers /\ Payout[req[w].ride] \in Int
      BY <1>2, <2>0, <2>1 DEF HoldPayment, At, Fits
    <3> QED
      BY <1>0, <1>1, <1>3, <2>1, <3>1 DEF HoldPayment, Insert
  <2>2. CASE ProcessCashPayment(w) \/ ProcessGatewayPayment(w)
    BY <1>0, <2>2 DEF ProcessCashPayment, ProcessGatewayPayment, Insert, ledger
  <2>3. CASE \/ RejectPay(w) \/ FailPayment(w) \/ ProcessRefund(w) \/ ReverseDriverEscrow(w)
             \/ ResolveDispute(w) \/ MarkRefunded(w)
    BY <1>4, <2>3 DEF RejectPay, FailPayment, ProcessRefund, ReverseDriverEscrow,
                      ResolveDispute, MarkRefunded
  <2>4. CASE CompleteGatewayPayment(w)
    <3>1. req[w].payment \in Real(pay)
      BY <2>0, <2>4 DEF CompleteGatewayPayment, At, Fits, Handling
    <3> QED
      BY <1>0, <1>3, <2>0, <2>4, <3>1 DEF CompleteGatewayPayment, ledger
  <2>5. CASE ReleasePayment(w)
    <3>1. req[w].todo \subseteq Real(pay)
      BY <2>0 DEF Fits
    <3> QED
      BY <1>0, <1>1, <1>3, <2>0, <2>5, <3>1 DEF ReleasePayment
  <2>6. CASE InsertDispute(w)
    <3>1. req[w].payment \in Payments
      BY <2>0, <2>6 DEF InsertDispute, At, Fits, Handling, Real
    <3> QED
      BY <1>0, <2>6, <3>1 DEF InsertDispute, ledger
  <2>7. CASE HoldPendingFundsForDispute(w)
    <3>1. req[w].payment \in Real(pay)
      BY <2>0, <2>7 DEF HoldPendingFundsForDispute, At, Fits, Handling
    <3>2. -Smaller(PayoutOf(req[w].payment), pending[DriverOfPayment(req[w].payment)]) \in Int
      BY <1>0, <2>0, <3>1 DEF Smaller
    <3> QED
      BY <1>0, <1>3, <2>0, <2>7, <3>1, <3>2 DEF HoldPendingFundsForDispute, ledger
  <2>8. CASE CommitRefund(w)
    <3>1. -req[w].amount \in Int /\ req[w].payment \in Real(pay)
      BY <2>0, <2>8 DEF RequestRows, CommitRefund, At, Fits, Handling
    <3> QED
      BY <1>0, <1>1, <1>3, <2>0, <2>8, <3>1 DEF CommitRefund
  <2> QED
    BY <1>6, <2>1, <2>2, <2>3, <2>4, <2>5, <2>6, <2>7, <2>8 DEF Continue
<1>7. ASSUME NEW p \in Payments, FlagRide(p) PROVE Goal
  BY <1>4, <1>7 DEF FlagRide
<1>8. ASSUME NEW r \in Rides, Age(r) PROVE Goal
  BY <1>0, <1>8 DEF Age, ledger
<1>9. CASE UNCHANGED vars
  BY <1>4, <1>9 DEF vars
<1> QED
  BY <1>5, <1>6, <1>7, <1>8, <1>9 DEF Next

LEMMA TypesStep == Types /\ [Next]_vars => Types'
BY PaymentsTyped, RequestsTyped, NumbersTyped DEF Types, TypeOK

LEMMA TypesAlways == Spec => []Types
<1>1. Types /\ [Next]_vars => Types'
  BY TypesStep
<1> QED
  BY <1>1, InitTypes, PTL DEF Spec

\* The rows of the payments and disputes tables, the balances, the ledger and what the workers
\* remember stay what the code can handle.
THEOREM TypeCorrect == Spec => []TypeOK
<1>1. Types => TypeOK
  BY DEF Types
<1> QED
  BY <1>1, TypesAlways, PTL

-----------------------------------------------------------------------------
(* What a step does to the rows. *)

\* Row p is rewritten with status s.
Restated(p, s) == p \in Real(pay) /\ pay' = [pay EXCEPT ![p].status = s]

\* No status changes.
Kept == \A p \in Payments : /\ pay'[p].ride = pay[p].ride
                           /\ pay'[p].method = pay[p].method
                           /\ pay'[p].status = pay[p].status

LEMMA RowsInHand ==
  ASSUME Types, NEW w \in Workers, req[w].step \in Handling
  PROVE  req[w].payment \in Real(pay) /\ req[w].payment \in Payments
BY DEF Types, Backed, Fits, Real

\* Every step is of one of these kinds.
LEMMA KindsOfSteps ==
  ASSUME Types, [Next]_vars
  PROVE  \/ Kept
         \/ \E w \in Workers : \/ HoldPayment(w) \/ ProcessCashPayment(w) \/ ProcessGatewayPayment(w)
         \/ \E w \in Workers :
              \/ /\ CompleteGatewayPayment(w) /\ pay[req[w].payment].status = "pending"
                 /\ Restated(req[w].payment, "completed")
              \/ FailPayment(w) /\ Restated(req[w].payment, "failed")
              \/ CommitRefund(w) /\ Restated(req[w].payment, "refunded")
              \/ MarkRefunded(w) /\ Restated(req[w].payment, "refunded")
<1>0. pay \in [Payments -> PaymentRows]
  BY DEF Types, TypeOK
<1>1. ASSUME pay' = pay PROVE Kept
  BY <1>1 DEF Kept
<1>2. ASSUME NEW p \in Payments, NEW b, \/ pay' = [pay EXCEPT ![p].hold = b]
                                       \/ pay' = [pay EXCEPT ![p].released = b]
      PROVE  Kept
  BY <1>0, <1>2 DEF Kept, PaymentRows
<1>3. ASSUME NEW w \in Workers, Begin(w) \/ Crash(w) PROVE pay' = pay
  BY <1>3 DEF Begin, RequestPay, ReceiveWebhook, RequestDispute, RequestRefund, RequestResolve,
              StartSweep, Take, Crash
<1>4. ASSUME NEW w \in Workers,
             \/ RejectPay(w) \/ InsertDispute(w) \/ ProcessRefund(w) \/ ReverseDriverEscrow(w)
      PROVE  pay' = pay
  BY <1>4 DEF RejectPay, InsertDispute, ProcessRefund, ReverseDriverEscrow
<1>5. ASSUME NEW w \in Workers, HoldPendingFundsForDispute(w) \/ ResolveDispute(w)
      PROVE  Kept
  <2>1. req[w].payment \in Payments
    BY <1>5, RowsInHand DEF HoldPendingFundsForDispute, ResolveDispute, At, Handling
  <2> QED
    BY <1>1, <1>2, <1>5, <2>1 DEF HoldPendingFundsForDispute, ResolveDispute
<1>6. ASSUME NEW w \in Workers, ReleasePayment(w) PROVE Kept
  <2>1. req[w].todo \subseteq Payments
    BY DEF Types, Backed, Fits, Real
  <2> QED
    BY <1>1, <1>2, <1>6, <2>1 DEF ReleasePayment
<1>7. ASSUME NEW w \in Workers, CompleteGatewayPayment(w)
      PROVE  \/ Kept
             \/ pay[req[w].payment].status = "pending" /\ Restated(req[w].payment, "completed")
  BY <1>1, <1>7, RowsInHand DEF CompleteGatewayPayment, Restated, At, Handling
<1>8. ASSUME NEW w \in Workers, FailPayment(w) PROVE Restated(req[w].payment, "failed")
  BY <1>8, RowsInHand DEF FailPayment, Restated, At, Handling
<1>9. ASSUME NEW w \in Workers, CommitRefund(w)
      PROVE  Kept \/ Restated(req[w].payment, "refunded")
  BY <1>1, <1>9, RowsInHand DEF CommitRefund, Restated, At, Handling
<1>10. ASSUME NEW w \in Workers, MarkRefunded(w) PROVE Restated(req[w].payment, "refunded")
  BY <1>10, RowsInHand DEF MarkRefunded, Restated, At, Handling
<1>11. ASSUME NEW p \in Payments, FlagRide(p) PROVE Kept
  BY <1>2, <1>11 DEF FlagRide
<1>12. ASSUME (\E r \in Rides : Age(r)) \/ UNCHANGED vars PROVE pay' = pay
  BY <1>12 DEF Age, vars
<1> QED
  BY <1>1, <1>3, <1>4, <1>5, <1>6, <1>7, <1>8, <1>9, <1>10, <1>11, <1>12 DEF Next, Continue

\* What a row is after a new status, and the others.
LEMMA RestatedRows ==
  ASSUME Types, NEW p \in Payments, NEW s, Restated(p, s)
  PROVE  /\ pay'[p].status = s
         /\ \A q \in Payments : /\ pay'[q].ride = pay[q].ride /\ pay'[q].method = pay[q].method
                                /\ pay'[q].released = pay[q].released
                                /\ q # p => pay'[q] = pay[q]
BY DEF Types, TypeOK, PaymentRows, Restated

\* The row of a pay request, and the others.
LEMMA InsertedRow ==
  ASSUME Types, NEW w \in Workers, NEW s, At(w, "pay"), Insert(w, s)
  PROVE  \E p \in Payments :
           /\ pay[p] = NoRow
           /\ pay'[p] = Row(req[w].ride, req[w].method, s)
           /\ req[w].ride \in Rides
           /\ \A q \in Payments \ {p} : pay'[q] = pay[q]
BY DEF Types, TypeOK, Backed, Fits, At, Insert

-----------------------------------------------------------------------------
(* One active payment. *)

LEMMA OneActiveStep == Types /\ OneActivePayment /\ [Next]_vars => OneActivePayment'
<1> SUFFICES ASSUME Types, OneActivePayment, [Next]_vars,
                    NEW r \in Rides, NEW p \in Payments, NEW q \in Payments,
                    pay'[p].ride = r, pay'[q].ride = r,
                    pay'[p].status \in {"pending", "completed"},
                    pay'[q].status \in {"pending", "completed"}
             PROVE  p = q
  BY DEF OneActivePayment, RowsOf, Active
<1>0. ASSUME pay[p].ride = r, pay[q].ride = r,
             pay[p].status \in {"pending", "completed"}, pay[q].status \in {"pending", "completed"}
      PROVE  p = q
  BY <1>0 DEF OneActivePayment, RowsOf, Active
<1>1. CASE Kept
  BY <1>0, <1>1 DEF Kept
<1>2. ASSUME NEW w \in Workers, NEW s, At(w, "pay"), Insert(w, s) PROVE p = q
  <2>1. PICK new \in Payments :
             /\ pay'[new] = Row(req[w].ride, req[w].method, s)
             /\ \A x \in Payments \ {new} : pay'[x] = pay[x]
    BY <1>2, InsertedRow
  <2>2. \A x \in Payments : pay[x].ride = req[w].ride
                             => pay[x].status \notin {"pending", "completed"}
    BY <1>2 DEF Insert, RowsOf, Active
  <2> QED
    BY <1>0, <2>1, <2>2 DEF Row
<1>3. ASSUME NEW w \in Workers, NEW s, Restated(req[w].payment, s),
             s \in {"failed", "refunded"} \/ (s = "completed" /\ pay[req[w].payment].status = "pending")
      PROVE  p = q
  <2>1. req[w].payment \in Payments
    BY <1>3 DEF Restated, Real
  <2> QED
    BY <1>0, <1>3, <2>1, RestatedRows
<1> QED
  BY <1>1, <1>2, <1>3, KindsOfSteps DEF HoldPayment, ProcessCashPayment, ProcessGatewayPayment

\* However pay requests, webhooks, refunds and resolutions overlap, a ride has at most one
\* payment that is pending or completed.
THEOREM PaymentsAreSingle == Spec => []OneActivePayment
<1>1. Init => OneActivePayment
  BY DEF Init, OneActivePayment, Active, RowsOf, NoRow, Row
<1>2. Types /\ OneActivePayment /\ [Next]_vars => OneActivePayment'
  BY OneActiveStep
<1> QED
  BY <1>1, <1>2, TypesAlways, PTL DEF Spec

-----------------------------------------------------------------------------
(* Releases. *)

\* Only releaseCompletedRides marks a payment released: one it listed, that is
\* completed, not yet released and covered by the balance.
LEMMA ReleasedWriters ==
  ASSUME Types, [Next]_vars, NEW p \in Payments
  PROVE  \/ pay'[p].released = pay[p].released
         \/ \E w \in Workers : /\ ReleasePayment(w) /\ p \in req[w].todo /\ Releasable(p)
                               /\ pay'[p].released = TRUE
<1> DEFINE Same == pay'[p].released = pay[p].released
<1>0. pay \in [Payments -> PaymentRows]
  BY DEF Types, TypeOK
<1>1. ASSUME NEW w \in Workers, ReleasePayment(w)
      PROVE  Same \/ (p \in req[w].todo /\ Releasable(p) /\ pay'[p].released = TRUE)
  BY <1>0, <1>1 DEF ReleasePayment, PaymentRows
<1>2. ASSUME NEW w \in Workers, NEW s, At(w, "pay"), Insert(w, s) PROVE Same
  <2>1. PICK new \in Payments : /\ pay[new] = NoRow
                                /\ pay'[new] = Row(req[w].ride, req[w].method, s)
                                /\ \A x \in Payments \ {new} : pay'[x] = pay[x]
    BY <1>2, InsertedRow
  <2>2. pay[new].released = FALSE /\ pay'[new].released = FALSE
    BY <2>1 DEF NoRow, Row
  <2> QED
    BY <2>1, <2>2
<1>3. ASSUME NEW x, NEW s, \/ pay' = [pay EXCEPT ![x].status = s]
                          \/ pay' = [pay EXCEPT ![x].hold = s]
                          \/ pay' = pay
      PROVE  Same
  BY <1>0, <1>3 DEF PaymentRows
<1>4. ASSUME NEW w \in Workers, Begin(w) \/ Crash(w) PROVE pay' = pay
  BY <1>4 DEF Begin, RequestPay, ReceiveWebhook, RequestDispute, RequestRefund, RequestResolve,
              StartSweep, Take, Crash
<1>5. ASSUME NEW w \in Workers, Continue(w) PROVE Same \/ ReleasePayment(w)
  <2>1. CASE HoldPayment(w) \/ ProcessCashPayment(w) \/ ProcessGatewayPayment(w)
    BY <1>2, <2>1 DEF HoldPayment, ProcessCashPayment, ProcessGatewayPayment
  <2>2. CASE \/ RejectPay(w) \/ InsertDispute(w) \/ ProcessRefund(w) \/ ReverseDriverEscrow(w)
    BY <2>2 DEF RejectPay, InsertDispute, ProcessRefund, ReverseDriverEscrow
  <2>3. CASE \/ CompleteGatewayPayment(w) \/ FailPayment(w) \/ HoldPendingFundsForDispute(w)
             \/ CommitRefund(w) \/ ResolveDispute(w) \/ MarkRefunded(w)
    BY <1>3, <2>3 DEF CompleteGatewayPayment, FailPayment, HoldPendingFundsForDispute,
                      CommitRefund, ResolveDispute, MarkRefunded
  <2> QED
    BY <1>5, <2>1, <2>2, <2>3 DEF Continue
<1>6. ASSUME NEW x \in Payments, FlagRide(x) PROVE Same
  BY <1>3, <1>6 DEF FlagRide
<1>7. ASSUME (\E r \in Rides : Age(r)) \/ UNCHANGED vars PROVE pay' = pay
  BY <1>7 DEF Age, vars
<1> QED
  BY <1>1, <1>4, <1>5, <1>6, <1>7 DEF Next

\* A payment that is refunded stays unpaid to the driver if it was unpaid, whatever a sweep had
\* listed before.
THEOREM RefundStopsRelease == Spec => RefundedNotReleased
<1>1. Types /\ [Next]_vars
        => [\A p \in Payments :
              pay[p].status = "refunded" => pay'[p].released = pay[p].released]_vars
  BY ReleasedWriters DEF Releasable
<1> QED
  BY <1>1, TypesAlways, PTL DEF Spec, RefundedNotReleased

\* A payment that was released is never due again: no crash, webhook, refund or
\* resolution of a dispute takes the mark off, so no later sweep pays it twice.
THEOREM ReleaseIsForGood ==
  Spec => [][\A p \in Payments : pay[p].released => pay'[p].released]_vars
<1>1. Types /\ [Next]_vars
        => [\A p \in Payments : pay[p].released => pay'[p].released]_vars
  BY ReleasedWriters
<1> QED
  BY <1>1, TypesAlways, PTL DEF Spec

-----------------------------------------------------------------------------
(* The rows that webhooks and open refund transactions work on.            *)

\* Only gateway payments are ever pending, so a webhook works on one of these; an open refund
\* transaction keeps its payment completed, and to itself.
Owned ==
  /\ \A p \in Payments : pay[p].status = "pending" => pay[p].method = "gateway"
  /\ \A w \in Workers : /\ req[w].step \in {"complete", "fail"} => pay[req[w].payment].method = "gateway"
                        /\ req[w].step \in Locking => pay[req[w].payment].status = "completed"
  /\ \A v, w \in Workers : /\ req[v].step \in Locking /\ req[w].step \in Locking
                           /\ req[v].payment = req[w].payment
                           => v = w

\* The request of a worker after a step: what webhooks and refunds go on with.
LEMMA NextInHand ==
  ASSUME Types, [Next]_vars, NEW v \in Workers,
         req'[v].step \in {"complete", "fail"} \cup Locking
  PROVE  /\ req'[v].payment \in Payments
         /\ \/ req'[v].step = req[v].step /\ req'[v].payment = req[v].payment
            \/ /\ req'[v].step \in {"complete", "fail"}
               /\ pay[req'[v].payment].status = "pending" /\ UNCHANGED pay
            \/ /\ req[v].step = "refund" /\ req'[v].step \in Locking
               /\ req'[v].payment = req[v].payment
               /\ pay[req[v].payment].status = "completed" /\ UNCHANGED pay
               /\ Unlocked(req[v].payment)
               /\ \A w \in Workers \ {v} : req'[w] = req[w]
            \/ /\ req[v].step \in Locking /\ req'[v].step \in Locking
               /\ req'[v].payment = req[v].payment
<1> DEFINE Goal == \/ req'[v].step = req[v].step /\ req'[v].payment = req[v].payment
                   \/ /\ req'[v].step \in {"complete", "fail"}
                      /\ pay[req'[v].payment].status = "pending" /\ UNCHANGED pay
                   \/ /\ req[v].step = "refund" /\ req'[v].step \in Locking
                      /\ req'[v].payment = req[v].payment
                      /\ pay[req[v].payment].status = "completed" /\ UNCHANGED pay
                      /\ Unlocked(req[v].payment)
                      /\ \A w \in Workers \ {v} : req'[w] = req[w]
                   \/ /\ req[v].step \in Locking /\ req'[v].step \in Locking
                      /\ req'[v].payment = req[v].payment
<1>0. /\ req \in [Workers -> RequestRows] /\ req' \in [Workers -> RequestRows]
      /\ Backed(pay', req')
      /\ {"complete", "fail"} \cup Locking \subseteq Handling
  BY RequestsTyped DEF Types, TypeOK, Handling, Locking
<1>1. req'[v].payment \in Payments
  BY <1>0 DEF Backed, Fits, Real
<1>2. ASSUME req'[v] = req[v] PROVE Goal
  BY <1>2
<1>3. ASSUME NEW w \in Workers, Finish(w) PROVE Goal
  BY <1>0, <1>3 DEF Finish, Idle, Task, Locking
<1>4. ASSUME NEW w \in Workers, Begin(w) PROVE Goal
  <2>1. ASSUME NEW p \in Payments,
               \/ RequestDispute(w, p) \/ RequestRefund(w, p) \/ RequestResolve(w, p)
        PROVE  Goal
    BY <1>0, <2>1 DEF RequestDispute, RequestRefund, RequestResolve, Take, Task, Locking
  <2>2. ASSUME NEW p \in Payments, ReceiveWebhook(w, p, "complete") \/ ReceiveWebhook(w, p, "fail")
        PROVE  Goal
    BY <1>0, <2>2 DEF ReceiveWebhook, Take, Task, Locking
  <2>3. ASSUME NEW r \in Rides, NEW m \in Methods, RequestPay(w, r, m) PROVE Goal
    BY <1>0, <2>3 DEF RequestPay, Task, Locking
  <2>4. CASE StartSweep(w)
    BY <1>0, <2>4 DEF StartSweep, Task, Locking
  <2> QED
    BY <1>4, <2>1, <2>2, <2>3, <2>4 DEF Begin
<1>5. ASSUME NEW w \in Workers, Continue(w) PROVE Goal
  <2>1. CASE \/ HoldPayment(w) \/ ProcessCashPayment(w) \/ ProcessGatewayPayment(w) \/ RejectPay(w)
             \/ CompleteGatewayPayment(w) \/ FailPayment(w) \/ HoldPendingFundsForDispute(w)
             \/ CommitRefund(w) \/ MarkRefunded(w)
    BY <1>3, <2>1 DEF HoldPayment, ProcessCashPayment, ProcessGatewayPayment, Insert, RejectPay,
                      CompleteGatewayPayment, FailPayment, HoldPendingFundsForDispute,
                      CommitRefund, MarkRefunded
  <2>2. CASE InsertDispute(w)
    BY <1>0, <1>3, <2>2 DEF InsertDispute, Locking, RequestRows
  <2>3. CASE ResolveDispute(w)
    BY <1>0, <1>3, <2>3 DEF ResolveDispute, Locking, RequestRows
  <2>4. CASE ReleasePayment(w)
    BY <1>0, <1>3, <2>4 DEF ReleasePayment, At, RequestRows
  <2>5. CASE ProcessRefund(w)
    BY <1>0, <1>3, <2>5 DEF ProcessRefund, At, RequestRows
  <2>6. CASE ReverseDriverEscrow(w)
    BY <1>0, <2>6 DEF ReverseDriverEscrow, At, Locking, RequestRows
  <2> QED
    BY <1>5, <2>1, <2>2, <2>3, <2>4, <2>5, <2>6 DEF Continue
<1>6. ASSUME NEW p \in Payments, FlagRide(p) PROVE Goal
  BY <1>2, <1>6 DEF FlagRide
<1>7. ASSUME (\E r \in Rides : Age(r)) \/ UNCHANGED vars PROVE Goal
  BY <1>2, <1>7 DEF Age, vars
<1>8. ASSUME NEW w \in Workers, Crash(w) PROVE Goal
  BY <1>3, <1>8 DEF Crash
<1> QED
  BY <1>1, <1>4, <1>5, <1>6, <1>7, <1>8 DEF Next

LEMMA OwnedStep == Types /\ Owned /\ [Next]_vars => Owned'
<1> SUFFICES ASSUME Types, Owned, [Next]_vars PROVE Owned'
  OBVIOUS
<1> USE DEF Locking
<1>0. /\ req \in [Workers -> RequestRows]
      /\ \A w \in Workers : Finish(w) => req'[w].step = "idle"
  BY DEF Types, TypeOK, Finish, Idle, Task
<1>1. ASSUME NEW w \in Workers, HoldPayment(w) \/ ProcessCashPayment(w) \/ ProcessGatewayPayment(w)
      PROVE  \E new \in Payments :
               /\ pay[new] = NoRow
               /\ pay'[new].status = "pending" => pay'[new].method = "gateway"
               /\ \A q \in Payments \ {new} : pay'[q] = pay[q]
  <2>1. PICK s \in {"completed", "pending"} : /\ At(w, "pay") /\ Insert(w, s)
                                              /\ s = "pending" => req[w].method = "gateway"
    BY <1>1 DEF HoldPayment, ProcessCashPayment, ProcessGatewayPayment
  <2>2. PICK new \in Payments :
             /\ pay[new] = NoRow
             /\ pay'[new] = Row(req[w].ride, req[w].method, s)
             /\ \A q \in Payments \ {new} : pay'[q] = pay[q]
    BY <2>1, InsertedRow
  <2>3. pay'[new].status = s /\ pay'[new].method = req[w].method
    BY <2>2 DEF Row
  <2> QED
    BY <2>1, <2>2, <2>3
<1>2. ASSUME NEW p \in Payments, pay'[p].status = "pending" PROVE pay'[p].method = "gateway"
  <2>1. CASE Kept
    BY <1>2, <2>1 DEF Kept, Owned
  <2>2. ASSUME NEW w \in Workers, HoldPayment(w) \/ ProcessCashPayment(w) \/ ProcessGatewayPayment(w)
        PROVE  pay'[p].method = "gateway"
    BY <1>1, <1>2, <2>2 DEF Owned
  <2>3. ASSUME NEW q \in Payments, NEW s \in {"completed", "failed", "refunded"}, Restated(q, s)
        PROVE  pay'[p].method = "gateway"
    BY <1>2, <2>3, RestatedRows DEF Owned
  <2> QED
    BY <2>1, <2>2, <2>3, KindsOfSteps DEF Restated, Real
<1>3. ASSUME NEW v \in Workers, req'[v].step \in {"complete", "fail"}
      PROVE  pay'[req'[v].payment].method = "gateway"
  <2> DEFINE p == req'[v].payment
  <2>1. p \in Payments /\ pay[p].method = "gateway"
    <3>1. p \in Payments
      BY <1>3, NextInHand
    <3>2. CASE req'[v].step = req[v].step /\ req'[v].payment = req[v].payment
      BY <1>3, <3>1, <3>2 DEF Owned
    <3>3. CASE pay[p].status = "pending"
      BY <3>1, <3>3 DEF Owned
    <3> HIDE DEF p
    <3>4. req'[v].step \notin Locking
      BY <1>3
    <3>5. \/ req'[v].step = req[v].step /\ req'[v].payment = req[v].payment
          \/ pay[req'[v].payment].status = "pending"
          \/ req[v].step = "refund" /\ req'[v].step \in Locking
      BY <1>3, NextInHand
    <3> QED
      BY <3>1, <3>2, <3>3, <3>4, <3>5 DEF p
  <2>2. CASE Kept
    BY <2>1, <2>2 DEF Kept
  <2>3. ASSUME NEW w \in Workers, HoldPayment(w) \/ ProcessCashPayment(w) \/ ProcessGatewayPayment(w)
        PROVE  pay'[p].method = "gateway"
    BY <1>1, <2>1, <2>3 DEF NoRow, Row
  <2>4. ASSUME NEW q \in Payments, NEW s \in {"completed", "failed", "refunded"}, Restated(q, s)
        PROVE  pay'[p].method = "gateway"
    BY <2>1, <2>4, RestatedRows
  <2> QED
    BY <2>2, <2>3, <2>4, KindsOfSteps DEF Restated, Real
<1>4. ASSUME NEW v \in Workers, req'[v].step \in Locking
      PROVE  pay'[req'[v].payment].status = "completed"
  <2> DEFINE p == req'[v].payment
  <2>1. /\ p \in Payments
        /\ pay[p].status = "completed"
        /\ \/ UNCHANGED pay
           \/ req[v].step \in Locking /\ req[v].payment = p
    BY <1>4, NextInHand DEF Owned
  <2>2. CASE Kept
    BY <2>1, <2>2 DEF Kept
  <2>3. ASSUME NEW w \in Workers, HoldPayment(w) \/ ProcessCashPayment(w) \/ ProcessGatewayPayment(w)
        PROVE  pay'[p].status = "completed"
    BY <1>1, <2>1, <2>3 DEF NoRow, Row
  <2>4. ASSUME NEW q \in Payments \ {p}, NEW s, Restated(q, s) PROVE pay'[p].status = "completed"
    BY <2>1, <2>4, RestatedRows
  <2>5. ASSUME NEW w \in Workers, Restated(req[w].payment, "refunded"), CommitRefund(w)
        PROVE  pay'[p].status = "completed"
    <3>1. CASE UNCHANGED pay
      BY <2>1, <3>1
    <3>2. CASE req[v].step \in Locking /\ req[v].payment = p /\ req[w].payment = p
      <4>1. v = w
        BY <2>5, <3>2 DEF CommitRefund, At, Owned
      <4> QED
        BY <1>0, <1>4, <2>5, <4>1 DEF CommitRefund
    <3> QED
      BY <2>1, <2>4, <2>5, <3>1, <3>2 DEF Restated, Real
  <2>6. ASSUME NEW w \in Workers, NEW s, Restated(req[w].payment, s), Unlocked(req[w].payment)
        PROVE  pay'[p].status = "completed"
    BY <2>1, <2>4, <2>6 DEF Unlocked, Restated, Real
  <2>7. ASSUME NEW w \in Workers, CompleteGatewayPayment(w) \/ FailPayment(w) \/ MarkRefunded(w)
        PROVE  Unlocked(req[w].payment)
    BY <2>7 DEF CompleteGatewayPayment, FailPayment, MarkRefunded
  <2> QED
    BY <2>2, <2>3, <2>5, <2>6, <2>7, KindsOfSteps
<1>5. ASSUME NEW v \in Workers, NEW w \in Workers,
             req'[v].step \in Locking, req'[w].step \in Locking, req'[v].payment = req'[w].payment
      PROVE  v = w
  <2>1. ASSUME NEW x \in Workers, NEW y \in Workers, x # y,
               req'[x].step \in Locking, req'[y].step \in Locking, req'[x].payment = req'[y].payment
        PROVE  req[x].step \in Locking /\ req[x].payment = req'[x].payment
    <3>1. CASE /\ req'[x].payment = req[x].payment /\ Unlocked(req[x].payment)
               /\ \A u \in Workers \ {x} : req'[u] = req[u]
      BY <2>1, <3>1 DEF Unlocked
    <3> QED
      BY <2>1, <3>1, NextInHand
  <2> QED
    BY <1>5, <2>1 DEF Owned
<1> QED
  BY <1>2, <1>3, <1>4, <1>5 DEF Owned

LEMMA InitOwned == Init => Owned
BY DEF Init, Owned, NoRow, Row, Idle, Task, Locking


LEMMA OwnedAlways == Spec => []Owned
<1>1. Types /\ Owned /\ [Next]_vars => Owned'
  BY OwnedStep
<1> QED
  BY <1>1, InitOwned, TypesAlways, PTL DEF Spec

-----------------------------------------------------------------------------
(* The ledger and the rows it is written for.                              *)

RowsIn(py, r)   == {p \in Payments : py[p].ride = r}
Released(py, r) == {p \in RowsIn(py, r) : py[p].released}
Refunded(py, r) == {p \in RowsIn(py, r) : py[p].status = "refunded" /\ py[p].method # "gateway"}
Charged(py, r)  == {p \in RowsIn(py, r) : py[p].method = "wallet"}

\* The rows of a ride are finitely many, so that counting them makes sense; the refunds of the
\* ledger are counted against payments that are not of a gateway, because a failed webhook may
\* overwrite the status of the others.
Books == \A r \in Rides : /\ IsFiniteSet(RowsIn(pay, r))
                          /\ earnings[r] = Cardinality(Released(pay, r))
                          /\ refunds[r] <= Cardinality(Refunded(pay, r))
                          /\ charges[r] = Cardinality(Charged(pay, r))

LEMMA OneMore ==
  ASSUME NEW A, NEW p, IsFiniteSet(A), p \notin A
  PROVE  /\ IsFiniteSet(A \cup {p})
         /\ Cardinality(A) \in Nat
         /\ Cardinality(A \cup {p}) = Cardinality(A) + 1
BY FS_AddElement, FS_CardinalityType

LEMMA FiniteRows ==
  ASSUME Books, NEW r \in Rides
  PROVE  /\ IsFiniteSet(RowsIn(pay, r)) /\ IsFiniteSet(Released(pay, r))
         /\ IsFiniteSet(Refunded(pay, r)) /\ IsFiniteSet(Charged(pay, r))
<1>1. /\ Released(pay, r) \subseteq RowsIn(pay, r)
      /\ Refunded(pay, r) \subseteq RowsIn(pay, r)
      /\ Charged(pay, r) \subseteq RowsIn(pay, r)
  BY DEF Released, Refunded, Charged
<1> QED
  BY <1>1, FS_Subset DEF Books

\* The sets that are counted stay as they are.
SameSets(r) == /\ RowsIn(pay', r) = RowsIn(pay, r)
               /\ Released(pay', r) = Released(pay, r)
               /\ Refunded(pay', r) = Refunded(pay, r)
               /\ Charged(pay', r) = Charged(pay, r)

\* A step that changes nothing but statuses and holds of rows, and of no row to or from refunded
\* unless it belongs to a gateway, leaves them.
LEMMA SameRows ==
  ASSUME NEW r,
         \A p \in Payments : /\ pay'[p].ride = pay[p].ride /\ pay'[p].method = pay[p].method
                             /\ pay'[p].released = pay[p].released
                             /\ \/ pay[p].method = "gateway"
                                \/ pay'[p].status = pay[p].status
  PROVE  SameSets(r)
BY DEF SameSets, RowsIn, Released, Refunded, Charged

LEMMA UnchangedBooks ==
  ASSUME Books, NEW r \in Rides, SameSets(r),
         earnings'[r] = earnings[r], refunds'[r] = refunds[r], charges'[r] = charges[r]
  PROVE  /\ IsFiniteSet(RowsIn(pay', r))
         /\ earnings'[r] = Cardinality(Released(pay', r))
         /\ refunds'[r] <= Cardinality(Refunded(pay', r))
         /\ charges'[r] = Cardinality(Charged(pay', r))
BY DEF Books, SameSets

\* A payment is inserted; the rider of a wallet payment is charged.
LEMMA InsertBooks ==
  ASSUME Types, Books, NEW w \in Workers,
         HoldPayment(w) \/ ProcessCashPayment(w) \/ ProcessGatewayPayment(w)
  PROVE  Books'
<1>0. PICK s \in {"completed", "pending"} : At(w, "pay") /\ Insert(w, s)
  BY DEF HoldPayment, ProcessCashPayment, ProcessGatewayPayment
<1> DEFINE ride == req[w].ride
<1>1. PICK new \in Payments : /\ pay[new] = NoRow
                             /\ pay'[new] = Row(ride, req[w].method, s)
                             /\ ride \in Rides
                             /\ \A q \in Payments \ {new} : pay'[q] = pay[q]
  BY <1>0, InsertedRow
<1>2. /\ pay[new].ride = NoRide /\ ~pay'[new].released
      /\ pay'[new].ride = ride /\ pay'[new].method = req[w].method
      /\ pay'[new].status # "refunded"
  BY <1>0, <1>1 DEF NoRow, Row
<1>3. /\ earnings' = earnings /\ refunds' = refunds
      /\ \/ req[w].method # "wallet" /\ charges' = charges
         \/ req[w].method = "wallet" /\ charges' = [charges EXCEPT ![ride] = @ + 1]
  BY DEF HoldPayment, ProcessCashPayment, ProcessGatewayPayment, Count, ledger
<1>4. charges \in [Rides -> Nat]
  BY DEF Types, TypeOK
<1> SUFFICES ASSUME NEW r \in Rides
             PROVE  /\ IsFiniteSet(RowsIn(pay', r))
                    /\ earnings'[r] = Cardinality(Released(pay', r))
                    /\ refunds'[r] <= Cardinality(Refunded(pay', r))
                    /\ charges'[r] = Cardinality(Charged(pay', r))
  BY DEF Books
<1> HIDE DEF ride
<1>5. r # NoRide
  BY RideAssumption
<1>6. CASE r # ride
  <2>1. SameSets(r)
    BY <1>1, <1>2, <1>5, <1>6 DEF SameSets, RowsIn, Released, Refunded, Charged
  <2>2. charges'[r] = charges[r]
    BY <1>3, <1>4, <1>6
  <2> QED
    BY <1>3, <2>1, <2>2, UnchangedBooks
<1>7. CASE r = ride
  <2>1. /\ RowsIn(pay', r) = RowsIn(pay, r) \cup {new} /\ new \notin RowsIn(pay, r)
        /\ Released(pay', r) = Released(pay, r) /\ Refunded(pay', r) = Refunded(pay, r)
    BY <1>1, <1>2, <1>5, <1>7 DEF RowsIn, Released, Refunded
  <2>2. IsFiniteSet(RowsIn(pay', r))
    BY <2>1, OneMore, FiniteRows
  <2>3. charges'[r] = Cardinality(Charged(pay', r))
    <3>1. CASE req[w].method # "wallet"
      <4>1. Charged(pay', r) = Charged(pay, r)
        BY <1>1, <1>2, <1>5, <1>7, <3>1 DEF RowsIn, Charged
      <4> QED
        BY <1>3, <3>1, <4>1 DEF Books
    <3>2. CASE req[w].method = "wallet"
      <4>1. Charged(pay', r) = Charged(pay, r) \cup {new} /\ new \notin Charged(pay, r)
        BY <1>1, <1>2, <1>5, <1>7, <3>2 DEF RowsIn, Charged
      <4>2. Cardinality(Charged(pay', r)) = Cardinality(Charged(pay, r)) + 1
        BY <4>1, OneMore, FiniteRows
      <4>3. charges'[r] = charges[r] + 1
        BY <1>3, <1>4, <1>7, <3>2
      <4> QED
        BY <4>2, <4>3 DEF Books
    <3> QED
      BY <3>1, <3>2
  <2> QED
    BY <1>3, <2>1, <2>2, <2>3 DEF Books
<1> QED
  BY <1>6, <1>7

\* A payment is released and its driver credited.
LEMMA ReleaseBooks ==
  ASSUME Types, Books, NEW w \in Workers, ReleasePayment(w)
  PROVE  Books'
<1>0. /\ pay \in [Payments -> PaymentRows] /\ earnings \in [Rides -> Nat]
      /\ refunds' = refunds /\ charges' = charges
      /\ req[w].todo \subseteq Real(pay)
  BY DEF Types, TypeOK, ReleasePayment, Backed, Fits
<1>1. PICK p \in Real(pay) :
        \/ pay' = pay /\ earnings' = earnings
        \/ /\ ~pay[p].released
           /\ pay' = [pay EXCEPT ![p].released = TRUE]
           /\ earnings' = Count(earnings, pay[p].ride)
  BY <1>0 DEF ReleasePayment, Releasable
<1>2. CASE pay' = pay /\ earnings' = earnings
  BY <1>0, <1>2 DEF Books
<1>3. CASE /\ ~pay[p].released
           /\ pay' = [pay EXCEPT ![p].released = TRUE]
           /\ earnings' = Count(earnings, pay[p].ride)
  <2>0. p \in Payments /\ pay[p].ride \in Rides
    BY DEF Real
  <2>1. /\ \A q \in Payments : /\ pay'[q].ride = pay[q].ride /\ pay'[q].method = pay[q].method
                               /\ pay'[q].status = pay[q].status
                               /\ q # p => pay'[q].released = pay[q].released
        /\ pay'[p].released
    BY <1>0, <1>3, <2>0 DEF PaymentRows
  <2>2. \A r \in Rides : earnings'[r] = IF r = pay[p].ride THEN earnings[r] + 1 ELSE earnings[r]
    BY <1>0, <1>3, <2>0 DEF Count
  <2> SUFFICES ASSUME NEW r \in Rides
               PROVE  /\ IsFiniteSet(RowsIn(pay', r))
                      /\ earnings'[r] = Cardinality(Released(pay', r))
                      /\ refunds'[r] <= Cardinality(Refunded(pay', r))
                      /\ charges'[r] = Cardinality(Charged(pay', r))
    BY DEF Books
  <2>3. /\ RowsIn(pay', r) = RowsIn(pay, r) /\ Refunded(pay', r) = Refunded(pay, r)
        /\ Charged(pay', r) = Charged(pay, r)
    BY <2>1 DEF RowsIn, Refunded, Charged
  <2>4. earnings'[r] = Cardinality(Released(pay', r))
    <3>1. CASE r # pay[p].ride
      <4>1. Released(pay', r) = Released(pay, r)
        BY <2>1, <3>1 DEF RowsIn, Released
      <4> QED
        BY <2>2, <3>1, <4>1 DEF Books
    <3>2. CASE r = pay[p].ride
      <4>1. Released(pay', r) = Released(pay, r) \cup {p} /\ p \notin Released(pay, r)
        BY <1>3, <2>0, <2>1, <3>2 DEF RowsIn, Released
      <4>2. Cardinality(Released(pay', r)) = Cardinality(Released(pay, r)) + 1
        BY <4>1, OneMore, FiniteRows
      <4> QED
        BY <2>2, <3>2, <4>2 DEF Books
    <3> QED
      BY <3>1, <3>2
  <2> QED
    BY <1>0, <2>3, <2>4 DEF Books
<1> QED
  BY <1>1, <1>2, <1>3

\* A payment is refunded and its rider credited.
LEMMA RefundBooks ==
  ASSUME Types, Owned, Books, NEW w \in Workers, CommitRefund(w)
  PROVE  Books'
<1> DEFINE p == req[w].payment
<1>0. /\ pay \in [Payments -> PaymentRows] /\ refunds \in [Rides -> Nat]
      /\ earnings' = earnings /\ charges' = charges
  BY DEF Types, TypeOK, CommitRefund
<1>1. p \in Payments /\ pay[p].ride \in Rides
  BY RowsInHand DEF CommitRefund, At, Handling, Real
<1>2. pay[p].status = "completed"
  BY DEF CommitRefund, At, Owned, Locking
<1> HIDE DEF p
<1>3. CASE pay[p].method = "gateway"
  <2>1. pay' = pay /\ refunds' = refunds
    BY <1>3 DEF CommitRefund, p
  <2> QED
    BY <1>0, <2>1 DEF Books
<1>4. CASE pay[p].method # "gateway"
  <2>0. /\ pay' = [pay EXCEPT ![p].status = "refunded"]
        /\ refunds' = Count(refunds, pay[p].ride)
    BY <1>4 DEF CommitRefund, p
  <2>1. /\ \A q \in Payments : /\ pay'[q].ride = pay[q].ride /\ pay'[q].method = pay[q].method
                               /\ pay'[q].released = pay[q].released
                               /\ q # p => pay'[q].status = pay[q].status
        /\ pay'[p].status = "refunded"
    BY <1>0, <1>1, <2>0 DEF PaymentRows
  <2>2. \A r \in Rides : refunds'[r] = IF r = pay[p].ride THEN refunds[r] + 1 ELSE refunds[r]
    BY <1>0, <1>1, <2>0 DEF Count
  <2> SUFFICES ASSUME NEW r \in Rides
               PROVE  /\ IsFiniteSet(RowsIn(pay', r))
                      /\ earnings'[r] = Cardinality(Released(pay', r))
                      /\ refunds'[r] <= Cardinality(Refunded(pay', r))
                      /\ charges'[r] = Cardinality(Charged(pay', r))
    BY DEF Books
  <2>3. /\ RowsIn(pay', r) = RowsIn(pay, r) /\ Released(pay', r) = Released(pay, r)
        /\ Charged(pay', r) = Charged(pay, r)
    BY <2>1 DEF RowsIn, Released, Charged
  <2>4. refunds'[r] <= Cardinality(Refunded(pay', r))
    <3>1. CASE r # pay[p].ride
      <4>1. Refunded(pay', r) = Refunded(pay, r)
        BY <2>1, <3>1 DEF RowsIn, Refunded
      <4> QED
        BY <2>2, <3>1, <4>1 DEF Books
    <3>2. CASE r = pay[p].ride
      <4>1. Refunded(pay', r) = Refunded(pay, r) \cup {p} /\ p \notin Refunded(pay, r)
        BY <1>1, <1>2, <1>4, <2>1, <3>2 DEF RowsIn, Refunded
      <4>2. /\ Cardinality(Refunded(pay', r)) = Cardinality(Refunded(pay, r)) + 1
            /\ Cardinality(Refunded(pay, r)) \in Nat
        BY <4>1, OneMore, FiniteRows
      <4>3. refunds'[r] = refunds[r] + 1 /\ refunds[r] \in Nat /\ refunds[r] <= Cardinality(Refunded(pay, r))
        BY <1>0, <2>2, <3>2 DEF Books
      <4> QED
        BY <4>2, <4>3
    <3> QED
      BY <3>1, <3>2
  <2> QED
    BY <1>0, <2>3, <2>4 DEF Books
<1> QED
  BY <1>3, <1>4

\* An administrator's refund marks the payment without a ledger row.
LEMMA MarkBooks ==
  ASSUME Types, Books, NEW w \in Workers, MarkRefunded(w)
  PROVE  Books'
<1> DEFINE p == req[w].payment
<1>0. /\ earnings' = earnings /\ charges' = charges /\ refunds' = refunds
      /\ p \in Payments /\ Restated(p, "refunded")
      /\ refunds \in [Rides -> Nat]
  BY RowsInHand DEF MarkRefunded, At, Handling, Restated, ledger, Types, TypeOK
<1> HIDE DEF p
<1>1. /\ pay'[p].status = "refunded"
      /\ \A q \in Payments : /\ pay'[q].ride = pay[q].ride /\ pay'[q].method = pay[q].method
                             /\ pay'[q].released = pay[q].released
                             /\ q # p => pay'[q] = pay[q]
  BY <1>0, RestatedRows
<1> SUFFICES ASSUME NEW r \in Rides
             PROVE  /\ IsFiniteSet(RowsIn(pay', r))
                    /\ earnings'[r] = Cardinality(Released(pay', r))
                    /\ refunds'[r] <= Cardinality(Refunded(pay', r))
                    /\ charges'[r] = Cardinality(Charged(pay', r))
  BY DEF Books
<1>2. /\ RowsIn(pay', r) = RowsIn(pay, r) /\ Released(pay', r) = Released(pay, r)
      /\ Charged(pay', r) = Charged(pay, r)
      /\ Refunded(pay, r) \subseteq Refunded(pay', r)
      /\ Refunded(pay', r) \subseteq RowsIn(pay, r)
  BY <1>1 DEF RowsIn, Released, Charged, Refunded
<1>3. IsFiniteSet(Refunded(pay', r)) /\ IsFiniteSet(RowsIn(pay, r))
  BY <1>2, FiniteRows, FS_Subset
<1>4. /\ Cardinality(Refunded(pay, r)) <= Cardinality(Refunded(pay', r))
      /\ Cardinality(Refunded(pay, r)) \in Nat /\ Cardinality(Refunded(pay', r)) \in Nat
  BY <1>2, <1>3, FiniteRows, FS_Subset, FS_CardinalityType
<1> QED
  BY <1>0, <1>2, <1>3, <1>4 DEF Books

LEMMA InitBooks == Init => Books
<1> SUFFICES ASSUME Init, NEW r \in Rides
             PROVE  /\ IsFiniteSet(RowsIn(pay, r))
                    /\ earnings[r] = Cardinality(Released(pay, r))
                    /\ refunds[r] <= Cardinality(Refunded(pay, r))
                    /\ charges[r] = Cardinality(Charged(pay, r))
  BY DEF Books
<1>1. RowsIn(pay, r) = {}
  BY RideAssumption DEF Init, NoRow, Row, RowsIn
<1>2. Released(pay, r) = {} /\ Refunded(pay, r) = {} /\ Charged(pay, r) = {}
  BY <1>1 DEF Released, Refunded, Charged
<1> QED
  BY <1>1, <1>2, FS_EmptySet DEF Init

LEMMA BooksStep == Types /\ Owned /\ Books /\ [Next]_vars => Books'
<1> SUFFICES ASSUME Types, Owned, Books, [Next]_vars PROVE Books'
  OBVIOUS
<1>0. pay \in [Payments -> PaymentRows]
  BY DEF Types, TypeOK
<1>1. ASSUME \A r \in Rides : SameSets(r), UNCHANGED ledger PROVE Books'
  <2> SUFFICES ASSUME NEW r \in Rides
               PROVE  /\ IsFiniteSet(RowsIn(pay', r))
                      /\ earnings'[r] = Cardinality(Released(pay', r))
                      /\ refunds'[r] <= Cardinality(Refunded(pay', r))
                      /\ charges'[r] = Cardinality(Charged(pay', r))
    BY DEF Books
  <2> QED
    BY <1>1, UnchangedBooks DEF ledger
<1>2. ASSUME UNCHANGED <<pay, ledger>> PROVE Books'
  BY <1>1, <1>2 DEF SameSets
<1>3. ASSUME NEW p, NEW b, pay' = [pay EXCEPT ![p].hold = b], UNCHANGED ledger PROVE Books'
  BY <1>0, <1>1, <1>3, SameRows DEF PaymentRows
<1>4. ASSUME NEW p \in Payments, NEW s, Restated(p, s), pay[p].method = "gateway", UNCHANGED ledger
      PROVE  Books'
  <2>1. \A q \in Payments : /\ pay'[q].ride = pay[q].ride /\ pay'[q].method = pay[q].method
                            /\ pay'[q].released = pay[q].released
                            /\ pay[q].method = "gateway" \/ pay'[q].status = pay[q].status
    BY <1>4, RestatedRows
  <2> QED
    BY <1>1, <1>4, <2>1, SameRows
<1>5. ASSUME NEW w \in Workers, Begin(w) \/ Crash(w) PROVE Books'
  BY <1>2, <1>5 DEF Begin, RequestPay, ReceiveWebhook, RequestDispute, RequestRefund,
                    RequestResolve, StartSweep, Take, Crash
<1>6. ASSUME NEW w \in Workers, CompleteGatewayPayment(w) \/ FailPayment(w) PROVE Books'
  <2>1. /\ req[w].payment \in Payments /\ pay[req[w].payment].method = "gateway"
        /\ UNCHANGED ledger
    BY <1>6, RowsInHand DEF CompleteGatewayPayment, FailPayment, At, Handling, Owned
  <2>2. \/ UNCHANGED pay \/ Restated(req[w].payment, "completed")
        \/ Restated(req[w].payment, "failed")
    BY <1>6, RowsInHand DEF CompleteGatewayPayment, FailPayment, At, Handling, Restated
  <2> QED
    BY <1>2, <1>4, <2>1, <2>2
<1>7. ASSUME NEW w \in Workers,
             \/ RejectPay(w) \/ InsertDispute(w) \/ HoldPendingFundsForDispute(w)
             \/ ProcessRefund(w) \/ ReverseDriverEscrow(w) \/ ResolveDispute(w)
      PROVE  Books'
  BY <1>2, <1>3, <1>7 DEF RejectPay, InsertDispute, HoldPendingFundsForDispute, ProcessRefund,
                          ReverseDriverEscrow, ResolveDispute
<1>8. ASSUME NEW w \in Workers, Continue(w) PROVE Books'
  BY <1>6, <1>7, <1>8, InsertBooks, ReleaseBooks, RefundBooks, MarkBooks DEF Continue
<1>9. ASSUME NEW p \in Payments, FlagRide(p) PROVE Books'
  BY <1>3, <1>9 DEF FlagRide
<1>10. ASSUME (\E r \in Rides : Age(r)) \/ UNCHANGED vars PROVE Books'
  BY <1>2, <1>10 DEF Age, vars
<1> QED
  BY <1>5, <1>8, <1>9, <1>10 DEF Next

\* Whatever overlaps or crashes, the ledger of a ride has one credit of the driver for every
\* payment released, no refund without a refunded payment, and one debit of the rider for every
\* wallet payment.
THEOREM LedgerIsBacked == Spec => []LedgerMatchesPayments
<1>1. Types /\ Owned /\ Books /\ [Next]_vars => Books'
  BY BooksStep
<1>2. Types /\ Books => LedgerMatchesPayments
  <2> SUFFICES ASSUME Types, Books, NEW r \in Rides
               PROVE  /\ earnings[r] = Cardinality({p \in RowsOf(r) : pay[p].released})
                      /\ refunds[r] <= Cardinality({p \in RowsOf(r) : pay[p].status = "refunded"})
                      /\ charges[r] = Cardinality({p \in RowsOf(r) : pay[p].method = "wallet"})
    BY DEF LedgerMatchesPayments
  <2> DEFINE All == {p \in RowsOf(r) : pay[p].status = "refunded"}
  <2>1. /\ Released(pay, r) = {p \in RowsOf(r) : pay[p].released}
        /\ Charged(pay, r) = {p \in RowsOf(r) : pay[p].method = "wallet"}
    BY DEF Released, Charged, RowsIn, RowsOf
  <2>2. Refunded(pay, r) \subseteq All /\ All \subseteq RowsIn(pay, r)
    BY DEF Refunded, RowsIn, RowsOf
  <2> HIDE DEF All
  <2>3. IsFiniteSet(All)
    BY <2>2, FiniteRows, FS_Subset
  <2>4. /\ Cardinality(Refunded(pay, r)) <= Cardinality(All)
        /\ Cardinality(Refunded(pay, r)) \in Nat /\ Cardinality(All) \in Nat
    BY <2>2, <2>3, FS_Subset, FS_CardinalityType
  <2>5. refunds[r] <= Cardinality(All)
    <3>1. refunds[r] \in Nat /\ refunds[r] <= Cardinality(Refunded(pay, r))
      BY DEF Books, Types, TypeOK
    <3> QED
      BY <2>4, <3>1
  <2> QED
    BY <2>1, <2>5 DEF Books, All
<1> QED
  BY <1>1, <1>2, InitBooks, TypesAlways, OwnedAlways, PTL DEF Spec

-----------------------------------------------------------------------------
(* A ride is paid for once.                                                *)

\* A row has a status, and a wallet payment is captured when it is inserted.
Captured ==
  \A p \in Payments : /\ pay[p].ride \in Rides => pay[p].status # "none"
                      /\ pay[p].method = "wallet" => pay[p].status \in {"completed", "refunded"}

LEMMA CapturedStep == Types /\ Owned /\ Captured /\ [Next]_vars => Captured'
<1> SUFFICES ASSUME Types, Owned, Captured, [Next]_vars, NEW p \in Payments
             PROVE  /\ pay'[p].ride \in Rides => pay'[p].status # "none"
                    /\ pay'[p].method = "wallet" => pay'[p].status \in {"completed", "refunded"}
  BY DEF Captured
<1>0. /\ pay[p].ride \in Rides => pay[p].status # "none"
      /\ pay[p].method = "wallet" => pay[p].status \in {"completed", "refunded"}
  BY DEF Captured
<1>1. CASE Kept
  BY <1>0, <1>1 DEF Kept
<1>2. ASSUME NEW w \in Workers, NEW s \in {"completed", "pending"}, At(w, "pay"), Insert(w, s),
             req[w].method = "wallet" => s = "completed"
      PROVE  /\ pay'[p].status # "none" \/ pay'[p] = pay[p]
             /\ pay'[p].method = "wallet" => pay'[p].status \in {"completed", "refunded"}
  <2>1. pay'[p] = Row(req[w].ride, req[w].method, s) \/ pay'[p] = pay[p]
    BY <1>2, InsertedRow
  <2> QED
    BY <1>0, <1>2, <2>1 DEF Row
<1>3. ASSUME NEW x \in Payments, NEW s \in {"completed", "failed", "refunded"}, Restated(x, s),
             s = "failed" => pay[x].method = "gateway"
      PROVE  /\ pay'[p].ride \in Rides => pay'[p].status # "none"
             /\ pay'[p].method = "wallet" => pay'[p].status \in {"completed", "refunded"}
  BY <1>0, <1>3, RestatedRows
<1>4. ASSUME NEW w \in Workers, FailPayment(w) PROVE pay[req[w].payment].method = "gateway"
  BY <1>4 DEF FailPayment, At, Owned
<1>5. ASSUME NEW w \in Workers,
             HoldPayment(w) \/ ProcessCashPayment(w) \/ ProcessGatewayPayment(w)
      PROVE  \E s \in {"completed", "pending"} :
               At(w, "pay") /\ Insert(w, s) /\ (req[w].method = "wallet" => s = "completed")
  BY <1>5 DEF HoldPayment, ProcessCashPayment, ProcessGatewayPayment
<1>6. ASSUME NEW w \in Workers,
             HoldPayment(w) \/ ProcessCashPayment(w) \/ ProcessGatewayPayment(w)
      PROVE  /\ pay'[p].ride \in Rides => pay'[p].status # "none"
             /\ pay'[p].method = "wallet" => pay'[p].status \in {"completed", "refunded"}
  BY <1>0, <1>2, <1>5, <1>6
<1>7. ASSUME NEW w \in Workers, NEW s, Restated(req[w].payment, s) PROVE req[w].payment \in Payments
  BY <1>7 DEF Restated, Real
<1> QED
  BY <1>1, <1>3, <1>4, <1>6, <1>7, KindsOfSteps

\* A finite set that has at most one element outside another is at most one larger.
LEMMA OneOutside ==
  ASSUME NEW A, NEW B, IsFiniteSet(A), IsFiniteSet(B), \A x, y \in A \ B : x = y
  PROVE  Cardinality(A) <= 1 + Cardinality(B)
<1>0. Cardinality(A) \in Nat /\ Cardinality(B) \in Nat
  BY FS_CardinalityType
<1>1. CASE A \subseteq B
  <2>1. Cardinality(A) <= Cardinality(B)
    BY <1>1, FS_Subset
  <2> QED
    BY <1>0, <2>1
<1>2. CASE ~(A \subseteq B)
  <2>1. PICK x : x \in A \ B
    BY <1>2
  <2>2. A \subseteq B \cup {x}
    BY <2>1
  <2>3. IsFiniteSet(B \cup {x}) /\ Cardinality(B \cup {x}) = Cardinality(B) + 1
    BY <2>1, OneMore
  <2>4. Cardinality(A) <= Cardinality(B \cup {x})
    BY <2>2, <2>3, FS_Subset
  <2> QED
    BY <1>0, <2>3, <2>4
<1> QED
  BY <1>1, <1>2

LEMMA BooksAlways == Spec => []Books
<1>1. Types /\ Owned /\ Books /\ [Next]_vars => Books'
  BY BooksStep
<1> QED
  BY <1>1, InitBooks, TypesAlways, OwnedAlways, PTL DEF Spec

\* A rider is debited again for a ride only when a payment of it was refunded, and a driver
\* credited again only when one was refunded or failed.
ChargedAgain ==
  \A r \in Rides :
    /\ charges[r] <= 1 + Cardinality({p \in RowsOf(r) : pay[p].status = "refunded"})
    /\ earnings[r] <= 1 + Cardinality({p \in RowsOf(r) : pay[p].status \in {"refunded", "failed"}})

\* However pay requests, webhooks, sweeps, refunds and crashes overlap, nobody is charged twice
\* for one ride by holdPayment, nor paid twice by releaseCompletedRides, but after a refund, or
\* for the driver a failure, of a payment of it.
THEOREM NobodyIsChargedTwice == Spec => []ChargedAgain
<1>1. Init => Captured
  BY RideAssumption DEF Init, Captured, NoRow, Row
<1>2. Types /\ Owned /\ Captured /\ [Next]_vars => Captured'
  BY CapturedStep
<1>3. Types /\ Books /\ Captured /\ OneActivePayment => ChargedAgain
  <2> SUFFICES ASSUME Types, Books, Captured, OneActivePayment, NEW r \in Rides
               PROVE  /\ charges[r] <=
                           1 + Cardinality({p \in RowsOf(r) : pay[p].status = "refunded"})
                      /\ earnings[r] <=
                           1 + Cardinality({p \in RowsOf(r) : pay[p].status \in {"refunded", "failed"}})
    BY DEF ChargedAgain
  <2> DEFINE R == {p \in RowsOf(r) : pay[p].status = "refunded"}
             F == {p \in RowsOf(r) : pay[p].status \in {"refunded", "failed"}}
             C == Charged(pay, r)
             E == Released(pay, r)
  <2>1. R \subseteq RowsIn(pay, r) /\ F \subseteq RowsIn(pay, r)
    BY DEF RowsIn, RowsOf
  <2>2. \A p, q \in RowsIn(pay, r) :
          pay[p].status \in {"pending", "completed"} /\ pay[q].status \in {"pending", "completed"}
            => p = q
    BY DEF OneActivePayment, RowsOf, RowsIn, Active
  <2>3. \A p \in RowsIn(pay, r) : pay[p].status \in Statuses
    BY DEF Captured, RowsIn, Types, TypeOK, PaymentRows
  <2>4. \A p \in C \ R : p \in RowsIn(pay, r) /\ pay[p].status = "completed"
    BY DEF Charged, RowsIn, RowsOf, Captured
  <2>5. \A p \in E \ F : p \in RowsIn(pay, r) /\ pay[p].status \in {"pending", "completed"}
    BY <2>3 DEF Released, RowsIn, RowsOf, Statuses
  <2> HIDE DEF R, F, C, E
  <2>6. IsFiniteSet(C) /\ IsFiniteSet(E) /\ IsFiniteSet(R) /\ IsFiniteSet(F)
    BY <2>1, FiniteRows, FS_Subset DEF C, E
  <2>7. Cardinality(C) <= 1 + Cardinality(R)
    BY <2>2, <2>4, <2>6, OneOutside
  <2>8. Cardinality(E) <= 1 + Cardinality(F)
    BY <2>2, <2>5, <2>6, OneOutside
  <2> QED
    BY <2>7, <2>8 DEF Books, C, E, R, F
<1> QED
  BY <1>1, <1>2, <1>3, BooksAlways, PaymentsAreSingle, TypesAlways, OwnedAlways, PTL DEF Spec

\* No two pay requests of one ride are under way.
PaysApart ==
  \A v, w \in Workers : v # w /\ At(v, "pay") /\ At(w, "pay") => req[v].ride # req[w].ride

\* A pay request under way is for a ride without a payment, and no ride gets a second one.
FirstPayment ==
  \A r \in Rides : /\ \A w \in Workers : At(w, "pay") /\ req[w].ride = r => RowsOf(r) = {}
                   /\ \A p, q \in RowsOf(r) : p = q

\* The pay requests under way after a step were there before, or find no payment.
LEMMA NextPaying ==
  ASSUME Types, [Next]_vars, NEW v \in Workers, req'[v].step = "pay"
  PROVE  \/ /\ req'[v] = req[v]
            /\ ~HoldPayment(v) /\ ~ProcessCashPayment(v) /\ ~ProcessGatewayPayment(v)
         \/ RowsOf(req'[v].ride) = {} /\ UNCHANGED pay
<1>0. req \in [Workers -> RequestRows] /\ req[v] \in RequestRows
  BY DEF Types, TypeOK
<1>1. ~Finish(v)
  BY <1>0 DEF Finish, Idle, Task
<1>2. /\ ~HoldPayment(v) /\ ~ProcessCashPayment(v) /\ ~ProcessGatewayPayment(v)
  BY <1>1 DEF HoldPayment, ProcessCashPayment, ProcessGatewayPayment, Insert
<1>3. CASE Begin(v)
  BY <1>0, <1>3 DEF Begin, RequestPay, ReceiveWebhook, RequestDispute, RequestRefund,
                    RequestResolve, StartSweep, Take, Task
<1>4. ~Crash(v) /\ ~Continue(v)
  <2>1. ~InsertDispute(v) /\ ~ResolveDispute(v) /\ ~ProcessRefund(v) /\ ~ReverseDriverEscrow(v)
    BY <1>0, <1>1 DEF InsertDispute, ResolveDispute, ProcessRefund, ReverseDriverEscrow, RequestRows
  <2>2. ~ReleasePayment(v)
    BY <1>0, <1>1 DEF ReleasePayment, At, RequestRows
  <2> QED
    BY <1>1, <1>2, <2>1, <2>2
       DEF Crash, Continue, RejectPay, CompleteGatewayPayment, FailPayment,
           HoldPendingFundsForDispute, CommitRefund, MarkRefunded
<1>5. ASSUME NEW w \in Workers, w # v, Begin(w) \/ Continue(w) \/ Crash(w)
      PROVE  req'[v] = req[v]
  BY <1>0, <1>5, BeginTyped, ContinueTyped DEF Crash, Finish
<1> QED
  BY <1>2, <1>3, <1>4, <1>5 DEF Next, FlagRide, Age, vars

LEMMA FirstStep == PaysApart /\ Types /\ FirstPayment /\ [Next]_vars => FirstPayment'
<1> SUFFICES ASSUME PaysApart, Types, FirstPayment, [Next]_vars, NEW r \in Rides
             PROVE  /\ \A v \in Workers : req'[v].step = "pay" /\ req'[v].ride = r
                                            => RowsIn(pay', r) = {}
                    /\ \A p, q \in RowsIn(pay', r) : p = q
  BY DEF FirstPayment, RowsOf, RowsIn, At
<1>0. /\ \A v \in Workers : req[v].step = "pay" /\ req[v].ride = r => RowsIn(pay, r) = {}
      /\ \A p, q \in RowsIn(pay, r) : p = q
  BY DEF FirstPayment, RowsOf, RowsIn, At
<1>1. \A v \in Workers : req'[v].step = "pay" /\ req'[v].ride = r
                           => \/ req'[v] = req[v]
                              \/ RowsIn(pay, r) = {} /\ UNCHANGED pay
  BY NextPaying DEF RowsOf, RowsIn
<1>2. CASE RowsIn(pay', r) = RowsIn(pay, r)
  BY <1>0, <1>1, <1>2
<1>3. ASSUME NEW w \in Workers, NEW s, At(w, "pay"), Insert(w, s),
             HoldPayment(w) \/ ProcessCashPayment(w) \/ ProcessGatewayPayment(w),
             RowsIn(pay', r) # RowsIn(pay, r)
      PROVE  /\ \A v \in Workers : ~(req'[v].step = "pay" /\ req'[v].ride = r)
             /\ \A p, q \in RowsIn(pay', r) : p = q
  <2>1. PICK new \in Payments : /\ pay[new] = NoRow
                                /\ pay'[new] = Row(req[w].ride, req[w].method, s)
                                /\ \A x \in Payments \ {new} : pay'[x] = pay[x]
    BY <1>3, InsertedRow
  <2>2. req[w].ride = r
    BY <1>3, <2>1, RideAssumption DEF RowsIn, Row, NoRow
  <2>3. RowsIn(pay, r) = {}
    BY <1>0, <1>3, <2>2 DEF At
  <2>4. RowsIn(pay', r) = {new}
    BY <2>1, <2>2, <2>3 DEF RowsIn, Row
  <2>5. ASSUME NEW v \in Workers, req'[v].step = "pay", req'[v].ride = r PROVE FALSE
    <3>1. v # w /\ req'[v] = req[v]
      BY <1>3, <2>1, <2>3, <2>4, <2>5, NextPaying
    <3> QED
      BY <1>3, <2>2, <2>5, <3>1 DEF PaysApart, At
  <2> QED
    BY <2>4, <2>5
<1>4. CASE Kept
  <2>1. RowsIn(pay', r) = RowsIn(pay, r)
    BY <1>4 DEF Kept, RowsIn
  <2> QED
    BY <1>2, <2>1
<1>5. ASSUME NEW p \in Payments, NEW s, Restated(p, s) PROVE RowsIn(pay', r) = RowsIn(pay, r)
  BY <1>5, RestatedRows DEF RowsIn
<1>6. ASSUME NEW w \in Workers, NEW s, Restated(req[w].payment, s) PROVE req[w].payment \in Payments
  BY <1>6 DEF Restated, Real
<1>7. ASSUME NEW w \in Workers,
             HoldPayment(w) \/ ProcessCashPayment(w) \/ ProcessGatewayPayment(w)
      PROVE  \E s : At(w, "pay") /\ Insert(w, s)
  BY <1>7 DEF HoldPayment, ProcessCashPayment, ProcessGatewayPayment
<1> QED
  BY <1>2, <1>3, <1>4, <1>5, <1>6, <1>7, KindsOfSteps

\* The rider of a ride is debited, and refunded, and its driver credited, at most once.
MovedOnce == \A r \in Rides : charges[r] <= 1 /\ refunds[r] <= 1 /\ earnings[r] <= 1

\* Whatever else overlaps, the money of a ride moves once, as long as no two pay requests for it
\* are under way together: PaymentController looks for an earlier payment before the
\* transaction, and only for an active one inside it.
THEOREM MoneyMovesOnce == Spec /\ []PaysApart => []MovedOnce
<1>1. Init => FirstPayment
  BY RideAssumption DEF Init, FirstPayment, RowsOf, NoRow, Row, At, Idle, Task
<1>2. PaysApart /\ Types /\ FirstPayment /\ [Next]_vars => FirstPayment'
  BY FirstStep
<1>3. Types /\ Books /\ FirstPayment => MovedOnce
  <2> SUFFICES ASSUME Types, Books, FirstPayment, NEW r \in Rides
               PROVE  charges[r] <= 1 /\ refunds[r] <= 1 /\ earnings[r] <= 1
    BY DEF MovedOnce
  <2>1. \A p, q \in RowsIn(pay, r) : p = q
    BY DEF FirstPayment, RowsOf, RowsIn
  <2>2. ASSUME NEW S, S \subseteq RowsIn(pay, r), IsFiniteSet(S)
        PROVE  Cardinality(S) <= 1 /\ Cardinality(S) \in Nat
    <3>1. IsFiniteSet({}) /\ Cardinality({}) = 0
      BY FS_EmptySet
    <3>2. Cardinality(S) <= 1 + Cardinality({})
      BY <2>1, <2>2, <3>1, OneOutside
    <3> QED
      BY <2>2, <3>1, <3>2, FS_CardinalityType
  <2>3. /\ Released(pay, r) \subseteq RowsIn(pay, r)
        /\ Refunded(pay, r) \subseteq RowsIn(pay, r)
        /\ Charged(pay, r) \subseteq RowsIn(pay, r)
    BY DEF Released, Refunded, Charged
  <2>4. /\ Cardinality(Charged(pay, r)) <= 1 /\ Cardinality(Released(pay, r)) <= 1
        /\ Cardinality(Refunded(pay, r)) <= 1 /\ Cardinality(Refunded(pay, r)) \in Nat
    BY <2>2, <2>3, FiniteRows
  <2>5. refunds[r] \in Nat
    BY DEF Types, TypeOK
  <2> QED
    BY <2>4, <2>5 DEF Books
<1> QED
  BY <1>1, <1>2, <1>3, BooksAlways, TypesAlways, PTL DEF Spec

-----------------------------------------------------------------------------
(* The overlaps that let a driver's escrow be overdrawn, or a disputed     *)
(* payment be paid out, are these only: without them both promises hold.   *)

\* The drivers whose balance the next steps of a request q may lower: those of the payments a
\* sweep has yet to release, of a dispute's hold, of a refund about to commit.
DriversTakenFrom(q) ==
  {DriverOfPayment(p) : p \in q.todo}
    \cup {DriverOfPayment(p) : p \in {x \in {q.payment} : q.step \in {"hold", "commit_refund"}}}

\* While a refund has read the wallet of a driver and not yet committed, no other request is
\* about to take from it.
RefundsApart ==
  \A v, w \in Workers : v # w /\ req[v].step = "commit_refund"
                          => DriverOfPayment(req[v].payment) \notin DriversTakenFrom(req[w])

\* No dispute is being inserted for a payment that a running sweep has yet to release.
DisputesApart ==
  \A v, w \in Workers : req[v].step = "release" /\ req[w].step = "insert_dispute"
                          => req[w].payment \notin req[v].todo

\* What a refund is about to take is still there.
Covered(q) == /\ q.step = "refund" => q.amount = 0
              /\ q.step = "commit_refund" =>
                   0 <= q.amount /\ q.amount <= pending[DriverOfPayment(q.payment)]

Solvent == PendingNonNegative /\ \A w \in Workers : Covered(req[w])

LEMMA InitSolvent == Init => Solvent
BY DEF Init, Solvent, PendingNonNegative, Covered, Idle, Task

\* No step but the commit of a refund can overdraw a balance.
LEMMA BalancesStay ==
  ASSUME Types, Solvent, [Next]_vars
  PROVE  PendingNonNegative'
<1>0. /\ pending \in [Drivers -> Int] /\ \A d \in Drivers : pending[d] >= 0
      /\ \A r \in Rides : DriverOf[r] \in Drivers /\ Payout[r] \in Nat
      /\ \A p \in Real(pay) : DriverOfPayment(p) \in Drivers /\ PayoutOf(p) \in Nat
      /\ \A w \in Workers : /\ req[w] \in RequestRows /\ Fits(req[w], Real(pay))
                            /\ req[w].todo \subseteq Real(pay)
  BY RideAssumption
     DEF Types, TypeOK, Backed, Fits, Solvent, PendingNonNegative, DriverOfPayment, PayoutOf, Real
<1>1. ASSUME NEW d \in Drivers, NEW a \in Int, AddPending(d, a), pending[d] + a >= 0
      PROVE  PendingNonNegative'
  BY <1>0, <1>1 DEF AddPending, PendingNonNegative
<1>2. CASE UNCHANGED pending
  BY <1>0, <1>2 DEF PendingNonNegative
<1>3. ASSUME NEW w \in Workers, Begin(w) \/ Crash(w) PROVE UNCHANGED pending
  BY <1>3 DEF Begin, RequestPay, ReceiveWebhook, RequestDispute, RequestRefund, RequestResolve,
              StartSweep, Take, Crash
<1>4. ASSUME NEW w \in Workers, Continue(w) PROVE PendingNonNegative'
  <2> DEFINE p == req[w].payment
  <2>1. CASE HoldPayment(w)
    <3>1. req[w].ride \in Rides
      BY <1>0, <2>1 DEF HoldPayment, At, Fits
    <3> QED
      BY <1>0, <1>1, <2>1, <3>1 DEF HoldPayment
  <2>2. CASE \/ ProcessCashPayment(w) \/ ProcessGatewayPayment(w) \/ RejectPay(w) \/ FailPayment(w)
             \/ InsertDispute(w) \/ ProcessRefund(w) \/ ReverseDriverEscrow(w)
             \/ ResolveDispute(w) \/ MarkRefunded(w)
    BY <1>2, <2>2 DEF ProcessCashPayment, ProcessGatewayPayment, RejectPay, FailPayment,
                      InsertDispute, ProcessRefund, ReverseDriverEscrow, ResolveDispute, MarkRefunded
  <2>3. CASE CompleteGatewayPayment(w)
    <3>1. p \in Real(pay)
      BY <2>3, RowsInHand DEF CompleteGatewayPayment, At, Handling
    <3> QED
      BY <1>0, <1>1, <1>2, <2>3, <3>1 DEF CompleteGatewayPayment
  <2>4. CASE ReleasePayment(w)
    <3>1. PICK q \in req[w].todo :
            \/ Releasable(q) /\ AddPending(DriverOfPayment(q), -PayoutOf(q))
            \/ UNCHANGED pending
      BY <2>4 DEF ReleasePayment
    <3>2. q \in Real(pay)
      BY <1>0, <3>1
    <3>3. ASSUME Releasable(q), AddPending(DriverOfPayment(q), -PayoutOf(q))
          PROVE  PendingNonNegative'
      <4>1. pending[DriverOfPayment(q)] >= PayoutOf(q) /\ pending[DriverOfPayment(q)] \in Int
        BY <1>0, <3>2, <3>3 DEF Releasable
      <4>2. -PayoutOf(q) \in Int /\ pending[DriverOfPayment(q)] + (-PayoutOf(q)) >= 0
        BY <1>0, <3>2, <4>1
      <4> QED
        BY <1>0, <1>1, <3>2, <3>3, <4>2
    <3> QED
      BY <1>2, <3>1, <3>3
  <2>5. CASE HoldPendingFundsForDispute(w)
    <3> DEFINE take == Smaller(PayoutOf(p), pending[DriverOfPayment(p)])
    <3>1. p \in Real(pay)
      BY <2>5, RowsInHand DEF HoldPendingFundsForDispute, At, Handling
    <3>2. -take \in Int /\ pending[DriverOfPayment(p)] + (-take) >= 0
      BY <1>0, <3>1 DEF Smaller
    <3> QED
      BY <1>0, <1>1, <1>2, <2>5, <3>1, <3>2 DEF HoldPendingFundsForDispute
  <2>6. CASE CommitRefund(w)
    <3>1. p \in Real(pay) /\ req[w].step = "commit_refund"
      BY <2>6, RowsInHand DEF CommitRefund, At, Handling
    <3>2. req[w].amount \in Int /\ req[w].amount <= pending[DriverOfPayment(p)]
      BY <1>0, <3>1 DEF Solvent, Covered, RequestRows
    <3>3. -req[w].amount \in Int /\ pending[DriverOfPayment(p)] + (-req[w].amount) >= 0
      BY <1>0, <3>1, <3>2
    <3> QED
      BY <1>0, <1>1, <1>2, <2>6, <3>1, <3>3 DEF CommitRefund
  <2> QED
    BY <1>4, <2>1, <2>2, <2>3, <2>4, <2>5, <2>6 DEF Continue
<1>5. ASSUME \/ \E x \in Payments : FlagRide(x)
             \/ \E r \in Rides : Age(r)
             \/ UNCHANGED vars
      PROVE  UNCHANGED pending
  BY <1>5 DEF FlagRide, Age, vars
<1> QED
  BY <1>2, <1>3, <1>4, <1>5 DEF Next

\* What a worker holds after a step of its own is covered.
LEMMA OwnStepCovered ==
  ASSUME Types, Solvent, NEW w \in Workers, Begin(w) \/ Continue(w) \/ Crash(w)
  PROVE  Covered(req[w])'
<1>0. /\ req \in [Workers -> RequestRows] /\ req[w] \in RequestRows
      /\ pay \in [Payments -> PaymentRows] /\ pending \in [Drivers -> Int]
      /\ \A d \in Drivers : pending[d] >= 0
      /\ \A r \in Rides : DriverOf[r] \in Drivers /\ Payout[r] \in Nat
      /\ Covered(req[w])
      /\ req[w].step \in Handling => req[w].payment \in Real(pay)
  BY RideAssumption
     DEF Types, TypeOK, Backed, Fits, Solvent, PendingNonNegative
<1>1. ASSUME req'[w].step \notin {"refund", "commit_refund"} PROVE Covered(req[w])'
  BY <1>1 DEF Covered
<1>2. CASE Finish(w)
  BY <1>0, <1>1, <1>2 DEF Finish, Idle, Task
<1>3. CASE Begin(w)
  <2>1. ASSUME NEW p \in Payments, RequestRefund(w, p) PROVE Covered(req[w])'
    <3>1. req'[w].amount = 0 /\ req'[w].step = "refund"
      BY <1>0, <2>1 DEF RequestRefund, Take, Task
    <3> QED
      BY <3>1 DEF Covered
  <2>2. CASE ~\E p \in Payments : RequestRefund(w, p)
    <3>1. req'[w].step \in {"pay", "complete", "fail", "insert_dispute", "resolve", "release"}
      BY <1>0, <1>3, <2>2 DEF Begin, RequestPay, ReceiveWebhook, RequestDispute, RequestResolve,
                              StartSweep, Take, Task
    <3> QED
      BY <1>1, <3>1 
  <2> QED
    BY <2>1, <2>2
<1>4. CASE Continue(w)
  <2>1. CASE \/ HoldPayment(w) \/ ProcessCashPayment(w) \/ ProcessGatewayPayment(w) \/ RejectPay(w)
             \/ CompleteGatewayPayment(w) \/ FailPayment(w) \/ HoldPendingFundsForDispute(w)
             \/ CommitRefund(w) \/ MarkRefunded(w)
    BY <1>2, <2>1 DEF HoldPayment, ProcessCashPayment, ProcessGatewayPayment, RejectPay, Insert,
                      CompleteGatewayPayment, FailPayment, HoldPendingFundsForDispute,
                      CommitRefund, MarkRefunded
  <2>2. CASE ReleasePayment(w)
    <3>1. Finish(w) \/ req'[w].step = "release"
      BY <1>0, <2>2 DEF ReleasePayment, At, RequestRows
    <3> QED
      BY <1>1, <1>2, <3>1 
  <2>3. CASE InsertDispute(w)
    <3>1. Finish(w) \/ req'[w].step = "hold"
      BY <1>0, <2>3 DEF InsertDispute, RequestRows
    <3> QED
      BY <1>1, <1>2, <3>1 
  <2>4. CASE ResolveDispute(w)
    <3>1. Finish(w) \/ req'[w].step = "resolve_refund"
      BY <1>0, <2>4 DEF ResolveDispute, RequestRows
    <3> QED
      BY <1>1, <1>2, <3>1 
  <2>5. CASE ProcessRefund(w)
    <3>1. \/ Finish(w)
          \/ /\ req'[w].amount = req[w].amount /\ req'[w].payment = req[w].payment
             /\ req'[w].step \in {"reverse_escrow", "commit_refund"}
      BY <1>0, <2>5 DEF ProcessRefund, RequestRows
    <3>2. /\ UNCHANGED <<pay, pending>> /\ req[w].step \in Handling /\ req[w].amount = 0
      BY <1>0, <2>5 DEF ProcessRefund, At, Handling, Covered
    <3>3. pending[DriverOfPayment(req[w].payment)] >= 0
      BY <1>0, <3>2 DEF DriverOfPayment, Real
    <3>4. CASE ~Finish(w)
      BY <3>1, <3>2, <3>3, <3>4 DEF Covered, DriverOfPayment
    <3> QED
      BY <1>2, <3>4
  <2>6. CASE ReverseDriverEscrow(w)
    <3> DEFINE p == req[w].payment
    <3>1. /\ req'[w].amount = Smaller(PayoutOf(p), pending[DriverOfPayment(p)])
          /\ req'[w].payment = p /\ req'[w].step = "commit_refund"
      BY <1>0, <2>6 DEF ReverseDriverEscrow, RequestRows
    <3>2. UNCHANGED <<pay, pending>> /\ req[w].step \in Handling
      BY <2>6 DEF ReverseDriverEscrow, At, Handling
    <3>3. /\ PayoutOf(p) \in Nat /\ pending[DriverOfPayment(p)] \in Int
          /\ pending[DriverOfPayment(p)] >= 0
      BY <1>0, <3>2 DEF PayoutOf, DriverOfPayment, Real
    <3>4. 0 <= req'[w].amount /\ req'[w].amount <= pending[DriverOfPayment(p)]
      BY <3>1, <3>3 DEF Smaller
    <3>5. DriverOfPayment(p)' = DriverOfPayment(p)
      BY <3>1, <3>2 DEF DriverOfPayment
    <3> QED
      BY <3>1, <3>2, <3>4, <3>5 DEF Covered, DriverOfPayment
  <2> QED
    BY <1>4, <2>1, <2>2, <2>3, <2>4, <2>5, <2>6 DEF Continue
<1>5. CASE Crash(w)
  BY <1>2, <1>5 DEF Crash
<1> QED
  BY <1>3, <1>4, <1>5

\* A payment stays the payment of its ride.
LEMMA RidesStay ==
  ASSUME Types, [Next]_vars, NEW p \in Real(pay)
  PROVE  pay'[p].ride = pay[p].ride
<1>0. p \in Payments /\ pay[p] # NoRow
  BY RideAssumption DEF Real, NoRow, Row
<1>1. ASSUME NEW w \in Workers, NEW s, At(w, "pay"), Insert(w, s) PROVE pay'[p].ride = pay[p].ride
  BY <1>0, <1>1, InsertedRow
<1>2. CASE Kept
  BY <1>0, <1>2 DEF Kept
<1>3. ASSUME NEW x \in Payments, NEW s, Restated(x, s) PROVE pay'[p].ride = pay[p].ride
  BY <1>0, <1>3, RestatedRows
<1> QED
  BY <1>1, <1>2, <1>3, KindsOfSteps
     DEF HoldPayment, ProcessCashPayment, ProcessGatewayPayment, Restated, Real

\* A step of a worker lowers only the balances its request is about to take from.
LEMMA OtherBalances ==
  ASSUME Types, NEW w \in Workers, Begin(w) \/ Continue(w) \/ Crash(w),
         NEW d \in Drivers, d \notin DriversTakenFrom(req[w])
  PROVE  pending[d] <= pending'[d]
<1>0. /\ pending \in [Drivers -> Int]
      /\ \A r \in Rides : DriverOf[r] \in Drivers /\ Payout[r] \in Nat
      /\ \A p \in Real(pay) : DriverOfPayment(p) \in Drivers /\ PayoutOf(p) \in Nat
      /\ Fits(req[w], Real(pay))
      /\ req[w].step \in Handling => req[w].payment \in Real(pay)
      /\ req[w].step \in {"hold", "commit_refund"} => DriverOfPayment(req[w].payment) # d
      /\ \A p \in req[w].todo : DriverOfPayment(p) # d
  BY RideAssumption
     DEF Types, TypeOK, Backed, Fits, DriverOfPayment, PayoutOf, Real, DriversTakenFrom
<1>1. ASSUME NEW e \in Drivers, NEW a \in Int, AddPending(e, a), e # d \/ a >= 0
      PROVE  pending[d] <= pending'[d]
  BY <1>0, <1>1 DEF AddPending
<1>2. CASE UNCHANGED pending
  BY <1>0, <1>2
<1>3. CASE Begin(w) \/ Crash(w)
  BY <1>2, <1>3 DEF Begin, RequestPay, ReceiveWebhook, RequestDispute, RequestRefund, RequestResolve,
                    StartSweep, Take, Crash
<1>4. ASSUME NEW e, NEW a, AddPending(e, a), e # d PROVE pending[d] <= pending'[d]
  BY <1>0, <1>4 DEF AddPending
<1>5. CASE HoldPayment(w)
  <2>1. req[w].ride \in Rides
    BY <1>0, <1>5 DEF HoldPayment, At, Fits
  <2> QED
    BY <1>0, <1>1, <1>5, <2>1 DEF HoldPayment
<1>6. CASE CompleteGatewayPayment(w)
  <2>1. req[w].payment \in Real(pay)
    BY <1>0, <1>6 DEF CompleteGatewayPayment, At, Handling
  <2> QED
    BY <1>0, <1>1, <1>2, <1>6, <2>1 DEF CompleteGatewayPayment
<1>9. CASE HoldPendingFundsForDispute(w) \/ CommitRefund(w)
  <2>1. DriverOfPayment(req[w].payment) # d
    BY <1>0, <1>9 DEF HoldPendingFundsForDispute, CommitRefund, At
  <2> QED
    BY <1>2, <1>4, <1>9, <2>1 DEF HoldPendingFundsForDispute, CommitRefund
<1>7. CASE ReleasePayment(w)
  BY <1>0, <1>2, <1>4, <1>7 DEF ReleasePayment
<1>8. CASE \/ ProcessCashPayment(w) \/ ProcessGatewayPayment(w) \/ RejectPay(w) \/ FailPayment(w)
           \/ InsertDispute(w) \/ ProcessRefund(w) \/ ReverseDriverEscrow(w)
           \/ ResolveDispute(w) \/ MarkRefunded(w)
  BY <1>2, <1>8 DEF ProcessCashPayment, ProcessGatewayPayment, RejectPay, FailPayment,
                    InsertDispute, ProcessRefund, ReverseDriverEscrow, ResolveDispute, MarkRefunded
<1> QED
  BY <1>3, <1>5, <1>6, <1>7, <1>8, <1>9 DEF Continue

LEMMA SolventStep == RefundsApart /\ Types /\ Solvent /\ [Next]_vars => Solvent'
<1> SUFFICES ASSUME RefundsApart, Types, Solvent, [Next]_vars
             PROVE  \A v \in Workers : Covered(req[v])'
  BY BalancesStay DEF Solvent
<1>0. /\ req \in [Workers -> RequestRows] /\ \A v \in Workers : Covered(req[v])
      /\ pending \in [Drivers -> Int] /\ pending' \in [Drivers -> Int]
      /\ \A v \in Workers : req[v] \in RequestRows
  BY NumbersTyped DEF Types, TypeOK, Solvent
<1>h. ASSUME NEW v \in Workers, req[v].step = "commit_refund"
      PROVE  /\ req[v].payment \in Real(pay) /\ req[v].payment \in Payments
             /\ DriverOfPayment(req[v].payment) \in Drivers
             /\ DriverOfPayment(req[v].payment)' = DriverOfPayment(req[v].payment)
                  \/ req'[v].payment # req[v].payment
  <2>1. req[v].payment \in Real(pay) /\ req[v].payment \in Payments
    BY <1>h, RowsInHand DEF Handling
  <2>2. pay'[req[v].payment].ride = pay[req[v].payment].ride
    BY <2>1, RidesStay
  <2> QED
    BY <2>1, <2>2, RideAssumption DEF DriverOfPayment, Real
<1>1. ASSUME NEW w \in Workers, Begin(w) \/ Continue(w) \/ Crash(w), NEW v \in Workers
      PROVE  Covered(req[v])'
  <2>1. \E x : req' = [req EXCEPT ![w] = x]
    BY <1>1, BeginTyped, ContinueTyped DEF Crash, Finish
  <2>2. CASE v # w
    <3>1. req'[v] = req[v]
      BY <1>0, <2>1, <2>2
    <3>2. CASE req[v].step = "commit_refund"
      <4> DEFINE d == DriverOfPayment(req[v].payment)
      <4>1. d \in Drivers /\ d \notin DriversTakenFrom(req[w])
        BY <1>h, <2>2, <3>2 DEF RefundsApart
      <4>2. pending[d] <= pending'[d] /\ DriverOfPayment(req[v].payment)' = d
        BY <1>1, <1>h, <3>1, <3>2, <4>1, OtherBalances
      <4>3. 0 <= req[v].amount /\ req[v].amount <= pending[d] /\ req[v].amount \in Int
        BY <1>0, <3>2 DEF Covered, RequestRows
      <4>4. 0 <= req[v].amount /\ req[v].amount <= pending'[d]
        BY <1>0, <4>1, <4>2, <4>3
      <4> QED
        BY <3>1, <3>2, <4>2, <4>4 DEF Covered
    <3>3. CASE req[v].step # "commit_refund"
      BY <1>0, <3>1, <3>3 DEF Covered
    <3> QED
      BY <3>2, <3>3
  <2> QED
    BY <1>1, <2>2, OwnStepCovered
<1>2. ASSUME req' = req, pending' = pending, NEW v \in Workers
      PROVE  Covered(req[v])'
  BY <1>0, <1>2, <1>h DEF Covered
<1> QED
  BY <1>1, <1>2 DEF Next, FlagRide, Age, vars

LEMMA SolventAlways == Spec /\ []RefundsApart => []Solvent
BY SolventStep, InitSolvent, TypesAlways, PTL DEF Spec

\* Whatever else overlaps, no sweep, dispute hold or refund takes more from
\* wallets.pending_balance than is in it, as long as nothing else is about to take from the
\* balance of a driver when a processRefund, which read it without a lock, is about to commit.
THEOREM EscrowIsNotOverdrawn == Spec /\ []RefundsApart => []PendingNonNegative
<1>1. Solvent => PendingNonNegative
  BY DEF Solvent
<1> QED
  BY <1>1, SolventAlways, PTL

\* The steps of a refund.
Refunding == {"refund", "reverse_escrow", "commit_refund"}

\* So where nobody asks for a refund the escrow holds whatever overlaps.
THEOREM EscrowWithoutRefunds == "refund" \notin Requested => (Spec => []PendingNonNegative)
<1> SUFFICES ASSUME "refund" \notin Requested PROVE Spec => []PendingNonNegative
  OBVIOUS
<1> DEFINE NoRefunds == \A w \in Workers : req[w].step \notin Refunding
<1>1. Init => NoRefunds
  BY DEF Init, Idle, Task, Refunding
<1>2. Types /\ NoRefunds /\ [Next]_vars => NoRefunds'
  <2> SUFFICES ASSUME Types, NoRefunds, [Next]_vars, NEW v \in Workers
               PROVE  req'[v].step \notin Refunding
    OBVIOUS
  <2>0. /\ req \in [Workers -> RequestRows] /\ req[v] \in RequestRows
        /\ req[v].step \notin Refunding
    BY DEF Types, TypeOK
  <2>1. ASSUME NEW w \in Workers, Begin(w) \/ Continue(w) \/ Crash(w), v # w
        PROVE  req'[v] = req[v]
    BY <2>0, <2>1, BeginTyped, ContinueTyped DEF Crash, Finish
  <2>2. CASE Finish(v)
    BY <2>0, <2>2 DEF Finish, Idle, Task, Refunding
  <2>3. CASE Begin(v)
    <3>1. req'[v].step \in {"pay", "complete", "fail", "insert_dispute", "resolve", "release"}
      BY <2>0, <2>3 DEF Begin, RequestPay, ReceiveWebhook, RequestDispute, RequestRefund,
                        RequestResolve, StartSweep, Take, Task
    <3> QED
      BY <3>1 DEF Refunding
  <2>4. CASE InsertDispute(v) \/ ResolveDispute(v) \/ ReleasePayment(v)
    <3>1. Finish(v) \/ req'[v].step \in {"hold", "resolve_refund", "release"}
      BY <2>0, <2>4 DEF InsertDispute, ResolveDispute, ReleasePayment, At, RequestRows
    <3> QED
      BY <2>2, <3>1 DEF Refunding
  <2>5. CASE Continue(v)
    <3>1. ~ProcessRefund(v) /\ ~ReverseDriverEscrow(v)
      BY <2>0 DEF ProcessRefund, ReverseDriverEscrow, At, Refunding
    <3> QED
      BY <2>2, <2>4, <2>5, <3>1
         DEF Continue, HoldPayment, ProcessCashPayment, ProcessGatewayPayment, RejectPay, Insert,
             CompleteGatewayPayment, FailPayment, HoldPendingFundsForDispute, CommitRefund,
             MarkRefunded
  <2> QED
    BY <2>0, <2>1, <2>2, <2>3, <2>5 DEF Next, Crash, FlagRide, Age, vars
<1>3. NoRefunds => RefundsApart
  BY DEF RefundsApart, Refunding
<1> HIDE DEF NoRefunds
<1> QED
  BY <1>1, <1>2, <1>3, EscrowIsNotOverdrawn, TypesAlways, PTL DEF Spec

\* One worker, as in the run EscrowSerial, is the smallest case of these conditions.
LEMMA OneWorkerIsApart ==
  (\A v, w \in Workers : v = w) => PaysApart /\ RefundsApart /\ DisputesApart
BY DEF PaysApart, RefundsApart, DisputesApart

\* The list of a running sweep names no disputed payment.
ListUndisputed ==
  \A w \in Workers : req[w].step = "release" => req[w].todo \cap disputed = {}

LEMMA ListStep == DisputesApart /\ Types /\ ListUndisputed /\ [Next]_vars => ListUndisputed'
<1> SUFFICES ASSUME DisputesApart, Types, ListUndisputed, [Next]_vars,
                    NEW v \in Workers, req'[v].step = "release"
             PROVE  req'[v].todo \cap disputed' = {}
  BY DEF ListUndisputed
<1>0. /\ req \in [Workers -> RequestRows] /\ req[v] \in RequestRows
      /\ req[v].step = "release" => req[v].todo \cap disputed = {}
  BY DEF Types, TypeOK, ListUndisputed
<1>1. CASE UNCHANGED <<req, disputed>>
  BY <1>0, <1>1
<1>2. ~Finish(v)
  BY <1>0 DEF Finish, Idle, Task
<1>3. CASE Begin(v)
  BY <1>0, <1>3 DEF Begin, RequestPay, ReceiveWebhook, RequestDispute, RequestRefund,
                    RequestResolve, StartSweep, Take, Task, Due
<1>4. CASE Continue(v)
  <2>1. CASE ReleasePayment(v)
    BY <1>0, <1>2, <2>1 DEF ReleasePayment, At, RequestRows
  <2>2. ~InsertDispute(v) /\ ~ProcessRefund(v) /\ ~ReverseDriverEscrow(v) /\ ~ResolveDispute(v)
    BY <1>0, <1>2 DEF InsertDispute, ProcessRefund, ReverseDriverEscrow, ResolveDispute, RequestRows
  <2> QED
    BY <1>2, <1>4, <2>1, <2>2
       DEF Continue, HoldPayment, ProcessCashPayment, ProcessGatewayPayment, RejectPay, Insert,
           CompleteGatewayPayment, FailPayment, HoldPendingFundsForDispute, CommitRefund, MarkRefunded
<1>5. ASSUME NEW w \in Workers, w # v, Begin(w) \/ Continue(w) \/ Crash(w)
      PROVE  req'[v].todo \cap disputed' = {}
  <2>1. req'[v] = req[v]
    BY <1>0, <1>5, BeginTyped, ContinueTyped DEF Crash, Finish
  <2>2. CASE InsertDispute(w)
    BY <1>0, <2>1, <2>2 DEF InsertDispute, At, DisputesApart
  <2>3. CASE ~InsertDispute(w)
    <3>1. UNCHANGED disputed
      BY <1>5, <2>3
         DEF Begin, RequestPay, ReceiveWebhook, RequestDispute, RequestRefund, RequestResolve,
             StartSweep, Take, Crash, Continue, HoldPayment, ProcessCashPayment,
             ProcessGatewayPayment, RejectPay, Insert, CompleteGatewayPayment, FailPayment,
             ReleasePayment, HoldPendingFundsForDispute, ProcessRefund, ReverseDriverEscrow,
             CommitRefund, ResolveDispute, MarkRefunded
    <3> QED
      BY <1>0, <2>1, <3>1
  <2> QED
    BY <2>2, <2>3
<1> QED
  BY <1>1, <1>2, <1>3, <1>4, <1>5 DEF Next, Crash, FlagRide, Age, vars

\* Whatever else overlaps, the release command pays out no payment that was disputed, as long
\* as no dispute of a payment is inserted between the sweep's list and its turn in it.
THEOREM DisputesStopReleases == Spec /\ []DisputesApart => DisputeStopsRelease
<1>1. Init => ListUndisputed
  BY DEF Init, ListUndisputed, Idle, Task
<1>2. DisputesApart /\ Types /\ ListUndisputed /\ [Next]_vars => ListUndisputed'
  BY ListStep
<1>3. Types /\ ListUndisputed /\ [Next]_vars
        => [\A p \in disputed : pay'[p].released = pay[p].released]_vars
  BY ReleasedWriters DEF Types, TypeOK, ListUndisputed, ReleasePayment, At
<1> QED
  BY <1>1, <1>2, <1>3, TypesAlways, PTL DEF Spec, DisputeStopsRelease

=============================================================================
