---------------------------- MODULE WalletPayouts ----------------------------
(***************************************************************************)
(* Wallets, their ledger and the payouts of drivers: WalletService.php,    *)
(* Payment/PayoutService.php, ProcessPayoutJob.php, the nightly            *)
(* reconciliation and the payout screens of the administrators.  A step is *)
(* one statement or one transaction that locks its rows; requests, webhooks*)
(* and scheduled jobs overlap between their steps.                         *)
(*                                                                         *)
(* balance[w]  wallets.balance                                             *)
(* ledger[w]   credits less debits in wallet_transactions, pending top-ups *)
(*             left out: the sum that the reconciliation computes          *)
(* pending[w]  the part of wallets.pending_balance that is top-ups         *)
(* topup[t]    a deposit of one unit: its wallet and reference_type        *)
(* payout[p]   a row of driver_payouts                                     *)
(* debits[p]   the wallet_transactions whose reference is payout p         *)
(* job[p]      the ProcessPayoutJob of p and the attempts it has had       *)
(* handler[h]  a request, webhook or scheduled job between two steps       *)
(* decided[p]  the last of "paid" and "rejected" written to p (history)    *)
(* raced, crowded, overtaken: what overlapped (history)                    *)
(***************************************************************************)
EXTENDS Integers, FiniteSets

CONSTANTS Wallets, Payouts, TopUps, Handlers, None,
          Amounts,    \* what a debit may ask for
          MaxTries,   \* $tries of ProcessPayoutJob
          MaxEvents,  \* bounds of a run: requests and scheduled starts, and
          MaxFaults   \* exceptions and dying processes

ASSUME ConstantsAssumption ==
  /\ Amounts \subseteq Nat \ {0}
  /\ MaxTries \in Nat \ {0}
  /\ MaxEvents \in Nat
  /\ MaxFaults \in Nat
  /\ IsFiniteSet(TopUps)
  /\ None \notin Wallets \cup Payouts \cup TopUps

VARIABLES balance, ledger, pending, topup, payout, debits, job, handler,
          decided, raced, crowded, overtaken, events, faults

money == <<balance, ledger>>
tops == <<pending, topup>>
history == <<decided, raced, crowded, overtaken>>
vars == <<money, tops, payout, debits, job, handler, history, events, faults>>

Open == {"pending", "approved"}
Terminal == {"completed", "failed", "paid", "rejected"}
Status == {"none"} \cup Open \cup Terminal
Decisions == {"approved", "rejected", "paid", "pending"}
Steps == {"idle", "debit", "confirm", "open", "create", "dispatch", "decide", "sum", "correct"}

\* A task of a handler on wallet w (or item i), with the amount a it has read.
Task(step, w, i, a) == [step |-> step, wallet |-> w, item |-> i, amount |-> a,
                        seen |-> "none", to |-> "none"]
Idle == Task("idle", None, None, 0)
NoPayout == [status |-> "none", wallet |-> None, amount |-> 0]

Deposits == [status : {"none", "pending", "confirmed"}, wallet : Wallets \cup {None}]
Rows == [status : Status, wallet : Wallets \cup {None}, amount : Int]
Jobs == [state : {"none", "queued", "failing"}, tried : 0..MaxTries]
Tasks == [step : Steps, wallet : Wallets \cup {None}, item : Payouts \cup TopUps \cup {None},
          amount : Int, seen : Status, to : Decisions \cup {"none"}]

TypeOK ==
  /\ balance \in [Wallets -> Int]
  /\ ledger \in [Wallets -> Int]
  /\ pending \in [Wallets -> Int]
  /\ topup \in [TopUps -> Deposits]
  /\ payout \in [Payouts -> Rows]
  /\ debits \in [Payouts -> Nat]
  /\ job \in [Payouts -> Jobs]
  /\ handler \in [Handlers -> Tasks]
  /\ decided \in [Payouts -> {"none", "paid", "rejected"}]
  /\ raced \subseteq Wallets
  /\ crowded \subseteq Wallets
  /\ overtaken \subseteq Payouts
  /\ events \in 0..MaxEvents
  /\ faults \in 0..MaxFaults

Init ==
  /\ balance = [w \in Wallets |-> 0]
  /\ ledger = [w \in Wallets |-> 0]
  /\ pending = [w \in Wallets |-> 0]
  /\ topup = [t \in TopUps |-> [status |-> "none", wallet |-> None]]
  /\ payout = [p \in Payouts |-> NoPayout]
  /\ debits = [p \in Payouts |-> 0]
  /\ job = [p \in Payouts |-> [state |-> "none", tried |-> 0]]
  /\ handler = [h \in Handlers |-> Idle]
  /\ decided = [p \in Payouts |-> "none"]
  /\ raced = {}
  /\ crowded = {}
  /\ overtaken = {}
  /\ events = 0
  /\ faults = 0

Event == events < MaxEvents /\ events' = events + 1
Fault == faults < MaxFaults /\ faults' = faults + 1

Begin(h, context) == handler[h] = Idle /\ handler' = [handler EXCEPT ![h] = context]
Done(h) == handler' = [handler EXCEPT ![h] = Idle]

\* A movement with its row in the ledger.
Move(w, amount) ==
  /\ balance' = [balance EXCEPT ![w] = @ + amount]
  /\ ledger' = [ledger EXCEPT ![w] = @ + amount]

IsOpen(p) == payout[p].status \in Open
OpenPayouts(w) == {p \in Payouts : payout[p].wallet = w /\ IsOpen(p)}

-----------------------------------------------------------------------------
(* Credits and debits. *)

\* Earnings, refunds and rewards: credit is one transaction.
Credit(w, a) ==
  /\ Event
  /\ Move(w, a)
  /\ UNCHANGED <<tops, payout, debits, job, handler, history, faults>>

\* A withdrawal reads the balance before it enters the transaction of debit.
RequestWithdrawal(h, w, a) ==
  /\ Event
  /\ balance[w] >= a
  /\ Begin(h, Task("debit", w, None, a))
  /\ UNCHANGED <<money, tops, payout, debits, job, history, faults>>

\* A bug: the balance is not read again under the lock.
DebitUnchecked(h) ==
  /\ handler[h].step = "debit"
  /\ Move(handler[h].wallet, -handler[h].amount)
  /\ Done(h)
  /\ UNCHANGED <<tops, payout, debits, job, history, events, faults>>

Debit(h) ==
  /\ handler[h].step = "debit"
  /\ balance[handler[h].wallet] >= handler[h].amount
  /\ Move(handler[h].wallet, -handler[h].amount)
  /\ Done(h)
  /\ UNCHANGED <<tops, payout, debits, job, history, events, faults>>

RefuseDebit(h) ==
  /\ handler[h].step = "debit"
  /\ balance[handler[h].wallet] < handler[h].amount
  /\ Done(h)
  /\ UNCHANGED <<money, tops, payout, debits, job, history, events, faults>>

\* Fees and fines are debited without a look at the balance first.
Charge(w, a) ==
  /\ Event
  /\ balance[w] >= a
  /\ Move(w, -a)
  /\ UNCHANGED <<tops, payout, debits, job, handler, history, faults>>

(* Deposits. *)

InitiateTopUp(t, w) ==
  /\ Event
  /\ topup[t].status = "none"
  /\ topup' = [topup EXCEPT ![t] = [status |-> "pending", wallet |-> w]]
  /\ pending' = [pending EXCEPT ![w] = @ + 1]
  /\ UNCHANGED <<money, payout, debits, job, handler, history, faults>>

\* A webhook, perhaps a repeated one, finds the pending transaction without a lock.
ReceiveTopUp(h, t) ==
  /\ Event
  /\ topup[t].status = "pending"
  /\ Begin(h, Task("confirm", None, t, 0))
  /\ UNCHANGED <<money, tops, payout, debits, job, history, faults>>

Confirm(h, t) ==
  /\ topup' = [topup EXCEPT ![t].status = "confirmed"]
  /\ pending' = [pending EXCEPT ![topup[t].wallet] = @ - 1]
  /\ Move(topup[t].wallet, 1)
  /\ Done(h)
  /\ UNCHANGED <<payout, debits, job, history, events, faults>>

\* A bug: the transaction is taken for pending because the webhook found it so.
ConfirmTopUpUnlocked(h) ==
  /\ handler[h].step = "confirm"
  /\ Confirm(h, handler[h].item)

ConfirmTopUp(h) ==
  /\ handler[h].step = "confirm"
  /\ topup[handler[h].item].status = "pending"
  /\ Confirm(h, handler[h].item)

RefuseTopUp(h) ==
  /\ handler[h].step = "confirm"
  /\ topup[handler[h].item].status # "pending"
  /\ Done(h)
  /\ UNCHANGED <<money, tops, payout, debits, job, history, events, faults>>

(* Reconciliation of one wallet: the cursor read it, then its ledger is summed, then written. *)

ReadBalance(h, w) ==
  /\ Event
  /\ Begin(h, Task("sum", w, None, balance[w]))
  /\ UNCHANGED <<money, tops, payout, debits, job, history, faults>>

SumLedger(h) ==
  LET w == handler[h].wallet IN
  /\ handler[h].step = "sum"
  /\ IF ledger[w] = handler[h].amount
     THEN Done(h)
     ELSE handler' = [handler EXCEPT ![h].step = "correct", ![h].amount = ledger[w]]
  /\ UNCHANGED <<money, tops, payout, debits, job, history, events, faults>>

\* The sum overwrites the balance; movements since the sum are lost from it.
CorrectBalance(h) ==
  LET w == handler[h].wallet IN
  /\ handler[h].step = "correct"
  /\ balance' = [balance EXCEPT ![w] = handler[h].amount]
  /\ raced' = raced \cup {v \in {w} : ledger[v] # handler[h].amount}
  /\ Done(h)
  /\ UNCHANGED <<ledger, tops, payout, debits, job, decided, crowded, overtaken, events, faults>>

-----------------------------------------------------------------------------
(* A batch: list the wallet, look for an open payout, insert one, queue its job. *)

ListWallet(h, w) ==
  /\ Event
  /\ balance[w] > 0
  /\ Begin(h, Task("open", w, None, balance[w]))
  /\ UNCHANGED <<money, tops, payout, debits, job, history, faults>>

CheckOpen(h) ==
  LET w == handler[h].wallet IN
  /\ handler[h].step = "open"
  /\ IF OpenPayouts(w) # {}
     THEN Done(h)
     ELSE handler' = [handler EXCEPT ![h].step = "create"]
  /\ crowded' = crowded \cup {v \in {w} : \E g \in Handlers : /\ handler[g].step = "create"
                                                             /\ handler[g].wallet = v}
  /\ UNCHANGED <<money, tops, payout, debits, job, decided, raced, overtaken, events, faults>>

CreatePayout(h, p) ==
  /\ handler[h].step = "create"
  /\ payout[p] = NoPayout
  /\ payout' = [payout EXCEPT ![p] = [status |-> "pending", wallet |-> handler[h].wallet,
                                      amount |-> handler[h].amount]]
  /\ handler' = [handler EXCEPT ![h].step = "dispatch", ![h].item = p]
  /\ UNCHANGED <<money, tops, debits, job, history, events, faults>>

DispatchPayout(h) ==
  /\ handler[h].step = "dispatch"
  /\ job' = [job EXCEPT ![handler[h].item] = [state |-> "queued", tried |-> 0]]
  /\ Done(h)
  /\ UNCHANGED <<money, tops, payout, debits, history, events, faults>>

(* ProcessPayoutJob *)

Insufficient(p) == balance[payout[p].wallet] < payout[p].amount

Finish(p, status) == payout' = [payout EXCEPT ![p].status = status]

Pay(p) ==
  /\ Move(payout[p].wallet, -payout[p].amount)
  /\ debits' = [debits EXCEPT ![p] = @ + 1]
  /\ Finish(p, "completed")

\* A bug: the ledger is not asked for an earlier debit.
SettleAgain(p) ==
  \/ payout[p].status \in Terminal /\ UNCHANGED <<money, payout, debits>>
  \/ IsOpen(p) /\ Insufficient(p) /\ Finish(p, "failed") /\ UNCHANGED <<money, debits>>
  \/ IsOpen(p) /\ ~Insufficient(p) /\ Pay(p)

\* A bug: the statuses of the administrators are not terminal for the job.
SettleDecided(p) ==
  \/ payout[p].status \in {"completed", "failed"} /\ UNCHANGED <<money, payout, debits>>
  \/ /\ payout[p].status \in {"paid", "rejected"} \cup Open
     /\ debits[p] = 0 /\ ~Insufficient(p)
     /\ Pay(p)

\* The transaction of handle, under the locks of the payout and of the wallet.
Settle(p) ==
  \/ /\ payout[p].status \in Terminal
     /\ UNCHANGED <<money, payout, debits>>
  \/ /\ IsOpen(p) /\ debits[p] > 0
     /\ Finish(p, "completed")
     /\ UNCHANGED <<money, debits>>
  \/ /\ IsOpen(p) /\ debits[p] = 0 /\ Insufficient(p)
     /\ Finish(p, "failed")
     /\ UNCHANGED <<money, debits>>
  \/ /\ IsOpen(p) /\ debits[p] = 0 /\ ~Insufficient(p)
     /\ Pay(p)

RunPayout(p) ==
  /\ job[p].state = "queued"
  /\ Settle(p)
  /\ job' = [job EXCEPT ![p].state = "none"]
  /\ UNCHANGED <<tops, handler, history, events, faults>>

\* A bug: "processing" is written outside the transaction and outlives it.
PayoutThrowsMidway(p) ==
  /\ Fault
  /\ job[p].state = "queued"
  /\ Finish(p, "processing")
  /\ job' = [job EXCEPT ![p].state = "none"]
  /\ UNCHANGED <<money, tops, debits, handler, history, events>>

\* The transaction throws and is rolled back; the third time the catch fails the payout.
PayoutThrows(p) ==
  /\ Fault
  /\ job[p].state = "queued"
  /\ job' = [job EXCEPT ![p] = [state |-> IF @.tried + 1 >= MaxTries THEN "failing" ELSE "queued",
                                tried |-> @.tried + 1]]
  /\ UNCHANGED <<money, tops, payout, debits, handler, history, events>>

FailPayout(p) ==
  /\ job[p].state = "failing"
  /\ payout' = IF payout[p].status \in Terminal THEN payout
               ELSE [payout EXCEPT ![p].status = "failed"]
  /\ job' = [job EXCEPT ![p].state = "none"]
  /\ UNCHANGED <<money, tops, debits, handler, history, events, faults>>

\* The worker dies before or after the commit, and the queue hands the job out
\* again as long as it has attempts left.
WorkerDies(p) ==
  /\ Fault
  /\ job[p].state = "queued"
  /\ Settle(p) \/ UNCHANGED <<money, payout, debits>>
  /\ job' = [job EXCEPT ![p] = [state |-> IF @.tried + 1 >= MaxTries THEN "none" ELSE "queued",
                                tried |-> @.tried + 1]]
  /\ UNCHANGED <<tops, handler, history, events>>

(* Administrators. *)

MayDecide(status, to) ==
  \/ to \in {"approved", "rejected"} /\ status = "pending"
  \/ to = "paid" /\ status \in Open
  \/ to = "pending" /\ status \in {"approved"} \cup Terminal

\* The row is read and checked; approve, reject, process and retry write it by its id.
ReadPayout(h, p, to) ==
  /\ Event
  /\ MayDecide(payout[p].status, to)
  /\ Begin(h, [step |-> "decide", wallet |-> None, item |-> p, amount |-> 0,
               seen |-> payout[p].status, to |-> to])
  /\ UNCHANGED <<money, tops, payout, debits, job, history, faults>>

WriteDecision(h) ==
  LET p == handler[h].item
      to == handler[h].to
  IN
  /\ handler[h].step = "decide"
  /\ payout' = [payout EXCEPT ![p].status = to]
  /\ decided' = [decided EXCEPT ![p] = IF to \in {"paid", "rejected"} THEN to ELSE @]
  /\ overtaken' = overtaken \cup
       {q \in {p} : to = "pending" \/ payout[q].status # handler[h].seen}
  /\ Done(h)
  /\ UNCHANGED <<money, tops, debits, job, raced, crowded, events, faults>>

\* The bulk approval is one conditional update.
BulkApprove(p) ==
  /\ Event
  /\ payout[p].status = "pending"
  /\ payout' = [payout EXCEPT ![p].status = "approved"]
  /\ UNCHANGED <<money, tops, debits, job, handler, history, faults>>

\* The process of a request or of a scheduled job dies between two steps.
Crash(h) ==
  /\ Fault
  /\ handler[h] # Idle
  /\ Done(h)
  /\ UNCHANGED <<money, tops, payout, debits, job, history, events>>
-----------------------------------------------------------------------------
WalletStep ==
  \/ \E w \in Wallets, a \in Amounts : Credit(w, a) \/ Charge(w, a)
  \/ \E t \in TopUps, w \in Wallets : InitiateTopUp(t, w)

HandlerStep(h) ==
  \/ \E w \in Wallets, a \in Amounts : RequestWithdrawal(h, w, a)
  \/ \E w \in Wallets : ReadBalance(h, w) \/ ListWallet(h, w)
  \/ \E t \in TopUps : ReceiveTopUp(h, t)
  \/ \E p \in Payouts, to \in Decisions : ReadPayout(h, p, to)
  \/ \E p \in Payouts : CreatePayout(h, p)
  \/ Debit(h) \/ RefuseDebit(h) \/ ConfirmTopUp(h) \/ RefuseTopUp(h)
  \/ SumLedger(h) \/ CorrectBalance(h) \/ CheckOpen(h) \/ DispatchPayout(h)
  \/ WriteDecision(h) \/ Crash(h)

JobStep(p) ==
  \/ RunPayout(p) \/ PayoutThrows(p) \/ FailPayout(p) \/ WorkerDies(p) \/ BulkApprove(p)

Next == WalletStep \/ (\E h \in Handlers : HandlerStep(h)) \/ (\E p \in Payouts : JobStep(p))

Spec == Init /\ [][Next]_vars

-----------------------------------------------------------------------------
(* Properties. *)

\* However often a payout is retried, redelivered, decided or reopened, its
\* wallet is debited for it at most once.
DebitedOnce == \A p \in Payouts : debits[p] <= 1

\* A payout stands as completed only after its debit: no administrator's write,
\* exhausted job or dead worker makes it look paid when it was not.
CompletedIsDebited == \A p \in Payouts : payout[p].status = "completed" => debits[p] = 1

\* A decision of an administrator that nothing overtook excludes the debit: a
\* payout paid outside or rejected is not also taken from the wallet, whatever
\* its job, still queued, does before or after.
SettledOneWay ==
  \A p \in Payouts \ overtaken : decided[p] # "none" => debits[p] = 0

\* A wallet has at most one open payout, unless two batches looked for one
\* before either inserted it, or an administrator reopened one.
OneOpenPayout ==
  \A w \in Wallets \ crowded :
    {p \in overtaken : payout[p].wallet = w} = {} => Cardinality(OpenPayouts(w)) <= 1

\* Unless a movement fell between the sum and the write of a reconciliation, a
\* wallet holds what its ledger says.
LedgerAgrees == \A w \in Wallets \ raced : balance[w] = ledger[w]

\* Nor is it overdrawn: not by withdrawals that overlap, nor by two payouts that two batches
\* made of the one balance.
NeverOverdrawn == \A w \in Wallets \ raced : balance[w] >= 0

\* The pending balance is that of the deposits no webhook has confirmed, so a
\* repeated webhook credits nothing twice.
PendingIsUnconfirmed ==
  \A w \in Wallets :
    pending[w] = Cardinality({t \in TopUps : topup[t] = [status |-> "pending", wallet |-> w]})
=============================================================================
