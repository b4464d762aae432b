------------------------- MODULE WalletPayoutsProofs -------------------------
(***************************************************************************)
(* Proofs about WalletPayouts for any wallets, payouts, deposits, handlers *)
(* and amounts, and any number of retries, crashes and overlaps.           *)
(*                                                                         *)
(* Besides the types of a handler's context, four invariants, each         *)
(* inductive beside them: Booked (a wallet and its ledger), Sound (a payout, *)
(* its debit and its decision), Single (the payouts of a wallet and the    *)
(* batches about to insert one) and Counted (a wallet's pending deposits). *)
(***************************************************************************)
EXTENDS WalletPayouts, FiniteSetTheorems, TLAPS

\* What the steps of a handler work on.
Contexts ==
  {c \in Tasks :
     /\ c.step \in {"debit", "open", "create", "dispatch", "sum", "correct"} => c.wallet \in Wallets
     /\ c.step = "confirm" => c.item \in TopUps
     /\ c.step = "dispatch" => c.item \in Payouts
     /\ c.step = "decide" => c.item \in Payouts /\ MayDecide(c.seen, c.to)}

Handling == handler \in [Handlers -> Contexts]

\* Jobs in the queue have attempts left.
Attempts == \A p \in Payouts : job[p].state = "queued" => job[p].tried < MaxTries

Types == TypeOK /\ Attempts /\ Handling

-----------------------------------------------------------------------------
(* Types. *)

LEMMA IdleIsContext == Idle \in Contexts
BY DEF Idle, Task, Contexts, Tasks, Steps, Status, Decisions

LEMMA InitTypes == Init => Types
<1> SUFFICES ASSUME Init PROVE Types
  OBVIOUS
<1>1. Handling
  BY IdleIsContext DEF Init, Handling
<1>2. TypeOK
  BY <1>1, ConstantsAssumption
  DEF Init, TypeOK, Handling, NoPayout, Status, Contexts, Rows, Deposits, Jobs, Terminal, Open
<1>3. Attempts
  BY ConstantsAssumption DEF Init, Attempts
<1> QED
  BY <1>1, <1>2, <1>3 DEF Types

\* A context that moves on to another step for the same wallet.
LEMMA NextStep ==
  ASSUME NEW c \in Contexts, c.step \in {"open", "create", "sum"},
         NEW s \in {"create", "dispatch", "correct"},
         NEW i \in Payouts \cup {c.item}, s = "dispatch" => i \in Payouts,
         NEW a \in Int
  PROVE  [c EXCEPT !.step = s, !.item = i, !.amount = a] \in Contexts
BY DEF Contexts, Tasks, Steps

\* What the handlers do keeps them contexts.
LEMMA HandlersTyped == Types /\ [Next]_vars => Handling'
<1> SUFFICES ASSUME Types, [Next]_vars PROVE Handling'
  OBVIOUS
<1> USE IdleIsContext DEF Handling
<1>0. /\ handler \in [Handlers -> Contexts]
      /\ balance \in [Wallets -> Int] /\ ledger \in [Wallets -> Int]
      /\ \A p \in Payouts : payout[p].status \in Status
  BY DEF Types, TypeOK, Handling, Rows
<1>1. ASSUME NEW h \in Handlers, Done(h) PROVE Handling'
  BY <1>0, <1>1 DEF Done
<1>2. ASSUME NEW h \in Handlers, NEW c \in Contexts, Begin(h, c)
      PROVE  Handling'
  BY <1>0, <1>2 DEF Begin
<1>3. ASSUME NEW h \in Handlers, HandlerStep(h) PROVE Handling'
  <2>0. handler[h] \in Contexts /\ handler[h] \in Tasks
    BY <1>0 DEF Contexts
  <2>1. ASSUME NEW w \in Wallets, NEW a \in Amounts, RequestWithdrawal(h, w, a)
        PROVE  Handling'
    <3>1. a \in Int
      BY ConstantsAssumption
    <3>2. Task("debit", w, None, a) \in Contexts
      BY <3>1 DEF Task, Contexts, Tasks, Steps, Status
    <3> QED
      BY <2>1, <3>2, <1>2 DEF RequestWithdrawal
  <2>2. ASSUME NEW w \in Wallets, ReadBalance(h, w) \/ ListWallet(h, w)
        PROVE  Handling'
    <3>1. balance[w] \in Int
      BY <1>0
    <3>2. Task("sum", w, None, balance[w]) \in Contexts /\ Task("open", w, None, balance[w]) \in Contexts
      BY <3>1 DEF Task, Contexts, Tasks, Steps, Status
    <3> QED
      BY <2>2, <3>2, <1>2 DEF ReadBalance, ListWallet
  <2>3. ASSUME NEW t \in TopUps, ReceiveTopUp(h, t) PROVE Handling'
    <3>1. Task("confirm", None, t, 0) \in Contexts
      BY DEF Task, Contexts, Tasks, Steps, Status
    <3> QED
      BY <2>3, <3>1, <1>2 DEF ReceiveTopUp
  <2>4. ASSUME NEW p \in Payouts, NEW to \in Decisions, ReadPayout(h, p, to)
        PROVE  Handling'
    <3>1. payout[p].status \in Status /\ MayDecide(payout[p].status, to)
      BY <2>4, <1>0 DEF ReadPayout
    <3>2. [step |-> "decide", wallet |-> None, item |-> p, amount |-> 0,
           seen |-> payout[p].status, to |-> to] \in Contexts
      BY <3>1 DEF Contexts, Tasks, Steps
    <3> QED
      BY <2>4, <3>2, <1>2 DEF ReadPayout
  <2>5. ASSUME NEW p \in Payouts, CreatePayout(h, p) PROVE Handling'
    <3>1. [handler[h] EXCEPT !.step = "dispatch", !.item = p, !.amount = handler[h].amount] \in Contexts
      BY <2>5, <2>0, NextStep DEF CreatePayout, Tasks
    <3>2. handler' = [handler EXCEPT ![h] =
            [handler[h] EXCEPT !.step = "dispatch", !.item = p, !.amount = handler[h].amount]]
      BY <2>5, <2>0, <1>0 DEF CreatePayout, Tasks
    <3> QED
      BY <3>1, <3>2, <1>0
  <2>6. CASE Debit(h) \/ RefuseDebit(h) \/ ConfirmTopUp(h) \/ RefuseTopUp(h) \/ CorrectBalance(h)
             \/ DispatchPayout(h) \/ WriteDecision(h) \/ Crash(h)
    BY <2>6, <1>1 DEF Debit, RefuseDebit, ConfirmTopUp, Confirm, RefuseTopUp, CorrectBalance,
                      DispatchPayout, WriteDecision, Crash
  <2>7. CASE SumLedger(h)
    <3>1. CASE Done(h)
      BY <3>1, <1>1
    <3>2. CASE ~Done(h)
      <4> DEFINE w == handler[h].wallet
      <4>1. handler' = [handler EXCEPT ![h].step = "correct", ![h].amount = ledger[w]]
        BY <2>7, <3>2 DEF SumLedger
      <4>2. handler[h].step = "sum" /\ w \in Wallets
        BY <2>7, <2>0 DEF SumLedger, Contexts
      <4>3. [handler[h] EXCEPT !.step = "correct", !.item = handler[h].item, !.amount = ledger[w]] \in Contexts
        BY <4>2, <2>0, <1>0, NextStep
      <4>4. handler' = [handler EXCEPT ![h] =
              [handler[h] EXCEPT !.step = "correct", !.item = handler[h].item, !.amount = ledger[w]]]
        BY <4>1, <2>0, <1>0 DEF Tasks
      <4> QED
        BY <4>3, <4>4, <1>0
    <3> QED
      BY <3>1, <3>2
  <2>8. CASE CheckOpen(h)
    <3>1. CASE Done(h)
      BY <3>1, <1>1
    <3>2. CASE ~Done(h)
      <4>1. handler' = [handler EXCEPT ![h].step = "create"] /\ handler[h].step = "open"
        BY <2>8, <3>2 DEF CheckOpen
      <4>2. [handler[h] EXCEPT !.step = "create", !.item = handler[h].item, !.amount = handler[h].amount]
               \in Contexts
        BY <4>1, <2>0, NextStep DEF Tasks
      <4>3. handler' = [handler EXCEPT ![h] = [handler[h] EXCEPT !.step = "create",
                          !.item = handler[h].item, !.amount = handler[h].amount]]
        BY <4>1, <2>0, <1>0 DEF Tasks
      <4> QED
        BY <4>2, <4>3, <1>0
    <3> QED
      BY <3>1, <3>2
  <2> QED
    BY <1>3, <2>1, <2>2, <2>3, <2>4, <2>5, <2>6, <2>7, <2>8 DEF HandlerStep
<1>4. CASE WalletStep \/ \E p \in Payouts : JobStep(p)
  BY <1>4, <1>0 DEF WalletStep, Credit, Charge, InitiateTopUp, JobStep, RunPayout, PayoutThrows,
                    FailPayout, WorkerDies, BulkApprove
<1>5. CASE UNCHANGED vars
  BY <1>5, <1>0 DEF vars
<1> QED
  BY <1>3, <1>4, <1>5 DEF Next

\* An amount moved leaves whole balances.
LEMMA MoveTyped ==
  ASSUME balance \in [Wallets -> Int], ledger \in [Wallets -> Int],
         NEW w, NEW a \in Int, Move(w, a)
  PROVE  balance' \in [Wallets -> Int] /\ ledger' \in [Wallets -> Int]
<1>1. ASSUME NEW v \in Wallets PROVE balance[v] + a \in Int /\ ledger[v] + a \in Int
  OBVIOUS
<1> QED
  BY <1>1 DEF Move

\* A status written to a row leaves a row.
LEMMA StatusTyped ==
  ASSUME payout \in [Payouts -> Rows], NEW p \in Payouts, NEW s \in Status
  PROVE  [payout EXCEPT ![p].status = s] \in [Payouts -> Rows]
<1>1. [payout[p] EXCEPT !.status = s] \in Rows
  BY DEF Rows
<1>2. [payout EXCEPT ![p].status = s] = [payout EXCEPT ![p] = [payout[p] EXCEPT !.status = s]]
  OBVIOUS
<1> QED
  BY <1>1, <1>2

\* The same of a job, whose attempts are counted when it is queued.
LEMMA StateTyped ==
  ASSUME job \in [Payouts -> Jobs], Attempts, NEW p \in Payouts, NEW s \in {"none", "failing"}
  PROVE  /\ [job EXCEPT ![p].state = s] \in [Payouts -> Jobs]
         /\ job' = [job EXCEPT ![p].state = s] => Attempts'
<1>1. [job[p] EXCEPT !.state = s] \in Jobs
  BY DEF Jobs
<1>2. [job EXCEPT ![p].state = s] = [job EXCEPT ![p] = [job[p] EXCEPT !.state = s]]
  OBVIOUS
<1>3. [job[p] EXCEPT !.state = s].state = s
  BY DEF Jobs
<1> QED
  BY <1>1, <1>2, <1>3 DEF Attempts

\* The bounds are kept.
LEMMA BoundsKept ==
  ASSUME events \in 0..MaxEvents, faults \in 0..MaxFaults, [Next]_vars
  PROVE  events' \in 0..MaxEvents /\ faults' \in 0..MaxFaults
<1>1. /\ Event => events' \in 0..MaxEvents
      /\ Fault => faults' \in 0..MaxFaults
  BY ConstantsAssumption DEF Event, Fault
<1>2. (Event \/ events' = events) /\ (Fault \/ faults' = faults)
  <2>1. CASE WalletStep
    BY <2>1 DEF WalletStep, Credit, Charge, InitiateTopUp
  <2>2. CASE \E h \in Handlers : HandlerStep(h)
    BY <2>2 DEF HandlerStep, RequestWithdrawal, ReadBalance, ListWallet, ReceiveTopUp, ReadPayout,
      CreatePayout, Debit, RefuseDebit, ConfirmTopUp, Confirm, RefuseTopUp, SumLedger,
      CorrectBalance, CheckOpen, DispatchPayout, WriteDecision, Crash
  <2>3. CASE \E p \in Payouts : JobStep(p)
    BY <2>3 DEF JobStep, RunPayout, PayoutThrows, FailPayout, WorkerDies, BulkApprove
  <2> QED
    BY <2>1, <2>2, <2>3 DEF Next, vars
<1> QED
  BY <1>1, <1>2

\* Whatever becomes of the transaction of a payout, its effects are typed.
LEMMA SettleTyped ==
  ASSUME TypeOK, NEW p \in Payouts, Settle(p) \/ UNCHANGED <<money, payout, debits>>
  PROVE  /\ balance' \in [Wallets -> Int]
         /\ ledger' \in [Wallets -> Int]
         /\ payout' \in [Payouts -> Rows]
         /\ debits' \in [Payouts -> Nat]
<1>0. payout \in [Payouts -> Rows]
  BY DEF TypeOK
<1>1. /\ -payout[p].amount \in Int
      /\ debits[p] + 1 \in Nat
      /\ balance \in [Wallets -> Int] /\ ledger \in [Wallets -> Int]
  BY DEF TypeOK, Rows
<1>2. ASSUME NEW s \in Status, Finish(p, s)
      PROVE  payout' \in [Payouts -> Rows]
  BY <1>0, <1>2, StatusTyped DEF Finish
<1>3. CASE Pay(p)
  BY <1>1, <1>2, <1>3, MoveTyped DEF Pay, TypeOK, Status, Terminal
<1>4. CASE UNCHANGED <<money, debits>> /\ (Finish(p, "failed") \/ Finish(p, "completed"))
  BY <1>2, <1>4 DEF money, TypeOK, Status, Terminal
<1>5. CASE UNCHANGED <<money, payout, debits>>
  BY <1>0, <1>5 DEF money, TypeOK
<1> QED
  BY <1>3, <1>4, <1>5 DEF Settle

\* Every step keeps the types.
LEMMA NextTypes == Types /\ [Next]_vars => Types'
<1> SUFFICES ASSUME Types, [Next]_vars PROVE Types'
  OBVIOUS
<1> USE DEF Types
<1>0. Handling'
  BY HandlersTyped
<1>h. handler' \in [Handlers -> Tasks]
  BY <1>0 DEF Handling, Contexts
<1>b. events' \in 0..MaxEvents /\ faults' \in 0..MaxFaults
  BY BoundsKept DEF TypeOK
<1> USE <1>0, <1>h, <1>b
<1>1. ASSUME WalletStep PROVE Types'
  <2>1. ASSUME NEW w \in Wallets, NEW a \in Amounts, Credit(w, a) \/ Charge(w, a) PROVE Types'
    <3>1. a \in Int /\ -a \in Int
      BY ConstantsAssumption
    <3>2. balance' \in [Wallets -> Int] /\ ledger' \in [Wallets -> Int]
      BY <2>1, <3>1, MoveTyped DEF Credit, Charge, TypeOK
    <3> QED
      BY <2>1, <3>2, <1>0 DEF Credit, Charge, TypeOK, Attempts, tops, history, Event
  <2>2. ASSUME NEW t \in TopUps, NEW w \in Wallets, InitiateTopUp(t, w) PROVE Types'
    <3>1. pending' \in [Wallets -> Int]
      BY <2>2 DEF InitiateTopUp, TypeOK
    <3>2. topup' \in [TopUps -> Deposits]
      BY <2>2 DEF InitiateTopUp, TypeOK, Deposits
    <3> QED
      BY <2>2, <3>1, <3>2, <1>0 DEF InitiateTopUp, TypeOK, Attempts, money, history, Event
  <2> QED
    BY <1>1, <2>1, <2>2 DEF WalletStep
<1>2. ASSUME NEW h \in Handlers, HandlerStep(h) PROVE Types'
  <2>0. handler[h] \in Contexts /\ handler[h] \in Tasks
    BY DEF Handling, Contexts
  <2> USE DEF tops, money, history, Attempts
  <2>1. CASE (\E w \in Wallets, a \in Amounts : RequestWithdrawal(h, w, a))
             \/ (\E w \in Wallets : ReadBalance(h, w) \/ ListWallet(h, w))
             \/ (\E t \in TopUps : ReceiveTopUp(h, t))
             \/ (\E p \in Payouts, to \in Decisions : ReadPayout(h, p, to))
    BY <2>1 DEF RequestWithdrawal, ReadBalance, ListWallet, ReceiveTopUp, ReadPayout, TypeOK
  <2>2. ASSUME NEW p \in Payouts, CreatePayout(h, p) PROVE Types'
    <3>1. payout' \in [Payouts -> Rows]
      BY <2>0, <2>2 DEF CreatePayout, TypeOK, Status, Open, Rows, Tasks
    <3> QED
      BY <2>2, <3>1 DEF CreatePayout, TypeOK
  <2>3. CASE Debit(h)
    <3>1. balance' \in [Wallets -> Int] /\ ledger' \in [Wallets -> Int]
      <4>1. -handler[h].amount \in Int
        BY <2>0 DEF Tasks
      <4> QED
        BY <2>3, <4>1, MoveTyped DEF Debit, TypeOK
    <3> QED
      BY <2>3, <3>1 DEF Debit, TypeOK
  <2>4. CASE ConfirmTopUp(h)
    <3> DEFINE t == handler[h].item
    <3>1. t \in TopUps
      BY <2>4, <2>0 DEF ConfirmTopUp, Contexts
    <3>2. balance' \in [Wallets -> Int] /\ ledger' \in [Wallets -> Int]
      BY <2>4, MoveTyped DEF ConfirmTopUp, Confirm, TypeOK
    <3>3. topup' \in [TopUps -> Deposits]
      <4>1. topup \in [TopUps -> Deposits] /\ topup[t] \in Deposits
        BY <3>1 DEF TypeOK
      <4>2. [topup[t] EXCEPT !.status = "confirmed"] \in Deposits
        BY <4>1 DEF Deposits
      <4>3. topup' = [topup EXCEPT ![t] = [topup[t] EXCEPT !.status = "confirmed"]]
        BY <2>4 DEF ConfirmTopUp, Confirm
      <4> QED
        BY <4>1, <4>2, <4>3
    <3>4. pending' \in [Wallets -> Int]
      <4>1. pending \in [Wallets -> Int] /\ \A w \in Wallets : pending[w] - 1 \in Int
        BY DEF TypeOK
      <4> QED
        BY <2>4, <4>1 DEF ConfirmTopUp, Confirm
    <3> QED
      BY <2>4, <3>2, <3>3, <3>4 DEF ConfirmTopUp, Confirm, TypeOK
  <2>5. CASE CorrectBalance(h)
    <3>1. balance' \in [Wallets -> Int]
      BY <2>0, <2>5 DEF CorrectBalance, TypeOK, Tasks
    <3>2. raced' \subseteq Wallets
      BY <2>0, <2>5 DEF CorrectBalance, TypeOK, Contexts
    <3> QED
      BY <2>5, <3>1, <3>2 DEF CorrectBalance, TypeOK
  <2>6. CASE CheckOpen(h)
    <3>1. crowded' \subseteq Wallets
      BY <2>0, <2>6 DEF CheckOpen, TypeOK, Contexts
    <3> QED
      BY <2>6, <3>1 DEF CheckOpen, TypeOK
  <2>7. CASE DispatchPayout(h)
    <3>0. [state |-> "queued", tried |-> 0] \in Jobs
      BY ConstantsAssumption DEF Jobs
    <3>1. job' \in [Payouts -> Jobs]
      BY <2>7, <3>0 DEF DispatchPayout, TypeOK
    <3>2. Attempts'
      BY <2>7, ConstantsAssumption DEF DispatchPayout, TypeOK
    <3> QED
      BY <2>7, <3>1, <3>2 DEF DispatchPayout, TypeOK
  <2>8. CASE WriteDecision(h)
    <3>1. handler[h].item \in Payouts /\ handler[h].to \in Decisions
      BY <2>8, <2>0 DEF WriteDecision, Contexts, MayDecide, Decisions
    <3>2. payout' \in [Payouts -> Rows]
      BY <2>8, <3>1, StatusTyped DEF WriteDecision, TypeOK, Status, Decisions, Open, Terminal
    <3>3. decided' \in [Payouts -> {"none", "paid", "rejected"}]
      BY <2>8, <3>1 DEF WriteDecision, TypeOK
    <3>4. overtaken' \subseteq Payouts
      BY <2>8, <3>1 DEF WriteDecision, TypeOK
    <3> QED
      BY <2>8, <3>2, <3>3, <3>4 DEF WriteDecision, TypeOK
  <2>9. CASE RefuseDebit(h) \/ RefuseTopUp(h) \/ SumLedger(h) \/ Crash(h)
    BY <2>9 DEF RefuseDebit, RefuseTopUp, SumLedger, Crash, TypeOK
  <2> QED
    BY <1>2, <2>1, <2>2, <2>3, <2>4, <2>5, <2>6, <2>7, <2>8, <2>9 DEF HandlerStep
<1>3. ASSUME NEW p \in Payouts, JobStep(p) PROVE Types'
  <2> USE DEF tops, history
  <2>j. job \in [Payouts -> Jobs] /\ payout \in [Payouts -> Rows] /\ Attempts
    BY DEF TypeOK
  <2>t. job[p].state = "queued" => job[p].tried + 1 \in 0..MaxTries
    BY <2>j, ConstantsAssumption DEF Attempts, Jobs
  <2>1. CASE RunPayout(p)
    <3>1. job' \in [Payouts -> Jobs] /\ Attempts'
      BY <2>1, <2>j, StateTyped DEF RunPayout
    <3> QED
      BY <2>1, <3>1, SettleTyped DEF RunPayout, TypeOK
  <2>2. ASSUME NEW s \in {"none", "failing"}, job[p].state = "queued",
               job' = [job EXCEPT ![p] = [state |-> IF @.tried + 1 >= MaxTries THEN s ELSE "queued",
                                          tried |-> @.tried + 1]]
        PROVE  /\ job' \in [Payouts -> Jobs]
               /\ Attempts'
    <3>1. [state |-> IF job[p].tried + 1 >= MaxTries THEN s ELSE "queued",
           tried |-> job[p].tried + 1] \in Jobs
      BY <2>2, <2>t DEF Jobs
    <3> QED
      BY <2>2, <2>j, <2>t, <3>1, ConstantsAssumption DEF Attempts, Jobs
  <2>3. CASE PayoutThrows(p)
    BY <2>2, <2>3 DEF PayoutThrows, TypeOK, money
  <2>4. CASE WorkerDies(p)
    BY <2>2, <2>4, SettleTyped DEF WorkerDies, TypeOK
  <2>5. CASE FailPayout(p)
    <3>1. payout' \in [Payouts -> Rows]
      BY <2>5, <2>j, StatusTyped DEF FailPayout, Status, Terminal
    <3>2. job' \in [Payouts -> Jobs] /\ Attempts'
      BY <2>5, <2>j, StateTyped DEF FailPayout
    <3> QED
      BY <2>5, <3>1, <3>2 DEF FailPayout, TypeOK, money
  <2>6. CASE BulkApprove(p)
    <3>1. payout' \in [Payouts -> Rows]
      BY <2>6, <2>j, StatusTyped DEF BulkApprove, Status, Open
    <3> QED
      BY <2>6, <3>1 DEF BulkApprove, TypeOK, Attempts, money
  <2> QED
    BY <1>3, <2>1, <2>3, <2>4, <2>5, <2>6 DEF JobStep
<1>4. CASE UNCHANGED vars
  BY <1>4, <1>0 DEF vars, money, tops, history, TypeOK, Attempts
<1> QED
  BY <1>1, <1>2, <1>3, <1>4 DEF Next

\* Every reachable state is well typed, with no limit on wallets, payouts,
\* deposits or handlers.
THEOREM TypeCorrect == Spec => []TypeOK
<1>1. Spec => []Types
  BY InitTypes, NextTypes, PTL DEF Spec
<1>2. Types => TypeOK
  BY DEF Types
<1> QED
  BY <1>1, <1>2, PTL

-----------------------------------------------------------------------------
(* Wallets and their ledger. *)

\* LedgerAgrees and NeverOverdrawn, of one wallet.
BookedOne(b, l) == b = l /\ l >= 0

Booked == \A w \in Wallets \ raced : BookedOne(balance[w], ledger[w])

\* A movement that the balance bears keeps the books.
LEMMA MoveKeepsBooks ==
  ASSUME TypeOK, Booked, NEW w, NEW a \in Int, Move(w, a), raced' = raced,
         w \in Wallets => a >= 0 \/ balance[w] + a >= 0
  PROVE  Booked'
<1> SUFFICES ASSUME NEW v \in Wallets \ raced PROVE BookedOne(balance'[v], ledger'[v])
  BY DEF Booked
<1>1. balance[v] \in Int /\ ledger[v] \in Int /\ BookedOne(balance[v], ledger[v])
  BY DEF TypeOK, Booked
<1>2. CASE v = w
  BY <1>1, <1>2 DEF Move, TypeOK, BookedOne
<1>3. CASE v # w
  BY <1>1, <1>3 DEF Move, TypeOK
<1> QED
  BY <1>2, <1>3

\* The transaction of a payout keeps the books.
LEMMA SettleKeepsBooks ==
  ASSUME TypeOK, Booked, NEW p \in Payouts, Settle(p) \/ UNCHANGED <<money, payout, debits>>,
         raced' = raced
  PROVE  Booked'
<1>1. CASE UNCHANGED money
  BY <1>1 DEF money, Booked
<1>2. CASE Pay(p) /\ ~Insufficient(p)
  <2>1. -payout[p].amount \in Int /\ payout[p].amount \in Int
    BY DEF TypeOK, Rows
  <2>2. payout[p].wallet \in Wallets => balance[payout[p].wallet] + (-payout[p].amount) >= 0
    BY <1>2, <2>1 DEF Insufficient, TypeOK
  <2> QED
    BY <1>2, <2>1, <2>2, MoveKeepsBooks DEF Pay
<1> QED
  BY <1>1, <1>2 DEF Settle, money

\* Every step keeps the books.
LEMMA NextKeepsBooks == Types /\ Booked /\ [Next]_vars => Booked'
<1> SUFFICES ASSUME Types, Booked, [Next]_vars PROVE Booked'
  OBVIOUS
<1>0. TypeOK
  BY DEF Types
<1>u. ASSUME UNCHANGED <<balance, ledger, raced>> PROVE Booked'
  BY <1>u DEF Booked
<1>1. CASE WalletStep
  <2>1. ASSUME NEW w \in Wallets, NEW a \in Amounts, Credit(w, a) \/ Charge(w, a) PROVE Booked'
    <3>1. a \in Int /\ -a \in Int /\ a >= 0
      BY ConstantsAssumption
    <3>2. balance[w] \in Int
      BY <1>0 DEF TypeOK
    <3>3. CASE Credit(w, a)
      BY <1>0, <3>1, <3>3, MoveKeepsBooks DEF Credit, history
    <3>4. CASE Charge(w, a)
      <4>1. balance[w] + (-a) >= 0
        BY <3>1, <3>2, <3>4 DEF Charge
      <4> QED
        BY <1>0, <3>1, <3>4, <4>1, MoveKeepsBooks DEF Charge, history
    <3> QED
      BY <2>1, <3>3, <3>4
  <2>2. ASSUME NEW t \in TopUps, NEW w \in Wallets, InitiateTopUp(t, w) PROVE Booked'
    BY <2>2, <1>u DEF InitiateTopUp, money, history
  <2> QED
    BY <1>1, <2>1, <2>2 DEF WalletStep
<1>2. ASSUME NEW h \in Handlers, HandlerStep(h) PROVE Booked'
  <2>0. handler[h] \in Contexts /\ handler[h].amount \in Int
    BY DEF Types, Handling, Contexts, Tasks
  <2>1. CASE Debit(h)
    <3>1. -handler[h].amount \in Int
      BY <2>0
    <3>2. handler[h].wallet \in Wallets => balance[handler[h].wallet] + (-handler[h].amount) >= 0
      BY <1>0, <2>0, <2>1 DEF Debit, TypeOK
    <3> QED
      BY <1>0, <2>1, <3>1, <3>2, MoveKeepsBooks DEF Debit, history
  <2>2. CASE ConfirmTopUp(h)
    BY <1>0, <2>2, MoveKeepsBooks DEF ConfirmTopUp, Confirm, history
  <2>3. CASE CorrectBalance(h)
    <3> SUFFICES ASSUME NEW v \in Wallets \ raced' PROVE BookedOne(balance'[v], ledger'[v])
      BY DEF Booked
    <3>1. v \in Wallets \ raced /\ BookedOne(balance[v], ledger[v])
      BY <2>3 DEF CorrectBalance, Booked
    <3>2. v = handler[h].wallet => ledger[v] = handler[h].amount
      BY <2>3 DEF CorrectBalance
    <3> QED
      BY <1>0, <2>3, <3>1, <3>2 DEF CorrectBalance, TypeOK, BookedOne
  <2>4. CASE ~Debit(h) /\ ~ConfirmTopUp(h) /\ ~CorrectBalance(h)
    BY <1>2, <1>u, <2>4 DEF HandlerStep, RequestWithdrawal, ReadBalance, ListWallet, ReceiveTopUp,
      ReadPayout, CreatePayout, RefuseDebit, RefuseTopUp, SumLedger, CheckOpen, DispatchPayout,
      WriteDecision, Crash, money, history
  <2> QED
    BY <2>1, <2>2, <2>3, <2>4
<1>3. ASSUME NEW p \in Payouts, JobStep(p) PROVE Booked'
  <2>1. CASE RunPayout(p) \/ WorkerDies(p)
    BY <1>0, <2>1, SettleKeepsBooks DEF RunPayout, WorkerDies, history
  <2>2. CASE PayoutThrows(p) \/ FailPayout(p) \/ BulkApprove(p)
    BY <1>u, <2>2 DEF PayoutThrows, FailPayout, BulkApprove, money, history
  <2> QED
    BY <1>3, <2>1, <2>2 DEF JobStep
<1>4. CASE UNCHANGED vars
  BY <1>4, <1>u DEF vars, money, history
<1> QED
  BY <1>1, <1>2, <1>3, <1>4 DEF Next

LEMMA AlwaysBooked == Spec => [](Types /\ Booked)
<1>1. Init => Booked
  BY DEF Init, Booked, BookedOne
<1> QED
  BY <1>1, InitTypes, NextTypes, NextKeepsBooks, PTL DEF Spec

\* A wallet that no reconciliation wrote late holds what its ledger says ...
THEOREM LedgersAgree == Spec => []LedgerAgrees
<1>1. Booked => LedgerAgrees
  BY DEF Booked, BookedOne, LedgerAgrees
<1> QED
  BY <1>1, AlwaysBooked, PTL

\* ... and is not overdrawn, however debits overlap.
THEOREM NoWalletOverdrawn == Spec => []NeverOverdrawn
<1>1. Types /\ Booked => NeverOverdrawn
  BY DEF Types, TypeOK, Booked, BookedOne, NeverOverdrawn
<1> QED
  BY <1>1, AlwaysBooked, PTL

-----------------------------------------------------------------------------
(* Payouts, their debits and the decisions about them. *)

\* A payout with status s, d debits and decision x, overtaken or not (o).
SoundOne(s, d, x, o) ==
  /\ d <= 1
  /\ s = "completed" => d = 1
  /\ ~o => (d > 0 => s = "completed") /\ (x # "none" => s = x)

Sound ==
  \A p \in Payouts : SoundOne(payout[p].status, debits[p], decided[p], p \in overtaken)

\* The transaction of a payout leaves it sound and the others alone.
LEMMA SettleKeepsSound ==
  ASSUME TypeOK, Sound, NEW p \in Payouts, Settle(p) \/ UNCHANGED <<money, payout, debits>>,
         decided' = decided, overtaken' = overtaken
  PROVE  Sound'
<1> SUFFICES ASSUME NEW q \in Payouts
             PROVE  SoundOne(payout'[q].status, debits'[q], decided[q], q \in overtaken)
  BY DEF Sound
<1>1. /\ debits[q] \in Nat /\ payout[q] \in Rows /\ decided[q] \in {"none", "paid", "rejected"}
      /\ payout \in [Payouts -> Rows] /\ debits \in [Payouts -> Nat]
      /\ SoundOne(payout[q].status, debits[q], decided[q], q \in overtaken)
  BY DEF TypeOK, Sound
<1>2. CASE UNCHANGED <<payout, debits>>
  BY <1>1, <1>2
<1>3. ASSUME NEW s, Finish(p, s) PROVE q = p => payout'[q].status = s
  BY <1>1, <1>3 DEF Finish, Rows
<1>4. ASSUME NEW s, Finish(p, s) PROVE q # p => payout'[q] = payout[q]
  BY <1>1, <1>4 DEF Finish
<1>5. CASE IsOpen(p) /\ debits[p] > 0 /\ Finish(p, "completed") /\ UNCHANGED debits
  BY <1>1, <1>3, <1>4, <1>5 DEF IsOpen, Open, SoundOne
<1>6. CASE IsOpen(p) /\ debits[p] = 0 /\ Finish(p, "failed") /\ UNCHANGED debits
  BY <1>1, <1>3, <1>4, <1>6 DEF IsOpen, Open, SoundOne
<1>7. CASE IsOpen(p) /\ debits[p] = 0 /\ Pay(p)
  <2>1. debits' = [debits EXCEPT ![p] = 1] /\ Finish(p, "completed")
    BY <1>7 DEF Pay
  <2> QED
    BY <1>1, <1>3, <1>4, <1>7, <2>1 DEF IsOpen, Open, SoundOne
<1> QED
  BY <1>2, <1>5, <1>6, <1>7 DEF Settle, money

\* Every step keeps the payouts sound.
LEMMA NextKeepsSound == Types /\ Sound /\ [Next]_vars => Sound'
<1> SUFFICES ASSUME Types, Sound, [Next]_vars PROVE Sound'
  OBVIOUS
<1>0. TypeOK /\ payout \in [Payouts -> Rows]
  BY DEF Types, TypeOK
<1>u. ASSUME UNCHANGED <<payout, debits, decided, overtaken>> PROVE Sound'
  BY <1>u DEF Sound
<1>s. ASSUME NEW p \in Payouts, NEW s, payout' = [payout EXCEPT ![p].status = s]
      PROVE  payout'[p].status = s /\ \A q \in Payouts \ {p} : payout'[q] = payout[q]
  BY <1>0, <1>s DEF Rows
<1>1. CASE WalletStep
  BY <1>1, <1>u DEF WalletStep, Credit, Charge, InitiateTopUp, history
<1>2. ASSUME NEW h \in Handlers, HandlerStep(h) PROVE Sound'
  <2>0. handler[h] \in Contexts
    BY DEF Types, Handling
  <2>1. ASSUME NEW p \in Payouts, CreatePayout(h, p) PROVE Sound'
    <3> SUFFICES ASSUME NEW q \in Payouts
                 PROVE  SoundOne(payout'[q].status, debits[q], decided[q], q \in overtaken)
      BY <2>1 DEF CreatePayout, Sound, history
    <3>1. SoundOne(payout[q].status, debits[q], decided[q], q \in overtaken)
      BY DEF Sound
    <3>2. CASE q # p
      BY <1>0, <2>1, <3>1, <3>2 DEF CreatePayout
    <3>3. CASE q = p
      <4>1. payout[q].status = "none" /\ payout'[q].status = "pending" /\ debits[q] \in Nat
            /\ decided[q] \in {"none", "paid", "rejected"}
        BY <1>0, <2>1, <3>3 DEF CreatePayout, NoPayout, TypeOK
      <4> QED
        BY <3>1, <4>1 DEF SoundOne
    <3> QED
      BY <3>2, <3>3
  <2>2. CASE WriteDecision(h)
    <3> DEFINE p == handler[h].item
               to == handler[h].to
    <3>1. p \in Payouts /\ MayDecide(handler[h].seen, to) /\ to \in Decisions
      BY <2>0, <2>2 DEF WriteDecision, Contexts, MayDecide, Decisions
    <3> SUFFICES ASSUME NEW q \in Payouts
                 PROVE  SoundOne(payout'[q].status, debits[q], decided'[q], q \in overtaken')
      BY <2>2 DEF WriteDecision, Sound
    <3>2. /\ SoundOne(payout[q].status, debits[q], decided[q], q \in overtaken)
          /\ debits[q] \in Nat /\ decided \in [Payouts -> {"none", "paid", "rejected"}]
      BY <1>0 DEF Sound, TypeOK
    <3>3. CASE q # p
      <4>1. payout'[q] = payout[q] /\ decided'[q] = decided[q] /\ (q \in overtaken' <=> q \in overtaken)
        BY <1>0, <2>2, <3>2, <3>3 DEF WriteDecision
      <4> QED
        BY <3>2, <4>1
    <3>4. CASE q = p
      <4>1. /\ payout'[q].status = to
            /\ decided'[q] = IF to \in {"paid", "rejected"} THEN to ELSE decided[q]
            /\ q \in overtaken => q \in overtaken'
            /\ q \notin overtaken' => to # "pending" /\ payout[q].status = handler[h].seen
        BY <1>s, <2>2, <3>1, <3>2, <3>4 DEF WriteDecision
      <4>2. q \notin overtaken' => payout[q].status \in Open /\ decided[q] = "none" /\ debits[q] = 0
        BY <3>1, <3>2, <4>1 DEF MayDecide, Open, SoundOne, TypeOK
      <4> QED
        BY <3>1, <3>2, <4>1, <4>2 DEF SoundOne, Decisions
    <3> QED
      BY <3>3, <3>4
  <2>3. CASE ~WriteDecision(h) /\ ~\E p \in Payouts : CreatePayout(h, p)
    BY <1>2, <1>u, <2>3 DEF HandlerStep, RequestWithdrawal, ReadBalance, ListWallet, ReceiveTopUp,
      ReadPayout, Debit, RefuseDebit, ConfirmTopUp, Confirm, RefuseTopUp, SumLedger, CorrectBalance,
      CheckOpen, DispatchPayout, Crash, history
  <2> QED
    BY <2>1, <2>2, <2>3
<1>3. ASSUME NEW p \in Payouts, JobStep(p) PROVE Sound'
  <2>1. CASE RunPayout(p) \/ WorkerDies(p)
    BY <1>0, <2>1, SettleKeepsSound DEF RunPayout, WorkerDies, history
  <2>2. ASSUME NEW s \in {"failed", "approved"}, payout[p].status \notin Terminal,
               s = "approved" => payout[p].status = "pending",
               payout' = [payout EXCEPT ![p].status = s], UNCHANGED <<debits, decided, overtaken>>
        PROVE  Sound'
    <3> SUFFICES ASSUME NEW q \in Payouts
                 PROVE  SoundOne(payout'[q].status, debits[q], decided[q], q \in overtaken)
      BY <2>2 DEF Sound
    <3>1. /\ SoundOne(payout[q].status, debits[q], decided[q], q \in overtaken)
          /\ debits[q] \in Nat /\ decided[q] \in {"none", "paid", "rejected"}
      BY <1>0 DEF Sound, TypeOK
    <3>2. IF q = p THEN payout'[q].status = s ELSE payout'[q] = payout[q]
      BY <1>s, <2>2
    <3> QED
      BY <2>2, <3>1, <3>2 DEF SoundOne, Terminal
  <2>3. CASE BulkApprove(p)
    BY <2>2, <2>3 DEF BulkApprove, history, Terminal
  <2>4. CASE FailPayout(p)
    <3>1. CASE payout[p].status \in Terminal
      BY <1>u, <2>4, <3>1 DEF FailPayout, history
    <3>2. CASE payout[p].status \notin Terminal
      BY <2>2, <2>4, <3>2 DEF FailPayout, history
    <3> QED
      BY <3>1, <3>2
  <2>5. CASE PayoutThrows(p)
    BY <1>u, <2>5 DEF PayoutThrows, history
  <2> QED
    BY <1>3, <2>1, <2>3, <2>4, <2>5 DEF JobStep
<1>4. CASE UNCHANGED vars
  BY <1>4, <1>u DEF vars, history
<1> QED
  BY <1>1, <1>2, <1>3, <1>4 DEF Next

LEMMA AlwaysSound == Spec => [](Types /\ Sound)
<1>1. Init => Sound
  BY DEF Init, Sound, SoundOne, NoPayout
<1> QED
  BY <1>1, InitTypes, NextTypes, NextKeepsSound, PTL DEF Spec

\* A payout debits its wallet at most once, through any number of retries,
\* redeliveries, decisions and reopenings ...
THEOREM NoPayoutDebitedTwice == Spec => []DebitedOnce
<1>1. Sound => DebitedOnce
  BY DEF Sound, SoundOne, DebitedOnce
<1> QED
  BY <1>1, AlwaysSound, PTL

\* ... is completed only with that debit ...
THEOREM CompletionNeedsDebit == Spec => []CompletedIsDebited
<1>1. Sound => CompletedIsDebited
  BY DEF Sound, SoundOne, CompletedIsDebited
<1> QED
  BY <1>1, AlwaysSound, PTL

\* ... and without it once an administrator paid or rejected it undisturbed.
THEOREM DecisionExcludesDebit == Spec => []SettledOneWay
<1>1. Types /\ Sound => SettledOneWay
  BY DEF Types, TypeOK, Sound, SoundOne, SettledOneWay
<1> QED
  BY <1>1, AlwaysSound, PTL

\* A payout that nothing overtook tells the truth: it stands as completed exactly when its
\* wallet was debited for it, and as paid or rejected once an administrator said so.
StatusIsTrue ==
  \A p \in Payouts \ overtaken :
    /\ payout[p].status = "completed" <=> debits[p] = 1
    /\ decided[p] # "none" => payout[p].status = decided[p]

\* What the drivers and the administrators are shown of such a payout is what became of the
\* money, whatever jobs, exceptions and dying workers came before.
THEOREM UndisturbedStatusIsTrue == Spec => []StatusIsTrue
<1>1. Sound => StatusIsTrue
  BY DEF Sound, SoundOne, StatusIsTrue
<1> QED
  BY <1>1, AlwaysSound, PTL

\* A finished payout that changes is changed by the write of an administrator.
OnlyAdminsReopen ==
  \A p \in Payouts : payout[p].status \in Terminal /\ payout'[p] # payout[p] =>
    \E h \in Handlers : WriteDecision(h) /\ handler[h].item = p

LEMMA StepReopens == Types /\ [Next]_vars => OnlyAdminsReopen
<1> SUFFICES ASSUME Types, [Next]_vars, NEW q \in Payouts,
                    payout[q].status \in Terminal, payout'[q] # payout[q]
             PROVE  \E h \in Handlers : WriteDecision(h) /\ handler[h].item = q
  BY DEF OnlyAdminsReopen
<1>0. payout \in [Payouts -> Rows]
  BY DEF Types, TypeOK
<1>1. payout' # payout
  OBVIOUS
<1>2. ~WalletStep /\ ~UNCHANGED vars
  BY <1>1 DEF WalletStep, Credit, Charge, InitiateTopUp, vars
<1>3. ASSUME NEW p \in Payouts, payout[p].status \notin Terminal, NEW row,
             payout' = [payout EXCEPT ![p] = row]
      PROVE  FALSE
  BY <1>0, <1>3
<1>4. ASSUME NEW p \in Payouts, Settle(p) PROVE FALSE
  <2>1. ~UNCHANGED <<money, payout, debits>>
    BY <1>1
  <2>2. IsOpen(p) /\ \E s : Finish(p, s)
    BY <1>4, <2>1 DEF Settle, Pay
  <2>3. payout[p].status \notin Terminal
    BY <2>2 DEF IsOpen, Open, Terminal
  <2> QED
    BY <1>0, <2>2, <2>3 DEF Finish
<1>5. ASSUME NEW p \in Payouts, JobStep(p) PROVE FALSE
  <2>1. ~PayoutThrows(p)
    BY <1>1 DEF PayoutThrows
  <2>2. ~RunPayout(p) /\ ~WorkerDies(p)
    BY <1>1, <1>4 DEF RunPayout, WorkerDies
  <2>3. ~FailPayout(p)
    BY <1>0 DEF FailPayout
  <2>4. ~BulkApprove(p)
    BY <1>0 DEF BulkApprove, Terminal
  <2> QED
    BY <1>5, <2>1, <2>2, <2>3, <2>4 DEF JobStep
<1>6. PICK h \in Handlers : HandlerStep(h)
  BY <1>2, <1>5 DEF Next
<1>7. ASSUME NEW p \in Payouts, CreatePayout(h, p) PROVE FALSE
  BY <1>0, <1>7 DEF CreatePayout, NoPayout, Terminal
<1>8. WriteDecision(h)
  BY <1>1, <1>6, <1>7 DEF HandlerStep, RequestWithdrawal, ReadBalance, ListWallet, ReceiveTopUp,
    ReadPayout, Debit, RefuseDebit, ConfirmTopUp, Confirm, RefuseTopUp, SumLedger, CorrectBalance,
    CheckOpen, DispatchPayout, Crash
<1>9. handler[h].item = q
  BY <1>0, <1>8 DEF WriteDecision
<1> QED
  BY <1>8, <1>9

\* No job, batch or bulk approval touches a payout that is completed, failed, paid or rejected,
\* however often the queue hands the job out and in whatever state the payout is reopened.
THEOREM FinishedIsLeftAlone == Spec => [][OnlyAdminsReopen]_vars
BY StepReopens, InitTypes, NextTypes, PTL DEF Spec

-----------------------------------------------------------------------------
(* The open payouts of a wallet. *)

\* Handler h, in the state hs of the handlers, is about to insert a payout of w.
CreatingIn(hs, h, w) == hs[h].step = "create" /\ hs[h].wallet = w

\* In the rows ps with the overtaken os: no payout of w was overtaken.
CleanIn(ps, os, w) == \A p \in os : ps[p].wallet # w

OpenIn(ps, p, w) == ps[p].wallet = w /\ ps[p].status \in Open

\* One batch at most is about to insert, then no payout is open, and one at most ever is.
SingleIn(hs, ps, os, w) ==
  /\ \A h, g \in Handlers : CreatingIn(hs, h, w) /\ CreatingIn(hs, g, w) => h = g
  /\ CleanIn(ps, os, w) =>
       /\ \A p, q \in Payouts : OpenIn(ps, p, w) /\ OpenIn(ps, q, w) => p = q
       /\ \A h \in Handlers, p \in Payouts : ~(CreatingIn(hs, h, w) /\ OpenIn(ps, p, w))

Single == \A w \in Wallets \ crowded : SingleIn(handler, payout, overtaken, w)

\* A step that brings no batch to the insertion and opens no payout.
LEMMA CalmKeepsSingle ==
  ASSUME Single, overtaken \subseteq overtaken', overtaken' \subseteq Payouts, crowded \subseteq crowded',
         \A h \in Handlers : handler'[h].step = "create" => handler'[h] = handler[h],
         \A p \in Payouts : payout'[p].wallet = payout[p].wallet,
         \A p \in Payouts \ overtaken' : payout'[p].status \in Open => payout[p].status \in Open
  PROVE  Single'
<1> SUFFICES ASSUME NEW w \in Wallets \ crowded' PROVE SingleIn(handler', payout', overtaken', w)
  BY DEF Single
<1>1. SingleIn(handler, payout, overtaken, w)
  BY DEF Single
<1>2. \A h \in Handlers : CreatingIn(handler', h, w) => CreatingIn(handler, h, w)
  BY DEF CreatingIn
<1>3. CleanIn(payout', overtaken', w) => CleanIn(payout, overtaken, w)
  BY DEF CleanIn
<1>4. CleanIn(payout', overtaken', w) =>
        \A p \in Payouts : OpenIn(payout', p, w) => OpenIn(payout, p, w)
  BY DEF CleanIn, OpenIn
<1> QED
  BY <1>1, <1>2, <1>3, <1>4 DEF SingleIn

\* Every step keeps the payouts single.
LEMMA NextKeepsSingle == Types /\ Single /\ [Next]_vars => Single'
<1> SUFFICES ASSUME Types, Single, [Next]_vars PROVE Single'
  OBVIOUS
<1>0. /\ TypeOK /\ payout \in [Payouts -> Rows] /\ overtaken \subseteq Payouts
      /\ handler \in [Handlers -> Contexts] /\ \A h \in Handlers : handler[h] \in Tasks
  BY DEF Types, TypeOK, Handling, Contexts
<1>d. ASSUME NEW h \in Handlers, Done(h)
      PROVE  \A g \in Handlers : handler'[g].step = "create" => handler'[g] = handler[g]
  BY <1>0, <1>d DEF Done, Idle, Task
<1>u. ASSUME UNCHANGED <<payout, crowded, overtaken>>,
             \A g \in Handlers : handler'[g].step = "create" => handler'[g] = handler[g]
      PROVE  Single'
  BY <1>0, <1>u, CalmKeepsSingle
<1>s. ASSUME NEW p \in Payouts, NEW s, payout' = [payout EXCEPT ![p].status = s],
             UNCHANGED <<handler, crowded, overtaken>>,
             s \in Open => payout[p].status \in Open
      PROVE  Single'
  <2>1. /\ payout'[p].status = s /\ payout'[p].wallet = payout[p].wallet
        /\ \A q \in Payouts \ {p} : payout'[q] = payout[q]
    BY <1>0, <1>s DEF Rows
  <2> QED
    BY <1>0, <1>s, <2>1, CalmKeepsSingle
<1>1. CASE WalletStep
  BY <1>1, <1>u DEF WalletStep, Credit, Charge, InitiateTopUp, history
<1>2. ASSUME NEW h \in Handlers, HandlerStep(h) PROVE Single'
  <2>0. handler[h] \in Contexts /\ handler[h] \in Tasks
    BY <1>0
  <2>1. ASSUME NEW c, c.step # "create", Begin(h, c), UNCHANGED <<payout, crowded, overtaken>>
        PROVE  Single'
    BY <1>0, <1>u, <2>1 DEF Begin
  <2>2. CASE (\E w \in Wallets, a \in Amounts : RequestWithdrawal(h, w, a))
             \/ (\E w \in Wallets : ReadBalance(h, w) \/ ListWallet(h, w))
             \/ (\E t \in TopUps : ReceiveTopUp(h, t))
             \/ (\E p \in Payouts, to \in Decisions : ReadPayout(h, p, to))
    BY <2>1, <2>2 DEF RequestWithdrawal, ReadBalance, ListWallet, ReceiveTopUp, ReadPayout, Task, history
  <2>3. CASE Debit(h) \/ RefuseDebit(h) \/ ConfirmTopUp(h) \/ RefuseTopUp(h) \/ CorrectBalance(h)
             \/ DispatchPayout(h) \/ Crash(h)
    BY <2>3, <1>d, <1>u DEF Debit, RefuseDebit, ConfirmTopUp, Confirm, RefuseTopUp, CorrectBalance,
                            DispatchPayout, Crash, history
  <2>4. CASE SumLedger(h)
    <3>1. CASE Done(h)
      BY <2>4, <3>1, <1>d, <1>u DEF SumLedger, history
    <3>2. CASE ~Done(h)
      <4>1. handler' = [handler EXCEPT ![h].step = "correct", ![h].amount = ledger[handler[h].wallet]]
        BY <2>4, <3>2 DEF SumLedger
      <4>2. handler'[h].step = "correct" /\ \A g \in Handlers \ {h} : handler'[g] = handler[g]
        BY <1>0, <2>0, <4>1 DEF Tasks
      <4> QED
        BY <2>4, <4>2, <1>u DEF SumLedger, history
    <3> QED
      BY <3>1, <3>2
  <2>5. CASE CheckOpen(h)
    <3> DEFINE w == handler[h].wallet
    <3>1. /\ UNCHANGED <<payout, overtaken>>
          /\ crowded \subseteq crowded'
          /\ w \notin crowded' => ~\E g \in Handlers : CreatingIn(handler, g, w)
      BY <2>0, <2>5 DEF CheckOpen, CreatingIn, Contexts
    <3>2. CASE Done(h)
      BY <1>0, <1>d, <3>1, <3>2, CalmKeepsSingle
    <3>3. CASE ~Done(h)
      <4>1. /\ handler' = [handler EXCEPT ![h].step = "create"]
            /\ \A p \in Payouts : ~OpenIn(payout, p, w)
        BY <2>5, <3>3 DEF CheckOpen, OpenPayouts, IsOpen, OpenIn
      <4>2. /\ handler'[h].wallet = w
            /\ \A g \in Handlers \ {h} : handler'[g] = handler[g]
        BY <1>0, <2>0, <4>1 DEF Tasks
      <4> SUFFICES ASSUME NEW v \in Wallets \ crowded'
                   PROVE  SingleIn(handler', payout, overtaken, v)
        BY <3>1 DEF Single
      <4>3. SingleIn(handler, payout, overtaken, v)
        BY <3>1 DEF Single
      <4>4. CASE v = w
        BY <3>1, <4>1, <4>2, <4>3, <4>4 DEF SingleIn, CreatingIn
      <4>5. CASE v # w
        BY <4>2, <4>3, <4>5 DEF SingleIn, CreatingIn
      <4> QED
        BY <4>4, <4>5
    <3> QED
      BY <3>2, <3>3
  <2>6. ASSUME NEW p \in Payouts, CreatePayout(h, p) PROVE Single'
    <3> DEFINE w == handler[h].wallet
    <3>1. /\ w \in Wallets
          /\ payout[p].wallet = None
          /\ payout'[p].wallet = w
          /\ \A q \in Payouts \ {p} : payout'[q] = payout[q]
          /\ UNCHANGED <<crowded, overtaken>>
      BY <1>0, <2>0, <2>6 DEF CreatePayout, Contexts, NoPayout, history
    <3>2. handler'[h].step = "dispatch" /\ \A g \in Handlers \ {h} : handler'[g] = handler[g]
      BY <1>0, <2>0, <2>6 DEF CreatePayout, Tasks
    <3>3. CreatingIn(handler, h, w)
      BY <2>6 DEF CreatePayout, CreatingIn
    <3> HIDE DEF w
    <3> SUFFICES ASSUME NEW v \in Wallets \ crowded
                 PROVE  SingleIn(handler', payout', overtaken, v)
      BY <3>1 DEF Single
    <3>4. SingleIn(handler, payout, overtaken, v)
      BY DEF Single
    <3>5. \A g \in Handlers : CreatingIn(handler', g, v) => g # h /\ CreatingIn(handler, g, v)
      BY <3>2 DEF CreatingIn
    <3>6. CleanIn(payout', overtaken, v) => CleanIn(payout, overtaken, v)
      BY <1>0, <3>1, ConstantsAssumption DEF CleanIn
    <3>7. \A q \in Payouts : OpenIn(payout', q, v) => (q = p /\ v = w) \/ OpenIn(payout, q, v)
      BY <3>1 DEF OpenIn
    <3>8. CASE v = w
      BY <3>3, <3>4, <3>5, <3>6, <3>7, <3>8 DEF SingleIn
    <3>9. CASE v # w
      BY <3>4, <3>5, <3>6, <3>7, <3>9 DEF SingleIn
    <3> QED
      BY <3>8, <3>9
  <2>7. CASE WriteDecision(h)
    <3> DEFINE p == handler[h].item
               to == handler[h].to
    <3>1. p \in Payouts /\ MayDecide(handler[h].seen, to)
      BY <2>0, <2>7 DEF WriteDecision, Contexts
    <3>2. /\ payout'[p].wallet = payout[p].wallet /\ payout'[p].status = to
          /\ \A q \in Payouts \ {p} : payout'[q] = payout[q]
          /\ overtaken \subseteq overtaken' /\ overtaken' \subseteq Payouts /\ crowded' = crowded
          /\ p \notin overtaken' => to # "pending" /\ payout[p].status = handler[h].seen
      BY <1>0, <2>7, <3>1 DEF WriteDecision, Rows
    <3>3. p \notin overtaken' => payout[p].status \in Open
      BY <3>1, <3>2 DEF MayDecide, Open
    <3>4. Done(h)
      BY <2>7 DEF WriteDecision
    <3> HIDE DEF p
    <3> QED
      BY <1>d, <3>2, <3>3, <3>4, CalmKeepsSingle
  <2> QED
    BY <1>2, <2>2, <2>3, <2>4, <2>5, <2>6, <2>7 DEF HandlerStep
<1>3. ASSUME NEW p \in Payouts, JobStep(p) PROVE Single'
  <2>u. ASSUME UNCHANGED <<payout, handler, crowded, overtaken>> PROVE Single'
    BY <2>u DEF Single
  <2>1. CASE RunPayout(p) \/ WorkerDies(p)
    BY <1>s, <2>u, <2>1 DEF RunPayout, WorkerDies, Settle, Pay, Finish, history, Open
  <2>2. CASE PayoutThrows(p)
    BY <2>u, <2>2 DEF PayoutThrows, history
  <2>3. CASE FailPayout(p)
    BY <1>s, <2>u, <2>3 DEF FailPayout, history, Open
  <2>4. CASE BulkApprove(p)
    BY <1>s, <2>4 DEF BulkApprove, history, Open
  <2> QED
    BY <1>3, <2>1, <2>2, <2>3, <2>4 DEF JobStep
<1>4. CASE UNCHANGED vars
  BY <1>4 DEF vars, history, Single
<1> QED
  BY <1>1, <1>2, <1>3, <1>4 DEF Next

\* A wallet has one open payout at most, whatever batches list it, unless two
\* of them looked before either inserted or an administrator reopened one.
THEOREM PayoutsAreSingle == Spec => []OneOpenPayout
<1>1. Init => Single
  BY ConstantsAssumption DEF Init, Single, SingleIn, CreatingIn, OpenIn, Idle, Task, NoPayout, Open
<1>2. Spec => [](Types /\ Single)
  BY <1>1, InitTypes, NextTypes, NextKeepsSingle, PTL DEF Spec
<1>3. Types /\ Single => OneOpenPayout
  <2> SUFFICES ASSUME Types, Single, NEW w \in Wallets \ crowded,
                      {p \in overtaken : payout[p].wallet = w} = {}
               PROVE  Cardinality(OpenPayouts(w)) <= 1
    BY DEF OneOpenPayout
  <2>1. \A p, q \in OpenPayouts(w) : p = q
    BY DEF Single, SingleIn, CleanIn, OpenIn, OpenPayouts, IsOpen
  <2>2. CASE OpenPayouts(w) = {}
    BY <2>2, FS_EmptySet
  <2>3. ASSUME NEW p \in OpenPayouts(w) PROVE Cardinality(OpenPayouts(w)) <= 1
    <3>1. OpenPayouts(w) = {p}
      BY <2>1
    <3>2. Cardinality({p}) = 1
      BY FS_Singleton
    <3> QED
      BY <3>1, <3>2
  <2> QED
    BY <2>2, <2>3
<1> QED
  BY <1>2, <1>3, PTL

-----------------------------------------------------------------------------
(* Deposits. *)

\* The deposits of w that no webhook has confirmed, in the rows ts.
UnconfirmedIn(ts, w) == {t \in TopUps : ts[t] = [status |-> "pending", wallet |-> w]}

\* PendingIsUnconfirmed, and the wallet that a pending deposit is for.
Counted ==
  /\ \A w \in Wallets : pending[w] = Cardinality(UnconfirmedIn(topup, w))
  /\ \A t \in TopUps : topup[t].status = "pending" => topup[t].wallet \in Wallets

\* A deposit more, or one less, is counted.
LEMMA CountOne ==
  ASSUME NEW S \in SUBSET TopUps, NEW t \in TopUps
  PROVE  /\ Cardinality(S) \in Nat
         /\ t \notin S => Cardinality(S \cup {t}) = Cardinality(S) + 1
         /\ t \in S => Cardinality(S \ {t}) = Cardinality(S) - 1
<1>1. IsFiniteSet(S)
  BY ConstantsAssumption, FS_Subset
<1> QED
  BY <1>1, FS_CardinalityType, FS_AddElement, FS_RemoveElement

\* Every step keeps the deposits counted.
LEMMA NextKeepsCount == Types /\ Counted /\ [Next]_vars => Counted'
<1> SUFFICES ASSUME Types, Counted, [Next]_vars PROVE Counted'
  OBVIOUS
<1>0. topup \in [TopUps -> Deposits] /\ pending \in [Wallets -> Int]
  BY DEF Types, TypeOK
<1>u. ASSUME UNCHANGED tops PROVE Counted'
  BY <1>u DEF Counted, tops
<1>1. ASSUME NEW t \in TopUps, NEW w \in Wallets, InitiateTopUp(t, w) PROVE Counted'
  <2>1. UnconfirmedIn(topup', w) = UnconfirmedIn(topup, w) \cup {t} /\ t \notin UnconfirmedIn(topup, w)
    BY <1>0, <1>1 DEF InitiateTopUp, UnconfirmedIn
  <2>2. \A v \in Wallets \ {w} : UnconfirmedIn(topup', v) = UnconfirmedIn(topup, v)
    BY <1>0, <1>1 DEF InitiateTopUp, UnconfirmedIn
  <2>3. pending' = [pending EXCEPT ![w] = @ + 1]
    BY <1>1 DEF InitiateTopUp
  <2>4. UnconfirmedIn(topup, w) \in SUBSET TopUps
    BY DEF UnconfirmedIn
  <2>5. \A v \in Wallets : pending'[v] = Cardinality(UnconfirmedIn(topup', v))
    BY <1>0, <2>1, <2>2, <2>3, <2>4, CountOne DEF Counted
  <2>6. \A s \in TopUps : topup'[s].status = "pending" => topup'[s].wallet \in Wallets
    BY <1>0, <1>1 DEF InitiateTopUp, Counted
  <2> QED
    BY <2>5, <2>6 DEF Counted
<1>2. ASSUME NEW h \in Handlers, ConfirmTopUp(h) PROVE Counted'
  <2> DEFINE t == handler[h].item
             w == topup[t].wallet
  <2>1. /\ t \in TopUps /\ topup[t].status = "pending"
        /\ topup' = [topup EXCEPT ![t].status = "confirmed"]
        /\ pending' = [pending EXCEPT ![w] = @ - 1]
    BY <1>2 DEF ConfirmTopUp, Confirm, Types, Handling, Contexts
  <2>2. /\ topup[t] \in Deposits /\ topup[t] = [status |-> "pending", wallet |-> w] /\ w \in Wallets
        /\ topup'[t].status = "confirmed"
        /\ \A s \in TopUps \ {t} : topup'[s] = topup[s]
    BY <1>0, <2>1 DEF Deposits, Counted
  <2> HIDE DEF t, w
  <2>3. UnconfirmedIn(topup', w) = UnconfirmedIn(topup, w) \ {t} /\ t \in UnconfirmedIn(topup, w)
    BY <2>1, <2>2 DEF UnconfirmedIn
  <2>4. \A v \in Wallets \ {w} : UnconfirmedIn(topup', v) = UnconfirmedIn(topup, v)
    BY <2>1, <2>2 DEF UnconfirmedIn
  <2>5. UnconfirmedIn(topup, w) \in SUBSET TopUps
    BY DEF UnconfirmedIn
  <2>6. \A v \in Wallets : pending'[v] = Cardinality(UnconfirmedIn(topup', v))
    <3>1. Cardinality(UnconfirmedIn(topup', w)) = pending[w] - 1
      BY <2>1, <2>2, <2>3, <2>5, CountOne DEF Counted
    <3>2. \A v \in Wallets \ {w} : pending'[v] = pending[v]
      BY <1>0, <2>1
    <3>3. pending'[w] = pending[w] - 1
      BY <1>0, <2>1, <2>2
    <3> QED
      BY <2>4, <3>1, <3>2, <3>3 DEF Counted
  <2>7. \A s \in TopUps : topup'[s].status = "pending" => topup'[s].wallet \in Wallets
    BY <2>2 DEF Counted
  <2> QED
    BY <2>6, <2>7 DEF Counted
<1>3. CASE WalletStep
  BY <1>1, <1>3, <1>u DEF WalletStep, Credit, Charge
<1>4. ASSUME NEW h \in Handlers, HandlerStep(h), ~ConfirmTopUp(h) PROVE Counted'
  BY <1>4, <1>u DEF HandlerStep, RequestWithdrawal, ReadBalance, ListWallet, ReceiveTopUp, ReadPayout,
    CreatePayout, Debit, RefuseDebit, RefuseTopUp, SumLedger, CorrectBalance, CheckOpen,
    DispatchPayout, WriteDecision, Crash
<1>5. CASE \E p \in Payouts : JobStep(p)
  BY <1>5, <1>u DEF JobStep, RunPayout, PayoutThrows, FailPayout, WorkerDies, BulkApprove
<1>6. CASE UNCHANGED vars
  BY <1>6, <1>u DEF vars
<1> QED
  BY <1>2, <1>3, <1>4, <1>5, <1>6 DEF Next

\* The pending balance counts the unconfirmed deposits, however often a
\* webhook is repeated.
THEOREM DepositsConfirmedOnce == Spec => []PendingIsUnconfirmed
<1>1. Init => Counted
  <2> SUFFICES ASSUME Init PROVE Counted
    OBVIOUS
  <2>1. \A w \in Wallets : UnconfirmedIn(topup, w) = {}
    BY DEF Init, UnconfirmedIn
  <2> QED
    BY <2>1, FS_EmptySet DEF Init, Counted
<1>2. Counted => PendingIsUnconfirmed
  BY DEF Counted, PendingIsUnconfirmed, UnconfirmedIn
<1> QED
  BY <1>1, <1>2, InitTypes, NextTypes, NextKeepsCount, PTL DEF Spec
=============================================================================
