--------------------------- MODULE ApiClientProofs ---------------------------
(***************************************************************************)
(* Proofs about ApiClient for any calls and any MaxRetries: its types,     *)
(* that it implements ApiContract, that the queue holds each of its calls  *)
(* once, and what becomes of a call that is queued, answered or failed.    *)
(*                                                                         *)
(* Two facts carry the proof.  An attempt is counted once: those given up  *)
(* and those served are no more than the retries allow at the place where  *)
(* the call is.  And a queued call stays queued: the flush asks request()  *)
(* again before isOnline is set, so its items go back to the queue, which  *)
(* is why tries may start at 0 again without a further attempt.            *)
(***************************************************************************)
EXTENDS ApiClient, TLAPS

\* The attempts of c that were given up or served, against the retries.
Counted(st, tr, la, se) ==
  \A c \in Calls :
    /\ st[c] = "idle" => la[c] = 0 /\ se[c] = 0
    /\ st[c] = "sent" => la[c] + se[c] <= tr[c]
    /\ st[c] = "waiting" => tr[c] < MaxRetries /\ la[c] + se[c] <= tr[c] + 1
    /\ la[c] + se[c] <= MaxRetries + 1

\* The items of the queue and of the flush are queued calls.
Held(q, st) == \A i \in 1..Len(q) : st[q[i]] = "queued"

\* Only reads are looked up in the cache, only calls with a body are queued.
Placed(st) == \A c \in Calls : /\ st[c] \in {"lookup", "fallback"} => c \in Reads
                               /\ st[c] = "queued" => c \in Bodied

Inv == /\ TypeOK
       /\ Counted(step, tries, late, served)
       /\ Held(queue, step) /\ Held(batch, step)
       /\ flushing <=> batch # <<>>
       /\ Placed(step)

-----------------------------------------------------------------------------
LEMMA RouteTyped ==
  ASSUME NEW c \in Calls, NEW online \in BOOLEAN
  PROVE  /\ Route(c, online) \in {"sent", "lookup", "queued", "failed"}
         /\ Route(c, online) = "lookup" => c \in Reads
         /\ Route(c, online) = "queued" <=> ~online /\ c \in Bodied
         /\ Route(c, online) = "sent" <=> online
BY CallsAssumption DEF Route

\* A call that settles is not the one the flush awaits, which is queued.
LEMMA SettleAlone ==
  ASSUME Inv, NEW c \in Calls, NEW how, step[c] # "queued", Settle(c, how)
  PROVE  /\ step' = [step EXCEPT ![c] = how]
         /\ UNCHANGED <<tries, queue, batch, flushing>>
<1>1. /\ batch \in Seq(Calls) /\ flushing \in BOOLEAN /\ (flushing <=> batch # <<>>)
      /\ Held(batch, step)
  BY DEF Inv, TypeOK
<1>2. ~(flushing /\ Head(batch) = c)
  <2> SUFFICES ASSUME flushing, Head(batch) = c PROVE FALSE
    OBVIOUS
  <2>1. Len(batch) >= 1 /\ batch[1] = c
    BY <1>1
  <2> QED
    BY <1>1, <2>1 DEF Held
<1> QED
  BY <1>1, <1>2 DEF Settle

\* A call that is not queued moves without disturbing the queue.
LEMMA HeldKept ==
  ASSUME Inv, NEW c \in Calls, NEW s, step[c] # "queued", step' = [step EXCEPT ![c] = s]
  PROVE  Held(queue, step') /\ Held(batch, step')
BY DEF Inv, TypeOK, Held

\* One that is queued now is appended.
LEMMA HeldAppended ==
  ASSUME Inv, NEW c \in Calls, NEW n, step[c] # "queued", Enter(c, n, isOnline),
         queue' = Queued(queue, c, isOnline), batch' = batch
  PROVE  /\ Held(queue', step') /\ Held(batch', step')
         /\ queue' \in Seq(Calls)
<1>1. /\ step' = [step EXCEPT ![c] = Route(c, isOnline)]
      /\ queue \in Seq(Calls) /\ step \in [Calls -> Step]
  BY DEF Enter, Inv, TypeOK
<1>2. Held(queue, step') /\ Held(batch, step')
  BY <1>1, HeldKept
<1>3. CASE queue' = queue
  BY <1>1, <1>2, <1>3
<1>4. CASE queue' = Append(queue, c) /\ Route(c, isOnline) = "queued"
  <2>1. /\ Len(queue') = Len(queue) + 1 /\ Len(queue) \in Nat
        /\ \A i \in 1..Len(queue) : queue'[i] = queue[i]
        /\ queue'[Len(queue) + 1] = c
        /\ queue' \in Seq(Calls)
    BY <1>1, <1>4
  <2>2. step'[c] = "queued"
    BY <1>1, <1>4
  <2> QED
    BY <1>2, <2>1, <2>2 DEF Held
<1> QED
  BY <1>3, <1>4 DEF Queued

\* The flush starts while isOnline is false: its first item goes back to the queue.
LEMMA FlushHeld ==
  ASSUME Inv, Flush(FALSE)
  PROVE  /\ step' = step
         /\ tries' \in [Calls -> 0..MaxRetries]
         /\ \A c \in Calls : step[c] # "queued" => tries'[c] = tries[c]
         /\ queue' \in Seq(Calls) /\ batch' \in Seq(Calls)
         /\ flushing' \in BOOLEAN /\ (flushing' <=> batch' # <<>>)
         /\ Held(queue', step) /\ Held(batch', step)
<1>1. /\ queue \in Seq(Calls) /\ batch \in Seq(Calls) /\ flushing \in BOOLEAN
      /\ step \in [Calls -> Step] /\ tries \in [Calls -> 0..MaxRetries]
      /\ Held(queue, step) /\ Held(batch, step) /\ (flushing <=> batch # <<>>)
      /\ Placed(step)
  BY DEF Inv, TypeOK
<1>2. CASE flushing \/ queue = <<>>
  BY <1>1, <1>2 DEF Flush, flush
<1>3. CASE ~(flushing \/ queue = <<>>)
  <2> DEFINE h == Head(queue)
  <2>1. h \in Calls /\ h = queue[1] /\ Len(queue) >= 1
    BY <1>1, <1>3
  <2>2. step[h] = "queued"
    BY <1>1, <2>1 DEF Held
  <2>3. Route(h, FALSE) = "queued"
    BY <1>1, <2>1, <2>2, RouteTyped DEF Placed
  <2>4. /\ flushing' = TRUE /\ batch' = queue
        /\ step' = [step EXCEPT ![h] = "queued"] /\ tries' = [tries EXCEPT ![h] = 0]
        /\ queue' = Append(<<>>, h)
    BY <1>3, <2>3 DEF Flush, Enter, Queued
  <2> HIDE DEF h
  <2>5. step' = step
    BY <1>1, <2>1, <2>2, <2>4
  <2>6. /\ queue' \in Seq(Calls) /\ Len(queue') = 1 /\ queue'[1] = h
    BY <2>1, <2>4
  <2>7. Held(queue', step)
    BY <2>2, <2>6 DEF Held
  <2>8. /\ tries' \in [Calls -> 0..MaxRetries]
        /\ \A c \in Calls : step[c] # "queued" => tries'[c] = tries[c]
    BY <1>1, <2>1, <2>2, <2>4, CallsAssumption
  <2> QED
    BY <1>1, <1>3, <2>4, <2>5, <2>6, <2>7, <2>8
<1> QED
  BY <1>2, <1>3

-----------------------------------------------------------------------------
LEMMA InitInv == Init => Inv
<1> SUFFICES ASSUME Init PROVE Inv
  OBVIOUS
<1>1. TypeOK
  <2>1. 0 \in Attempts /\ 0 \in 0..MaxRetries
    BY CallsAssumption DEF Attempts
  <2>2. <<>> \in Seq(Calls)
    OBVIOUS
  <2> QED
    BY <2>1, <2>2 DEF Init, TypeOK, Step
<1>2. Counted(step, tries, late, served)
  BY CallsAssumption DEF Init, Counted
<1>3. Held(queue, step) /\ Held(batch, step) /\ (flushing <=> batch # <<>>) /\ Placed(step)
  BY DEF Init, Held, Placed
<1> QED
  BY <1>1, <1>2, <1>3 DEF Inv

\* A call moves alone to s, and its attempts are counted as before or one more.
LEMMA MoveInv ==
  ASSUME Inv, NEW c \in Calls, NEW s \in Step \ {"queued"},
         step[c] # "queued", step' = [step EXCEPT ![c] = s],
         UNCHANGED <<tries, queue, batch, flushing>>,
         isOnline' \in BOOLEAN, fresh' \in BOOLEAN,
         late' \in [Calls -> Attempts], served' \in [Calls -> Attempts],
         s \in {"lookup", "fallback"} => c \in Reads,
         \A d \in Calls \ {c} : late'[d] = late[d] /\ served'[d] = served[d],
         s \notin {"idle", "sent"},
         s = "waiting" => tries[c] < MaxRetries /\ late'[c] + served'[c] <= tries[c] + 1,
         late'[c] + served'[c] <= MaxRetries + 1
  PROVE  Inv'
<1>1. /\ TypeOK' /\ (flushing' <=> batch' # <<>>)
  BY DEF Inv, TypeOK
<1>2. Counted(step', tries', late', served')
  BY DEF Inv, TypeOK, Counted
<1>3. Held(queue', step') /\ Held(batch', step')
  BY HeldKept
<1>4. Placed(step')
  BY DEF Inv, TypeOK, Placed
<1> QED
  BY <1>1, <1>2, <1>3, <1>4 DEF Inv

\* A call enters request(), for the first time or once more.
LEMMA EnterInv ==
  ASSUME Inv, NEW c \in Calls, NEW n \in 0..MaxRetries, step[c] # "queued",
         Enter(c, n, isOnline), queue' = Queued(queue, c, isOnline),
         UNCHANGED <<isOnline, late, served, flush, fresh>>,
         late[c] + served[c] <= n
  PROVE  Inv'
<1>1. /\ isOnline \in BOOLEAN /\ step \in [Calls -> Step] /\ tries \in [Calls -> 0..MaxRetries]
      /\ late \in [Calls -> Attempts] /\ served \in [Calls -> Attempts]
      /\ step' = [step EXCEPT ![c] = Route(c, isOnline)] /\ tries' = [tries EXCEPT ![c] = n]
      /\ UNCHANGED <<isOnline, late, served, batch, flushing, fresh>>
  BY DEF Inv, TypeOK, Enter, flush
<1>2. /\ Route(c, isOnline) \in {"sent", "lookup", "queued", "failed"}
      /\ Route(c, isOnline) = "lookup" => c \in Reads
      /\ Route(c, isOnline) = "queued" => c \in Bodied
  BY <1>1, RouteTyped
<1>3. Held(queue', step') /\ Held(batch', step') /\ queue' \in Seq(Calls)
  BY <1>1, HeldAppended
<1>4. TypeOK'
  BY <1>1, <1>2, <1>3 DEF Inv, TypeOK, Step, Settled
<1>5. Counted(step', tries', late', served')
  <2> SUFFICES ASSUME NEW d \in Calls
               PROVE  /\ step'[d] = "idle" => late'[d] = 0 /\ served'[d] = 0
                      /\ step'[d] = "sent" => late'[d] + served'[d] <= tries'[d]
                      /\ step'[d] = "waiting" => /\ tries'[d] < MaxRetries
                                                 /\ late'[d] + served'[d] <= tries'[d] + 1
                      /\ late'[d] + served'[d] <= MaxRetries + 1
    BY DEF Counted
  <2>1. CASE d = c
    BY <1>1, <1>2, <2>1, CallsAssumption DEF Inv, Counted
  <2>2. CASE d # c
    BY <1>1, <2>2 DEF Inv, Counted
  <2> QED
    BY <2>1, <2>2
<1>6. Placed(step')
  BY <1>1, <1>2 DEF Inv, Placed
<1> QED
  BY <1>1, <1>3, <1>4, <1>5, <1>6 DEF Inv

LEMMA StepInv == Inv /\ [Next]_vars => Inv'
<1> SUFFICES ASSUME Inv, [Next]_vars PROVE Inv'
  OBVIOUS
<1>0. /\ isOnline \in BOOLEAN /\ flushing \in BOOLEAN /\ fresh \in BOOLEAN
      /\ step \in [Calls -> Step] /\ tries \in [Calls -> 0..MaxRetries]
      /\ late \in [Calls -> Attempts] /\ served \in [Calls -> Attempts]
  BY DEF Inv, TypeOK
<1>1. \A c \in Calls : /\ step[c] = "idle" => late[c] = 0 /\ served[c] = 0
                       /\ step[c] = "sent" => late[c] + served[c] <= tries[c]
                       /\ step[c] = "waiting" => /\ tries[c] < MaxRetries
                                                 /\ late[c] + served[c] <= tries[c] + 1
                       /\ late[c] + served[c] <= MaxRetries + 1
                       /\ late[c] \in Nat /\ served[c] \in Nat /\ tries[c] \in 0..MaxRetries
  BY <1>0 DEF Inv, Counted, Attempts
<1>2. MaxRetries \in Nat
  BY CallsAssumption
<1>3. ASSUME NEW c \in Calls, Request(c) PROVE Inv'
  BY <1>1, <1>2, <1>3, EnterInv DEF Request
<1>4. ASSUME NEW c \in Calls, Retry(c) PROVE Inv'
  <2>1. step[c] = "waiting" /\ tries[c] + 1 \in 0..MaxRetries /\ late[c] + served[c] <= tries[c] + 1
    BY <1>1, <1>2, <1>4 DEF Retry
  <2> QED
    BY <1>4, <2>1, EnterInv DEF Retry
<1>5. ASSUME NEW c \in Calls, NEW how \in Settled, step[c] # "queued", Settle(c, how),
             isOnline' = isOnline, fresh' \in BOOLEAN,
             late' \in [Calls -> Attempts], served' \in [Calls -> Attempts],
             \A d \in Calls \ {c} : late'[d] = late[d] /\ served'[d] = served[d],
             late'[c] + served'[c] <= MaxRetries + 1
      PROVE  Inv'
  <2>1. step' = [step EXCEPT ![c] = how] /\ UNCHANGED <<tries, queue, batch, flushing>>
    BY <1>5, SettleAlone
  <2>2. how \in Step \ {"queued"} /\ how \notin {"lookup", "fallback", "idle", "sent", "waiting"}
    BY <1>5 DEF Step, Settled
  <2> QED
    BY <1>0, <1>5, <2>1, <2>2, MoveInv
<1>6. ASSUME NEW c \in Calls, Receive(c) PROVE Inv'
  <2>1. PICK ok \in BOOLEAN : /\ served' = [served EXCEPT ![c] = IF ok THEN @ + 1 ELSE @]
                             /\ Settle(c, IF ok THEN "answered" ELSE "failed")
                             /\ fresh' = (fresh \/ (c \in Reads /\ ok))
    BY <1>6 DEF Receive
  <2>2. step[c] = "sent" /\ UNCHANGED <<isOnline, late>>
    BY <1>6 DEF Receive
  <2>3. late[c] + served[c] <= MaxRetries /\ served[c] + 1 \in Attempts
    BY <1>1, <1>2, <2>2 DEF Attempts
  <2>4. /\ served' \in [Calls -> Attempts] /\ \A d \in Calls \ {c} : served'[d] = served[d]
        /\ served'[c] \in {served[c], served[c] + 1}
    BY <1>0, <2>1, <2>3
  <2>5. late'[c] + served'[c] <= MaxRetries + 1
    BY <1>1, <1>2, <2>2, <2>3, <2>4
  <2>6. fresh' \in BOOLEAN /\ (IF ok THEN "answered" ELSE "failed") \in Settled
    BY <1>0, <2>1 DEF Settled
  <2> QED
    BY <1>0, <1>5, <2>1, <2>2, <2>4, <2>5, <2>6
<1>7. ASSUME NEW c \in Calls, LoseAttempt(c) PROVE Inv'
  <2>1. /\ step[c] = "sent" /\ UNCHANGED <<isOnline, served, fresh>>
        /\ late' = [late EXCEPT ![c] = @ + 1]
    BY <1>7 DEF LoseAttempt
  <2>2. late[c] + served[c] <= tries[c] /\ late[c] + 1 \in Attempts
    BY <1>1, <1>2, <2>1 DEF Attempts
  <2>3. /\ late' \in [Calls -> Attempts] /\ \A d \in Calls \ {c} : late'[d] = late[d]
        /\ late'[c] = late[c] + 1
    BY <1>0, <2>1, <2>2
  <2>4. late'[c] + served'[c] <= tries[c] + 1 /\ late'[c] + served'[c] <= MaxRetries + 1
    BY <1>1, <1>2, <2>1, <2>2, <2>3
  <2>5. CASE tries[c] < MaxRetries
    <3>1. step' = [step EXCEPT ![c] = "waiting"] /\ UNCHANGED <<tries, queue, batch, flushing>>
      BY <1>7, <2>5 DEF LoseAttempt, flush
    <3>2. "waiting" \in Step \ {"queued"}
      BY DEF Step
    <3> QED
      BY <1>0, <2>1, <2>3, <2>4, <2>5, <3>1, <3>2, MoveInv
  <2>6. CASE ~(tries[c] < MaxRetries) /\ c \in Reads
    <3>1. step' = [step EXCEPT ![c] = "fallback"] /\ UNCHANGED <<tries, queue, batch, flushing>>
      BY <1>7, <2>6 DEF LoseAttempt, flush
    <3>2. "fallback" \in Step \ {"queued"}
      BY DEF Step
    <3> QED
      BY <1>0, <2>1, <2>3, <2>4, <2>6, <3>1, <3>2, MoveInv
  <2>7. CASE ~(tries[c] < MaxRetries \/ c \in Reads)
    BY <1>0, <1>5, <1>7, <2>1, <2>3, <2>4, <2>7 DEF LoseAttempt, Settled
  <2> QED
    BY <2>5, <2>6, <2>7
<1>8. ASSUME NEW c \in Calls, RetryOffline(c) PROVE Inv'
  BY <1>0, <1>1, <1>5, <1>8 DEF RetryOffline, Settled
<1>9. ASSUME NEW c \in Calls, Lookup(c) PROVE Inv'
  BY <1>0, <1>1, <1>5, <1>9 DEF Lookup, Settled
<1>10. ASSUME NEW c \in Calls, ServeLate(c) PROVE Inv'
  <2>1. /\ late[c] > 0
        /\ late' = [late EXCEPT ![c] = @ - 1] /\ served' = [served EXCEPT ![c] = @ + 1]
        /\ UNCHANGED <<isOnline, step, tries, queue, batch, flushing, fresh>>
    BY <1>10 DEF ServeLate, flush
  <2>2. late[c] - 1 \in Attempts /\ served[c] + 1 \in Attempts
    BY <1>1, <1>2, <2>1 DEF Attempts
  <2>3. /\ late' \in [Calls -> Attempts] /\ served' \in [Calls -> Attempts]
        /\ \A d \in Calls \ {c} : late'[d] = late[d] /\ served'[d] = served[d]
        /\ late'[c] = late[c] - 1 /\ served'[c] = served[c] + 1
    BY <1>0, <2>1, <2>2
  <2>4. TypeOK'
    BY <2>1, <2>3 DEF Inv, TypeOK
  <2>5. Counted(step', tries', late', served')
    BY <1>1, <1>2, <2>1, <2>3 DEF Counted
  <2> QED
    BY <2>1, <2>4, <2>5 DEF Inv
<1>11. CASE NetInfo
  <2>1. UNCHANGED <<late, served, fresh>> /\ isOnline' \in BOOLEAN
    BY <1>11 DEF NetInfo
  <2>2. CASE UNCHANGED <<step, tries, queue, flush>>
    BY <2>1, <2>2 DEF Inv, TypeOK, flush
  <2>3. CASE Flush(FALSE)
    <3>1. TypeOK'
      BY <1>0, <2>1, <2>3, FlushHeld DEF TypeOK
    <3>2. Counted(step', tries', late', served')
      BY <1>1, <2>1, <2>3, FlushHeld DEF Counted
    <3>3. Held(queue', step') /\ Held(batch', step') /\ (flushing' <=> batch' # <<>>) /\ Placed(step')
      BY <2>3, FlushHeld DEF Inv
    <3> QED
      BY <3>1, <3>2, <3>3 DEF Inv
  <2>4. UNCHANGED <<step, tries, queue, flush>> \/ (~isOnline /\ Flush(isOnline))
    BY <1>11 DEF NetInfo
  <2>5. ~isOnline => isOnline = FALSE
    BY <1>0
  <2> QED
    BY <2>2, <2>3, <2>4, <2>5
<1>12. CASE CopyExpires \/ UNCHANGED vars
  <2>1. /\ UNCHANGED <<isOnline, step, tries, late, served, queue, batch, flushing>>
        /\ fresh' \in BOOLEAN
    BY <1>0, <1>12 DEF CopyExpires, vars, flush
  <2>2. TypeOK'
    BY <2>1 DEF Inv, TypeOK
  <2> QED
    BY <2>1, <2>2 DEF Inv
<1> QED
  BY <1>3, <1>4, <1>6, <1>7, <1>8, <1>9, <1>10, <1>11, <1>12 DEF Next

LEMMA InvAlways == Spec => []Inv
BY InitInv, StepInv, PTL DEF Spec

\* The calls, their attempts and the queue stay well typed: in particular no call is served or
\* given up more often than its retries allow.
THEOREM TypeCorrect == Spec => []TypeOK
<1>1. Inv => TypeOK
  BY DEF Inv
<1> QED
  BY <1>1, InvAlways, PTL

-----------------------------------------------------------------------------
(* The refinement. *)

OutcomeOf(s) == IF s = "idle" THEN "none" ELSE IF s \in Settled THEN s ELSE "open"

Mapped == [c \in Calls |-> Outcome(c)]

LEMMA MappedIs ==
  /\ \A c \in Calls : Outcome(c) = OutcomeOf(step[c])
  /\ Mapped = [c \in Calls |-> OutcomeOf(step[c])]
  /\ Mapped' = [c \in Calls |-> OutcomeOf(step'[c])]
BY DEF Outcome, OutcomeOf, Mapped, Settled

\* A call that moves to s has the outcome of s, the others keep theirs.
LEMMA MappedMove ==
  ASSUME step \in [Calls -> Step], NEW c \in Calls, NEW s, step' = [step EXCEPT ![c] = s]
  PROVE  Mapped' = [Mapped EXCEPT ![c] = OutcomeOf(s)]
<1>1. \A d \in Calls : step'[d] = IF d = c THEN s ELSE step[d]
  OBVIOUS
<1> QED
  BY <1>1, MappedIs

LEMMA InitMaps == Init => Contract!Init
<1> SUFFICES ASSUME Init PROVE Contract!Init
  OBVIOUS
<1>1. Mapped = [c \in Calls |-> "none"]
  BY MappedIs DEF Init, OutcomeOf
<1> QED
  BY <1>1 DEF Init, Contract!Init, Mapped

\* Every step of the client is a step of the contract or leaves outcomes and servings alone.
LEMMA StepMaps == Inv /\ [Next]_vars => [Contract!Next]_(Contract!vars)
<1> SUFFICES ASSUME Inv, [Next]_vars PROVE Contract!Next \/ UNCHANGED <<Mapped, served>>
  BY DEF Contract!vars, Mapped
<1>0. /\ step \in [Calls -> Step] /\ served \in [Calls -> Attempts] /\ late \in [Calls -> Attempts]
      /\ isOnline \in BOOLEAN /\ fresh \in BOOLEAN /\ tries \in [Calls -> 0..MaxRetries]
  BY DEF Inv, TypeOK
<1>1. \A c \in Calls : /\ step[c] = "idle" => late[c] = 0
                       /\ step[c] = "sent" => late[c] + served[c] <= tries[c]
                       /\ late[c] + served[c] <= MaxRetries + 1
                       /\ late[c] \in Nat /\ served[c] \in Nat /\ tries[c] \in 0..MaxRetries
                       /\ step[c] \in {"lookup", "fallback"} => c \in Reads
  BY <1>0 DEF Inv, Counted, Attempts, Placed
<1>2. MaxRetries \in Nat
  BY CallsAssumption
<1>3. \A c \in Calls : Mapped[c] = OutcomeOf(step[c])
  BY MappedIs
<1>4. ASSUME step' = step, served' = served PROVE UNCHANGED <<Mapped, served>>
  BY <1>4, MappedIs
<1>5. ASSUME NEW c \in Calls, NEW s \in {"sent", "waiting", "fallback", "lookup", "queued"},
             step[c] \in {"sent", "waiting"}, step' = [step EXCEPT ![c] = s], served' = served
      PROVE  UNCHANGED <<Mapped, served>>
  <2>1. OutcomeOf(s) = "open" /\ OutcomeOf(step[c]) = "open"
    BY <1>5 DEF OutcomeOf, Settled
  <2>2. Mapped' = [Mapped EXCEPT ![c] = "open"] /\ Mapped[c] = "open"
    BY <1>0, <1>3, <1>5, <2>1, MappedMove
  <2> QED
    BY <1>5, <2>2 DEF Mapped
<1>6. ASSUME NEW c \in Calls, step[c] \notin {"idle", "queued"} \cup Settled, Settle(c, "failed"),
             served' = served
      PROVE  Contract!Next
  <2>1. step' = [step EXCEPT ![c] = "failed"]
    BY <1>6, SettleAlone
  <2>2. /\ Mapped[c] = "open" /\ Mapped' = [Mapped EXCEPT ![c] = "failed"]
    BY <1>0, <1>3, <1>6, <2>1, MappedMove DEF OutcomeOf, Settled
  <2> QED
    BY <1>6, <2>2 DEF Contract!Next, Contract!Fail, Contract!Set, Mapped
<1>7. ASSUME NEW c \in Calls, Request(c) PROVE Contract!Next
  <2>1. PICK s \in {"sent", "lookup", "queued", "failed"} : step' = [step EXCEPT ![c] = s]
    BY <1>0, <1>7, RouteTyped DEF Request, Enter
  <2>2. PICK o \in {"open", "failed"} : o = OutcomeOf(s)
    BY DEF OutcomeOf, Settled
  <2>3. /\ Mapped[c] = "none" /\ Mapped' = [Mapped EXCEPT ![c] = o] /\ served' = served
    BY <1>0, <1>3, <1>7, <2>1, <2>2, MappedMove DEF OutcomeOf, Request
  <2>4. Contract!Make(c, o)
    BY <2>3 DEF Contract!Make, Contract!Set, Mapped
  <2> QED
    BY <2>4 DEF Contract!Next, Contract!Outcome
<1>8. ASSUME NEW c \in Calls, Receive(c) PROVE Contract!Next
  <2>0. step[c] = "sent" /\ served[c] <= MaxRetries
    BY <1>1, <1>2, <1>8 DEF Receive
  <2>1. PICK ok \in BOOLEAN : /\ served' = [served EXCEPT ![c] = IF ok THEN @ + 1 ELSE @]
                             /\ Settle(c, IF ok THEN "answered" ELSE "failed")
    BY <1>8 DEF Receive
  <2>2. CASE ok
    <3>1. step' = [step EXCEPT ![c] = "answered"] /\ served' = [served EXCEPT ![c] = @ + 1]
      BY <2>0, <2>1, <2>2, SettleAlone
    <3>2. Mapped[c] = "open" /\ Mapped' = [Mapped EXCEPT ![c] = "answered"]
      BY <1>0, <1>3, <2>0, <3>1, MappedMove DEF OutcomeOf, Settled
    <3> QED
      BY <2>0, <3>1, <3>2 DEF Contract!Next, Contract!ServeAndAnswer, Mapped
  <2>3. CASE ~ok
    <3>1. Settle(c, "failed") /\ served' = served
      BY <1>0, <2>1, <2>3
    <3> QED
      BY <1>6, <2>0, <3>1 DEF Settled
  <2> QED
    BY <2>2, <2>3
<1>9. ASSUME NEW c \in Calls, LoseAttempt(c) PROVE Contract!Next \/ UNCHANGED <<Mapped, served>>
  <2>1. step[c] = "sent" /\ served' = served
    BY <1>9 DEF LoseAttempt
  <2>2. \/ \E s \in {"waiting", "fallback"} : step' = [step EXCEPT ![c] = s]
        \/ Settle(c, "failed")
    BY <1>9 DEF LoseAttempt
  <2> QED
    BY <1>5, <1>6, <2>1, <2>2 DEF Settled
<1>10. ASSUME NEW c \in Calls, Retry(c) PROVE UNCHANGED <<Mapped, served>>
  <2>1. PICK s \in {"sent", "lookup", "queued"} : step' = [step EXCEPT ![c] = s]
    BY <1>0, <1>10, RouteTyped DEF Retry, Enter
  <2>2. step[c] = "waiting" /\ served' = served
    BY <1>10 DEF Retry
  <2> QED
    BY <1>5, <2>1, <2>2
<1>11. ASSUME NEW c \in Calls, RetryOffline(c) PROVE Contract!Next
  BY <1>6, <1>11 DEF RetryOffline, Settled
<1>12. ASSUME NEW c \in Calls, Lookup(c) PROVE Contract!Next
  <2>1. step[c] \in {"lookup", "fallback"} /\ c \in Reads /\ served' = served
    BY <1>1, <1>12 DEF Lookup
  <2>2. CASE fresh
    <3>1. step' = [step EXCEPT ![c] = "answered"]
      BY <1>12, <2>1, <2>2, SettleAlone DEF Lookup
    <3>2. Mapped[c] = "open" /\ Mapped' = [Mapped EXCEPT ![c] = "answered"]
      BY <1>0, <1>3, <2>1, <3>1, MappedMove DEF OutcomeOf, Settled
    <3> QED
      BY <2>1, <3>2 DEF Contract!Next, Contract!Answer, Contract!Set, Mapped
  <2>3. CASE ~fresh
    BY <1>6, <1>12, <2>1, <2>3 DEF Lookup, Settled
  <2> QED
    BY <2>2, <2>3
<1>13. ASSUME NEW c \in Calls, ServeLate(c) PROVE Contract!Next
  <2>1. /\ step' = step /\ served' = [served EXCEPT ![c] = @ + 1] /\ late[c] > 0
    BY <1>13 DEF ServeLate
  <2>2. step[c] # "idle" /\ served[c] <= MaxRetries
    BY <1>1, <1>2, <2>1
  <2>3. Mapped[c] # "none" /\ Mapped' = Mapped
    BY <1>3, <2>1, <2>2, MappedIs DEF OutcomeOf, Settled
  <2> QED
    BY <2>1, <2>2, <2>3 DEF Contract!Next, Contract!Serve, Mapped
<1>14. CASE NetInfo \/ CopyExpires \/ UNCHANGED vars
  <2>1. served' = served
    BY <1>14 DEF NetInfo, CopyExpires, vars
  <2>2. step' = step
    <3>1. CASE NetInfo
      <4>1. ~isOnline => isOnline = FALSE
        BY <1>0
      <4> QED
        BY <3>1, <4>1, FlushHeld DEF NetInfo
    <3> QED
      BY <1>14, <3>1 DEF CopyExpires, vars
  <2> QED
    BY <1>4, <2>1, <2>2
<1> QED
  BY <1>7, <1>8, <1>9, <1>10, <1>11, <1>12, <1>13, <1>14 DEF Next

\* For any calls and any number of retries the client does what a screen may rely on: a call
\* settles once, an answer stands for a serving or a copy, and no call is served more than
\* MaxRetries + 1 times.
THEOREM ContractHolds == Spec => ImplementsContract
BY InitMaps, StepMaps, InvAlways, PTL DEF Spec, ImplementsContract, Contract!Spec

-----------------------------------------------------------------------------
(* The queue. *)

LEMMA SequenceIs ==
  ASSUME NEW S, NEW q \in Seq(S), NEW t \in Seq(S)
  PROVE  /\ q \o t \in Seq(S) /\ Len(q \o t) = Len(q) + Len(t)
         /\ Len(q) \in Nat /\ Len(t) \in Nat
         /\ \A i \in 1..Len(q) : (q \o t)[i] = q[i]
         /\ \A i \in 1..Len(t) : (q \o t)[Len(q) + i] = t[i]
         /\ DOMAIN (q \o t) = 1..(Len(q) + Len(t))
OBVIOUS

\* A new element may be put in anywhere.
LEMMA InsertInjective ==
  ASSUME NEW S, NEW q \in Seq(S), NEW t \in Seq(S), NEW c \in S,
         IsInjective(q \o t), c \notin ToSet(q \o t)
  PROVE  /\ IsInjective(Append(q, c) \o t)
         /\ ToSet(Append(q, c) \o t) = ToSet(q \o t) \cup {c}
<1> DEFINE a == q \o t
           b == Append(q, c) \o t
           n == Len(q)
           m == Len(t)
           At(i) == IF i <= n THEN i ELSE i - 1
<1>1. /\ n \in Nat /\ m \in Nat
      /\ DOMAIN a = 1..(n + m) /\ DOMAIN b = 1..(n + m + 1)
      /\ b[n + 1] = c
      /\ \A i \in 1..n : b[i] = a[i]
      /\ \A i \in (n + 2)..(n + m + 1) : b[i] = a[i - 1]
  <2>1. /\ Append(q, c) \in Seq(S) /\ Len(Append(q, c)) = n + 1 /\ n \in Nat /\ m \in Nat
        /\ Append(q, c)[n + 1] = c /\ \A i \in 1..n : Append(q, c)[i] = q[i]
    OBVIOUS
  <2>2. /\ DOMAIN a = 1..(n + m)
        /\ \A i \in 1..n : a[i] = q[i]
        /\ \A i \in 1..m : a[n + i] = t[i]
    BY SequenceIs
  <2>3. /\ DOMAIN b = 1..(n + 1 + m)
        /\ \A i \in 1..(n + 1) : b[i] = Append(q, c)[i]
        /\ \A i \in 1..m : b[n + 1 + i] = t[i]
    BY <2>1, SequenceIs
  <2> HIDE DEF a, b, n, m
  <2>4. ASSUME NEW i \in (n + 2)..(n + m + 1) PROVE b[i] = a[i - 1]
    <3>1. i - 1 - n \in 1..m /\ n + 1 + (i - 1 - n) = i /\ n + (i - 1 - n) = i - 1
      BY <2>1
    <3> QED
      BY <2>2, <2>3, <3>1
  <2> QED
    BY <2>1, <2>2, <2>3, <2>4
<1> HIDE DEF a, b, n, m
<1>2. \A i \in DOMAIN b : i # n + 1 => At(i) \in DOMAIN a /\ b[i] = a[At(i)]
  BY <1>1
<1>3. \A i \in DOMAIN a : a[i] # c
  BY DEF ToSet, a
<1>4. \A i, j \in DOMAIN a : a[i] = a[j] => i = j
  BY DEF IsInjective, a
<1>5. \A i, j \in DOMAIN b : b[i] = b[j] => i = j
  <2> SUFFICES ASSUME NEW i \in DOMAIN b, NEW j \in DOMAIN b, b[i] = b[j] PROVE i = j
    OBVIOUS
  <2>1. CASE i = n + 1 \/ j = n + 1
    BY <1>1, <1>2, <1>3, <2>1
  <2>2. CASE i # n + 1 /\ j # n + 1
    <3>1. At(i) = At(j)
      BY <1>2, <1>4, <2>2
    <3> QED
      BY <1>1, <2>2, <3>1
  <2> QED
    BY <2>1, <2>2
<1>6. \A x : (\E i \in DOMAIN b : b[i] = x) <=> (\E i \in DOMAIN a : a[i] = x) \/ x = c
  <2> SUFFICES ASSUME NEW x PROVE (\E i \in DOMAIN b : b[i] = x) <=> (\E i \in DOMAIN a : a[i] = x) \/ x = c
    OBVIOUS
  <2>1. ASSUME NEW i \in DOMAIN b, b[i] = x PROVE (\E j \in DOMAIN a : a[j] = x) \/ x = c
    BY <1>1, <1>2, <2>1
  <2>2. ASSUME NEW i \in DOMAIN a, a[i] = x PROVE \E j \in DOMAIN b : b[j] = x
    <3>1. CASE i <= n
      BY <1>1, <2>2, <3>1
    <3>2. CASE ~(i <= n)
      <4>1. i + 1 \in (n + 2)..(n + m + 1) /\ (i + 1) - 1 = i
        BY <1>1, <3>2
      <4> DEFINE j == i + 1
      <4>2. j \in DOMAIN b /\ j \in (n + 2)..(n + m + 1) /\ j - 1 = i
        BY <1>1, <4>1
      <4> HIDE DEF j
      <4>3. b[j] = a[j - 1]
        BY <1>1, <4>2
      <4> QED
        BY <2>2, <4>2, <4>3
    <3> QED
      BY <3>1, <3>2
  <2>3. n + 1 \in DOMAIN b /\ b[n + 1] = c
    BY <1>1
  <2> QED
    BY <2>1, <2>2, <2>3
<1>7. IsInjective(b)
  BY <1>5 DEF IsInjective
<1>8. ToSet(b) = ToSet(a) \cup {c}
  BY <1>6 DEF ToSet
<1> QED
  BY <1>7, <1>8 DEF a, b

\* The items that the queue holds, or the flush beyond the one it awaits.
HeldIn(q, b) == q \o IF b = <<>> THEN <<>> ELSE Tail(b)

QueuedCalls(st) == {c \in Calls : st[c] = "queued"}

HeldOnce(q, b, st) == IsInjective(HeldIn(q, b)) /\ ToSet(HeldIn(q, b)) = QueuedCalls(st)

LEMMA QueuedOnceIs == QueuedOnce <=> HeldOnce(queue, batch, step)
BY DEF QueuedOnce, HeldOnce, HeldIn, QueuedCalls

\* A call that was not queued goes elsewhere than to the queue.
LEMMA QueuedSame ==
  ASSUME Inv, HeldOnce(queue, batch, step), NEW c \in Calls, NEW s, s # "queued",
         step[c] # "queued", step' = [step EXCEPT ![c] = s], UNCHANGED <<queue, batch>>
  PROVE  HeldOnce(queue', batch', step')
<1>1. QueuedCalls(step') = QueuedCalls(step)
  BY DEF QueuedCalls, Inv, TypeOK
<1> QED
  BY <1>1 DEF HeldOnce

LEMMA QueuedMore ==
  ASSUME Inv, HeldOnce(queue, batch, step), NEW c \in Calls, NEW n,
         step[c] # "queued", Enter(c, n, isOnline), queue' = Queued(queue, c, isOnline),
         batch' = batch
  PROVE  HeldOnce(queue', batch', step')
<1>1. /\ step' = [step EXCEPT ![c] = Route(c, isOnline)]
      /\ step \in [Calls -> Step] /\ queue \in Seq(Calls) /\ batch \in Seq(Calls)
  BY DEF Enter, Inv, TypeOK
<1>2. CASE Route(c, isOnline) # "queued"
  <2>1. queue' = queue
    BY <1>2 DEF Queued
  <2> QED
    BY <1>1, <1>2, <2>1, QueuedSame
<1>3. CASE Route(c, isOnline) = "queued"
  <2> DEFINE t == IF batch = <<>> THEN <<>> ELSE Tail(batch)
  <2>1. queue' = Append(queue, c) /\ t \in Seq(Calls)
    BY <1>1, <1>3 DEF Queued
  <2>2. QueuedCalls(step') = QueuedCalls(step) \cup {c} /\ c \notin QueuedCalls(step)
    BY <1>1, <1>3 DEF QueuedCalls
  <2>3. HeldIn(queue, batch) = queue \o t /\ HeldIn(queue', batch') = Append(queue, c) \o t
    BY <2>1 DEF HeldIn
  <2> HIDE DEF t
  <2>4. IsInjective(queue \o t) /\ ToSet(queue \o t) = QueuedCalls(step)
    BY <2>3 DEF HeldOnce
  <2>5. /\ IsInjective(Append(queue, c) \o t)
        /\ ToSet(Append(queue, c) \o t) = ToSet(queue \o t) \cup {c}
    BY <1>1, <2>1, <2>2, <2>4, InsertInjective
  <2> QED
    BY <2>2, <2>3, <2>4, <2>5 DEF HeldOnce
<1> QED
  BY <1>2, <1>3

\* The flush takes all items out, and its first one comes back.
LEMMA QueuedFlushed ==
  ASSUME Inv, HeldOnce(queue, batch, step), Flush(FALSE)
  PROVE  HeldOnce(queue', batch', step')
<1>1. step' = step /\ (flushing <=> batch # <<>>) /\ queue \in Seq(Calls) /\ Placed(step) /\ Held(queue, step)
  BY FlushHeld DEF Inv, TypeOK
<1>2. CASE flushing \/ queue = <<>>
  BY <1>1, <1>2 DEF Flush, flush
<1>3. CASE ~(flushing \/ queue = <<>>)
  <2>1. batch = <<>> /\ queue # <<>>
    BY <1>1, <1>3
  <2>2. Head(queue) \in Calls /\ step[Head(queue)] = "queued"
    <3>1. Len(queue) >= 1 /\ Head(queue) = queue[1] /\ queue[1] \in Calls
      BY <1>1, <2>1
    <3> QED
      BY <1>1, <3>1 DEF Held
  <2>3. Route(Head(queue), FALSE) = "queued"
    BY <1>1, <2>2, RouteTyped DEF Placed
  <2>4. batch' = queue /\ queue' = Append(<<>>, Head(queue))
    BY <1>3, <2>3 DEF Flush, Queued
  <2>5. HeldIn(queue, batch) = queue
    BY <1>1, <2>1 DEF HeldIn
  <2>6. Append(<<>>, Head(queue)) \o Tail(queue) = queue
    BY <1>1, <2>1
  <2>7. HeldIn(queue', batch') = queue
    BY <2>1, <2>4, <2>6 DEF HeldIn
  <2> QED
    BY <1>1, <2>5, <2>7 DEF HeldOnce
<1> QED
  BY <1>2, <1>3

LEMMA QueuedStep == Inv /\ QueuedOnce /\ [Next]_vars => QueuedOnce'
<1> SUFFICES ASSUME Inv, HeldOnce(queue, batch, step), [Next]_vars
             PROVE  HeldOnce(queue', batch', step')
  BY QueuedOnceIs DEF QueuedOnce, HeldOnce, HeldIn, QueuedCalls
<1>1. ASSUME UNCHANGED <<queue, batch, step>> PROVE HeldOnce(queue', batch', step')
  BY <1>1
<1>2. ASSUME NEW c \in Calls, NEW how \in Settled, step[c] # "queued", Settle(c, how)
      PROVE  HeldOnce(queue', batch', step')
  <2>1. step' = [step EXCEPT ![c] = how] /\ UNCHANGED <<queue, batch>> /\ how # "queued"
    BY <1>2, SettleAlone DEF Settled
  <2> QED
    BY <1>2, <2>1, QueuedSame
<1>3. ASSUME NEW c \in Calls, Request(c) \/ Retry(c) PROVE HeldOnce(queue', batch', step')
  <2>1. PICK n : /\ Enter(c, n, isOnline) /\ queue' = Queued(queue, c, isOnline)
                 /\ batch' = batch /\ step[c] # "queued"
    BY <1>3 DEF Request, Retry, flush
  <2> QED
    BY <2>1, QueuedMore
<1>4. ASSUME NEW c \in Calls, Receive(c) \/ RetryOffline(c) \/ Lookup(c)
      PROVE  HeldOnce(queue', batch', step')
  <2>1. PICK how \in Settled : step[c] # "queued" /\ Settle(c, how)
    BY <1>4 DEF Receive, RetryOffline, Lookup, Settled
  <2> QED
    BY <1>2, <2>1
<1>5. ASSUME NEW c \in Calls, LoseAttempt(c) PROVE HeldOnce(queue', batch', step')
  <2>1. step[c] = "sent"
    BY <1>5 DEF LoseAttempt
  <2>2. \/ \E s \in {"waiting", "fallback"} : /\ step' = [step EXCEPT ![c] = s]
                                              /\ UNCHANGED <<queue, batch>>
        \/ Settle(c, "failed")
    BY <1>5 DEF LoseAttempt, flush
  <2>3. ASSUME NEW s \in {"waiting", "fallback"}, step' = [step EXCEPT ![c] = s],
               UNCHANGED <<queue, batch>>
        PROVE  HeldOnce(queue', batch', step')
    BY <2>1, <2>3, QueuedSame
  <2> QED
    BY <1>2, <2>1, <2>2, <2>3 DEF Settled
<1>6. CASE NetInfo
  <2>1. UNCHANGED <<queue, batch, step>> \/ Flush(FALSE)
    <3>1. isOnline \in BOOLEAN
      BY DEF Inv, TypeOK
    <3> QED
      BY <1>6, <3>1 DEF NetInfo, flush
  <2> QED
    BY <1>1, <2>1, QueuedFlushed
<1>7. ASSUME (\E c \in Calls : ServeLate(c)) \/ CopyExpires \/ UNCHANGED vars
      PROVE  HeldOnce(queue', batch', step')
  BY <1>1, <1>7 DEF ServeLate, CopyExpires, vars, flush
<1> QED
  BY <1>3, <1>4, <1>5, <1>6, <1>7 DEF Next

\* No queued mutation is forgotten and none is held twice, however calls, retries and changes
\* of the network interleave.
THEOREM QueueHoldsOnce == Spec => []QueuedOnce
<1>1. Init => QueuedOnce
  <2> SUFFICES ASSUME Init PROVE HeldOnce(queue, batch, step)
    BY QueuedOnceIs
  <2>1. QueuedCalls(step) = {}
    BY DEF Init, QueuedCalls
  <2>2. HeldIn(queue, batch) = <<>>
    BY DEF Init, HeldIn
  <2> QED
    BY <2>1, <2>2 DEF HeldOnce, IsInjective, ToSet
<1> QED
  BY <1>1, QueuedStep, InvAlways, PTL DEF Spec

-----------------------------------------------------------------------------
(* What never happens to a call. *)

\* A call that is queued or settled stays where it is, and a flush that has begun stays at
\* the item it awaits.
LEMMA StepStays ==
  ASSUME Inv, [Next]_vars
  PROVE  /\ \A c \in Calls : step[c] \in {"queued"} \cup Settled => step'[c] = step[c]
         /\ flushing => flushing' /\ batch' = batch
<1> DEFINE Stays == /\ \A c \in Calls : step[c] \in {"queued"} \cup Settled => step'[c] = step[c]
                    /\ flushing => flushing' /\ batch' = batch
<1>1. step \in [Calls -> Step] /\ isOnline \in BOOLEAN /\ flushing \in BOOLEAN
  BY DEF Inv, TypeOK
<1>2. ASSUME NEW c \in Calls, NEW s, step[c] \notin {"queued"} \cup Settled,
             step' = [step EXCEPT ![c] = s], UNCHANGED flush
      PROVE  Stays
  BY <1>1, <1>2 DEF flush
<1>3. ASSUME NEW c \in Calls, NEW how, step[c] \notin {"queued"} \cup Settled, Settle(c, how)
      PROVE  Stays
  BY <1>2, <1>3, SettleAlone DEF flush
<1>4. ASSUME NEW c \in Calls, Request(c) \/ Retry(c) PROVE Stays
  BY <1>2, <1>4 DEF Request, Retry, Enter, Settled
<1>5. ASSUME NEW c \in Calls, Receive(c) \/ RetryOffline(c) \/ Lookup(c) PROVE Stays
  <2>1. PICK how : Settle(c, how)
    BY <1>5 DEF Receive, RetryOffline, Lookup
  <2> QED
    BY <1>3, <1>5, <2>1 DEF Receive, RetryOffline, Lookup, Settled
<1>6. ASSUME NEW c \in Calls, LoseAttempt(c) PROVE Stays
  <2>1. step[c] \notin {"queued"} \cup Settled
    BY <1>6 DEF LoseAttempt, Settled
  <2>2. CASE Settle(c, "failed")
    BY <1>3, <2>1, <2>2
  <2>3. CASE ~Settle(c, "failed")
    BY <1>2, <1>6, <2>1, <2>3 DEF LoseAttempt
  <2> QED
    BY <2>2, <2>3
<1>7. CASE NetInfo
  <2>1. CASE UNCHANGED <<step, flush>>
    BY <2>1 DEF flush
  <2>2. CASE ~isOnline /\ Flush(isOnline)
    <3>1. step' = step
      BY <1>1, <2>2, FlushHeld
    <3>2. flushing => UNCHANGED flush
      BY <2>2 DEF Flush
    <3> QED
      BY <3>1, <3>2 DEF flush
  <2> QED
    BY <1>7, <2>1, <2>2 DEF NetInfo
<1>8. ASSUME (\E c \in Calls : ServeLate(c)) \/ CopyExpires \/ UNCHANGED vars PROVE Stays
  BY <1>8 DEF ServeLate, CopyExpires, vars, flush
<1> QED
  BY <1>4, <1>5, <1>6, <1>7, <1>8 DEF Next

\* flushOfflineQueue() asks request() again while _isOnline is still false, so that a mutation
\* that was queued once is put back and never sent: not on this reconnect nor on a later one.
THEOREM QueuedIsNeverSent ==
  Spec => [][\A c \in Calls : step[c] = "queued" => step'[c] = "queued"]_vars
<1>1. Inv /\ [Next]_vars => [\A c \in Calls : step[c] = "queued" => step'[c] = "queued"]_vars
  BY StepStays
<1> QED
  BY <1>1, InvAlways, PTL DEF Spec

\* The item that a flush awaits is the promise of a call that is queued behind it: the flush
\* hangs there, and as flushing stays set no later reconnect starts another.
THEOREM FlushHangs == Spec => [][flushing => flushing' /\ batch' = batch]_vars
<1>1. Inv /\ [Next]_vars => [flushing => flushing' /\ batch' = batch]_vars
  BY StepStays
<1> QED
  BY <1>1, InvAlways, PTL DEF Spec

\* What request() has told a screen it does not take back, whatever a late attempt or a
\* flush brings.
THEOREM CallSettlesOnce ==
  Spec => [][\A c \in Calls : step[c] \in Settled => step'[c] = step[c]]_vars
<1>1. Inv /\ [Next]_vars => [\A c \in Calls : step[c] \in Settled => step'[c] = step[c]]_vars
  BY StepStays
<1> QED
  BY <1>1, InvAlways, PTL DEF Spec

\* A mutation that a screen was told has been answered was served by the backend.
AnswerIsServed == \A c \in Calls \ Reads : step[c] = "answered" => served[c] > 0

LEMMA AnswerStep == Inv /\ AnswerIsServed /\ [Next]_vars => AnswerIsServed'
<1> SUFFICES ASSUME Inv, AnswerIsServed, [Next]_vars PROVE AnswerIsServed'
  OBVIOUS
<1>1. Contract!Next \/ UNCHANGED <<Mapped, served>>
  BY StepMaps DEF Contract!vars, Mapped
<1>2. /\ served \in [Calls -> Attempts] /\ MaxRetries \in Nat
      /\ DOMAIN Mapped = Calls
      /\ \A c \in Calls : /\ Mapped[c] = "answered" <=> step[c] = "answered"
                          /\ Mapped'[c] = "answered" <=> step'[c] = "answered"
  BY CallsAssumption, MappedIs DEF Inv, TypeOK, OutcomeOf, Settled
<1>3. \A c \in Calls \ Reads : Mapped[c] = "answered" => served[c] > 0
  BY <1>2 DEF AnswerIsServed
<1> SUFFICES ASSUME NEW c \in Calls \ Reads, Mapped'[c] = "answered" PROVE served'[c] > 0
  BY <1>2 DEF AnswerIsServed
<1>4. CASE UNCHANGED <<Mapped, served>>
  BY <1>3, <1>4
<1>5. ASSUME NEW d \in Calls,
             \/ \E o \in Contract!Outcome : Contract!Make(d, o)
             \/ Contract!Serve(d) \/ Contract!Answer(d) \/ Contract!ServeAndAnswer(d)
             \/ Contract!Fail(d)
      PROVE  served'[c] > 0
  <2>1. CASE \E o \in Contract!Outcome : Contract!Make(d, o)
    BY <1>2, <1>3, <2>1 DEF Contract!Make, Contract!Set, Mapped
  <2>2. CASE Contract!Serve(d)
    BY <1>2, <1>3, <2>2 DEF Contract!Serve, Mapped, Attempts
  <2>3. CASE Contract!Answer(d)
    BY <1>2, <1>3, <2>3 DEF Contract!Answer, Contract!Set, Mapped
  <2>4. CASE Contract!ServeAndAnswer(d)
    <3>1. /\ served' = [served EXCEPT ![d] = @ + 1]
          /\ Mapped' = [Mapped EXCEPT ![d] = "answered"]
      BY <2>4 DEF Contract!ServeAndAnswer, Mapped
    <3>2. c # d => Mapped[c] = "answered" /\ served'[c] = served[c]
      BY <1>2, <3>1
    <3>3. c = d => served'[c] > 0
      BY <1>2, <3>1 DEF Attempts
    <3> QED
      BY <1>3, <3>2, <3>3
  <2>5. CASE Contract!Fail(d)
    BY <1>2, <1>3, <2>5 DEF Contract!Fail, Contract!Set, Mapped
  <2> QED
    BY <1>5, <2>1, <2>2, <2>3, <2>4, <2>5
<1> QED
  BY <1>1, <1>4, <1>5 DEF Contract!Next

\* An answer to anything but a read stands for something the backend did.
THEOREM AnswersStand == Spec => []AnswerIsServed
<1>1. Init => AnswerIsServed
  BY DEF Init, AnswerIsServed
<1> QED
  BY <1>1, AnswerStep, InvAlways, PTL DEF Spec

=============================================================================
