------------------------------ MODULE ApiClient ------------------------------
(***************************************************************************)
(* The API client of the mobile apps (mobile/packages/shared/src/api/      *)
(* client.ts) and its offline queue (offlineQueue.ts).  JavaScript runs    *)
(* one callback at a time: a step is the code from one await, timer or     *)
(* event to the next.  A call is made once by a screen; the client may     *)
(* send it several times, and an attempt the client has given up is still  *)
(* on its way to the backend.                                              *)
(*                                                                         *)
(* isOnline    client.ts: _isOnline, from the events of NetInfo            *)
(* step[c]     where call c is awaited; "answered" and "failed" are ends   *)
(* tries[c]    the argument retries of request()                           *)
(* late[c]     the attempts of c that the client has given up without an    *)
(*             answer and that the backend may still serve                 *)
(* served[c]   how often the backend has done what c asks (history)        *)
(* queue, batch, flushing   offlineQueue.ts: queue, items from the one     *)
(*             that is awaited on, flushing                                *)
(* fresh       whether the cache holds a copy, at most 5 minutes old       *)
(***************************************************************************)
EXTENDS Naturals, Sequences, SequencesExt

CONSTANTS Calls,
          Reads,      \* the calls with method GET
          Bodied,     \* the calls with a body
          MaxRetries, \* client.ts: MAX_RETRIES
          MaxCalls    \* bound of a run: calls the screens make

ASSUME CallsAssumption == /\ Reads \subseteq Calls
                          /\ Bodied \subseteq Calls \ Reads
                          /\ MaxRetries \in Nat /\ MaxCalls \in Nat

VARIABLES isOnline, step, tries, late, served, queue, batch, flushing, fresh

vars == <<isOnline, step, tries, late, served, queue, batch, flushing, fresh>>
flush == <<batch, flushing>>

Settled == {"answered", "failed"}
Step == {"idle", "lookup", "queued", "sent", "waiting", "fallback"} \cup Settled
Attempts == 0..(MaxRetries + 1)

TypeOK ==
  /\ isOnline \in BOOLEAN /\ flushing \in BOOLEAN /\ fresh \in BOOLEAN
  /\ step \in [Calls -> Step]
  /\ tries \in [Calls -> 0..MaxRetries]
  /\ late \in [Calls -> Attempts]
  /\ served \in [Calls -> Attempts]
  /\ queue \in Seq(Calls) /\ batch \in Seq(Calls)

\* NetInfo has not spoken yet; the cache outlives the process.
Init ==
  /\ isOnline = FALSE /\ flushing = FALSE /\ fresh \in BOOLEAN
  /\ step = [c \in Calls |-> "idle"]
  /\ tries = [c \in Calls |-> 0]
  /\ late = [c \in Calls |-> 0]
  /\ served = [c \in Calls |-> 0]
  /\ queue = <<>> /\ batch = <<>>

-----------------------------------------------------------------------------
(* request(): where a call goes, by what the client believes of the network. *)

Route(c, online) == CASE online                   -> "sent"
                      [] ~online /\ c \in Reads   -> "lookup"
                      [] ~online /\ c \in Bodied  -> "queued"
                      [] OTHER                    -> "failed"

\* Call c enters request() with n as its argument retries.
Enter(c, n, online) ==
  /\ step' = [step EXCEPT ![c] = Route(c, online)]
  /\ tries' = [tries EXCEPT ![c] = n]

Queued(q, c, online) == IF Route(c, online) = "queued" THEN Append(q, c) ELSE q

\* A screen makes a call.
Request(c) ==
  /\ step[c] = "idle"
  /\ Cardinality({b \in Calls : step[b] # "idle"}) < MaxCalls
  /\ Enter(c, 0, isOnline)
  /\ queue' = Queued(queue, c, isOnline)
  /\ UNCHANGED <<isOnline, late, served, flush, fresh>>

\* The promise of c settles.  If the flush awaits it, the flush goes on to the next item.
Settle(c, how) ==
  LET next == IF flushing /\ Head(batch) = c THEN Tail(batch) ELSE batch
      goesOn == next # batch /\ next # <<>>
  IN /\ batch' = next
     /\ flushing' = (flushing /\ next # <<>>)
     /\ IF goesOn
        THEN /\ step' = [step EXCEPT ![c] = how, ![Head(next)] = Route(Head(next), isOnline)]
             /\ tries' = [tries EXCEPT ![Head(next)] = 0]
             /\ queue' = Queued(queue, Head(next), isOnline)
        ELSE /\ step' = [step EXCEPT ![c] = how]
             /\ UNCHANGED <<tries, queue>>

\* A bug: An answer is taken for a success whatever its status.
ReceiveUnchecked(c) ==
  /\ step[c] = "sent"
  /\ \E ok \in BOOLEAN :
       /\ served' = [served EXCEPT ![c] = IF ok THEN @ + 1 ELSE @]
       /\ Settle(c, "answered")
       /\ fresh' = (fresh \/ c \in Reads)
  /\ UNCHANGED <<isOnline, late>>

\* The backend serves the current attempt, or refuses it, and the answer arrives.  A good
\* answer to a read is copied to the cache.
Receive(c) ==
  /\ step[c] = "sent"
  /\ \E ok \in BOOLEAN :
       /\ served' = [served EXCEPT ![c] = IF ok THEN @ + 1 ELSE @]
       /\ Settle(c, IF ok THEN "answered" ELSE "failed")
       /\ fresh' = (fresh \/ (c \in Reads /\ ok))
  /\ UNCHANGED <<isOnline, late>>

\* A bug: The retries are compared with <= where < is meant.
LoseAttemptOnce(c) ==
  /\ step[c] = "sent"
  /\ late' = [late EXCEPT ![c] = @ + 1]
  /\ IF tries[c] <= MaxRetries
     THEN /\ step' = [step EXCEPT ![c] = "waiting"]
          /\ UNCHANGED <<tries, queue, flush>>
     ELSE Settle(c, "failed")
  /\ UNCHANGED <<isOnline, served, fresh>>

\* The current attempt ends without an answer that is heard: fetch throws a TypeError, or
\* API_TIMEOUT aborts it.  A further attempt is made after RETRY_DELAY_MS, or none is left.
LoseAttempt(c) ==
  /\ step[c] = "sent"
  /\ late' = [late EXCEPT ![c] = @ + 1]
  /\ IF tries[c] < MaxRetries \/ c \in Reads
     THEN /\ step' = [step EXCEPT ![c] = IF tries[c] < MaxRetries THEN "waiting"
                                                                  ELSE "fallback"]
          /\ UNCHANGED <<tries, queue, flush>>
     ELSE Settle(c, "failed")
  /\ UNCHANGED <<isOnline, served, fresh>>

\* The backend serves such an attempt; it may have done so before the client gave it up,
\* which nobody can tell from outside.
ServeLate(c) ==
  /\ late[c] > 0
  /\ late' = [late EXCEPT ![c] = @ - 1]
  /\ served' = [served EXCEPT ![c] = @ + 1]
  /\ UNCHANGED <<isOnline, step, tries, queue, flush, fresh>>

\* The timer of the retry.
Retry(c) ==
  /\ step[c] = "waiting"
  /\ Route(c, isOnline) # "failed"
  /\ Enter(c, tries[c] + 1, isOnline)
  /\ queue' = Queued(queue, c, isOnline)
  /\ UNCHANGED <<isOnline, late, served, flush, fresh>>

\* The timer of the retry, when the client is offline and the call has no body.
RetryOffline(c) ==
  /\ step[c] = "waiting"
  /\ Route(c, isOnline) = "failed"
  /\ Settle(c, "failed")
  /\ UNCHANGED <<isOnline, late, served, fresh>>

\* A bug: After the last attempt, a read that finds no copy is not rejected.
LookupSilent(c) ==
  /\ step[c] \in {"lookup", "fallback"}
  /\ fresh
  /\ Settle(c, "answered")
  /\ UNCHANGED <<isOnline, late, served, fresh>>

\* getCacheKey answers, offline or after the last attempt.  A read that finds no copy
\* offline throws there and is not retried.
Lookup(c) ==
  /\ step[c] \in {"lookup", "fallback"}
  /\ Settle(c, IF fresh THEN "answered" ELSE "failed")
  /\ UNCHANGED <<isOnline, late, served, fresh>>

CopyExpires ==
  /\ fresh
  /\ fresh' = FALSE
  /\ UNCHANGED <<isOnline, step, tries, late, served, queue, flush>>

-----------------------------------------------------------------------------
(* The listener of NetInfo. *)

\* A bug: The items are copied, and stay in the queue.
FlushCopy(online) ==
  IF flushing \/ queue = <<>>
  THEN UNCHANGED <<step, tries, queue, flush>>
  ELSE /\ flushing' = TRUE
       /\ batch' = queue
       /\ Enter(Head(queue), 0, online)
       /\ queue' = Queued(queue, Head(queue), online)

\* flushOfflineQueue, up to its first await: every item is taken out of the queue and the
\* first is requested, with what the client believes of the network at that moment.
Flush(online) ==
  IF flushing \/ queue = <<>>
  THEN UNCHANGED <<step, tries, queue, flush>>
  ELSE /\ flushing' = TRUE
       /\ batch' = queue
       /\ Enter(Head(queue), 0, online)
       /\ queue' = Queued(<<>>, Head(queue), online)

\* The queue is flushed before _isOnline is assigned.
NetInfo ==
  /\ \E online \in BOOLEAN :
       /\ isOnline' = online
       /\ IF online /\ ~isOnline THEN Flush(isOnline)
                                 ELSE UNCHANGED <<step, tries, queue, flush>>
  /\ UNCHANGED <<late, served, fresh>>

-----------------------------------------------------------------------------
Next ==
  \/ \E c \in Calls :
       \/ Request(c) \/ Receive(c) \/ LoseAttempt(c) \/ Retry(c) \/ RetryOffline(c) \/ Lookup(c)
       \/ ServeLate(c)
  \/ NetInfo \/ CopyExpires

\* Timers fire, storage answers, and API_TIMEOUT ends an attempt that is not answered.
Fairness == \A c \in Calls : /\ WF_vars(Receive(c) \/ LoseAttempt(c))
                             /\ WF_vars(Retry(c) \/ RetryOffline(c))
                             /\ WF_vars(Lookup(c))

Spec == Init /\ [][Next]_vars /\ Fairness

-----------------------------------------------------------------------------
Outcome(c) == CASE step[c] = "idle"    -> "none"
                [] step[c] \in Settled -> step[c]
                [] OTHER               -> "open"

Contract == INSTANCE ApiContract WITH outcome <- [c \in Calls |-> Outcome(c)]

\* The client keeps what a screen may rely on (ApiContract): one outcome per call, answers
\* that stand for something the backend did, and at most 1 + MAX_RETRIES servings.
ImplementsContract == Contract!Spec

\* Every queued mutation is held exactly once, by the queue or by the items of the flush
\* that are still to be requested: none is forgotten and none can be sent twice.
QueuedOnce ==
  LET held == queue \o IF batch = <<>> THEN <<>> ELSE Tail(batch)
  IN IsInjective(held) /\ ToSet(held) = {c \in Calls : step[c] = "queued"}

\* A call that was sent is answered or given up, whatever the network does, unless its retry
\* finds the device offline and leaves it in the queue.
SentSettles == \A c \in Calls : (step[c] = "sent") ~> (step[c] \in Settled \cup {"queued"})

\* RIDER-FLOWS.md: mutations are queued and flushed on reconnect.  If the device comes back
\* online for good, every queued mutation is sent and settles.
QueueIsFlushed ==
  <>[]isOnline => \A c \in Calls : (step[c] = "queued") ~> (step[c] \in Settled)
=============================================================================
