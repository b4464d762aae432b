----------------------------- MODULE ApiContract -----------------------------
(***************************************************************************)
(* What a screen of the mobile apps may rely on when it awaits a call of   *)
(* the API client: the call settles once; an answer means that the backend *)
(* has served it (or, for a read, that a copy was at hand); and whatever   *)
(* the network does, the backend serves it a bounded number of times, some *)
(* of them possibly after the screen was told that the call has failed.    *)
(***************************************************************************)
EXTENDS Naturals

CONSTANTS Calls,
          Reads,      \* the calls that change nothing and may be answered from the cache
          MaxRetries  \* client.ts: MAX_RETRIES

VARIABLES outcome,  \* what the screen that awaits the call has seen
          served    \* how often the backend has served it

vars == <<outcome, served>>

Outcome == {"none", "open", "answered", "failed"}

TypeOK == /\ outcome \in [Calls -> Outcome]
          /\ served \in [Calls -> 0..(MaxRetries + 1)]

Init == /\ outcome = [c \in Calls |-> "none"]
        /\ served = [c \in Calls |-> 0]

Set(c, o) == outcome' = [outcome EXCEPT ![c] = o] /\ UNCHANGED served

\* A call may settle in the step that makes it: offline, without a body, it throws.
Make(c, o) == outcome[c] = "none" /\ o \in {"open", "failed"} /\ Set(c, o)

Serve(c) == /\ outcome[c] # "none"
            /\ served[c] <= MaxRetries
            /\ served' = [served EXCEPT ![c] = @ + 1]
            /\ UNCHANGED outcome

Answer(c) == /\ outcome[c] = "open"
             /\ served[c] > 0 \/ c \in Reads
             /\ Set(c, "answered")

\* The serving and its answer may be seen as one.
ServeAndAnswer(c) == /\ outcome[c] = "open"
                     /\ served[c] <= MaxRetries
                     /\ served' = [served EXCEPT ![c] = @ + 1]
                     /\ outcome' = [outcome EXCEPT ![c] = "answered"]

Fail(c) == outcome[c] = "open" /\ Set(c, "failed")

Next == \E c \in Calls : \/ \E o \in Outcome : Make(c, o)
                         \/ Serve(c) \/ Answer(c) \/ ServeAndAnswer(c) \/ Fail(c)

Spec == Init /\ [][Next]_vars
=============================================================================
