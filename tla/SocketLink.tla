----------------------------- MODULE SocketLink -----------------------------
(***************************************************************************)
(* What a screen may rely on when it uses the socket hook of the mobile    *)
(* apps.  A link is up or down.  An event emitted while it is down waits   *)
(* and goes out when the link is up again; the events that wait are        *)
(* dropped with the screen, and with the token.  An event that has gone    *)
(* out is heard by the server once or never, in no particular order, and   *)
(* nobody is told which.                                                   *)
(***************************************************************************)
CONSTANTS Hooks, Events

VARIABLES linked,   \* the hooks whose link is up
          waiting,  \* the events each hook keeps
          sent,     \* the events on their way
          heard     \* the events the server has heard

vars == <<linked, waiting, sent, heard>>

Init == /\ linked = {}
        /\ waiting = [h \in Hooks |-> {}]
        /\ sent = {} /\ heard = {}

Emit(h, e) ==
  /\ e \notin sent \cup heard \cup UNION {waiting[x] : x \in Hooks}
  /\ IF h \in linked
     THEN sent' = sent \cup {e} /\ UNCHANGED waiting
     ELSE waiting' = [waiting EXCEPT ![h] = @ \cup {e}] /\ UNCHANGED sent
  /\ UNCHANGED <<linked, heard>>

Up(h) == /\ linked' = linked \cup {h}
         /\ sent' = sent \cup waiting[h]
         /\ waiting' = [waiting EXCEPT ![h] = {}]
         /\ UNCHANGED heard

\* Events on their way may be lost, with a link that goes down or without.
Lose == sent' \subseteq sent

Down == linked' \subseteq linked /\ Lose /\ UNCHANGED <<waiting, heard>>

Close(h) == /\ linked' = linked \ {h}
            /\ waiting' = [waiting EXCEPT ![h] = {}]
            /\ Lose
            /\ UNCHANGED heard

Hear(e) == /\ e \in sent
           /\ sent' = sent \ {e}
           /\ heard' = heard \cup {e}
           /\ UNCHANGED <<linked, waiting>>

Next == \/ \E h \in Hooks : Up(h) \/ Close(h) \/ \E e \in Events : Emit(h, e)
        \/ Down
        \/ \E e \in Events : Hear(e)

Spec == Init /\ [][Next]_vars
=============================================================================
