----------------------------- MODULE SocketHook -----------------------------
(***************************************************************************)
(* The sockets of one user: the hook useSocket.ts of each mounted screen,  *)
(* which opens a socket of its own, and the socket server's side of them   *)
(* (index.js: handshake, connectedSockets, disconnect; auth.js).  The two  *)
(* sides learn of a connection, and of its end, at different times.        *)
(*                                                                         *)
(* hook[h]  ref: socketRef.current, 0 when it is null or a dead socket;    *)
(*          retry: the reconnect timer is armed, or none will be because   *)
(*          the token expired; queue: eventQueueRef; listening: the        *)
(*          screen's listeners are on the current socket                   *)
(* sock[s]  the hook that opened it, the state either side has it in, and  *)
(*          the events written to it that the server has not handled       *)
(* entry    the user's socket in connectedSockets, 0 if there is none      *)
(* heard    the events the server has handled;  lost: dropped on the way   *)
(***************************************************************************)
EXTENDS Naturals, FiniteSets

CONSTANTS Hooks, None,
          ByOn,        \* the screens that listen in an effect that depends on on() alone
          Events,
          MaxSockets,  \* bounds of a run: sockets at a time, failures and token changes
          MaxFaults

ASSUME ConstantsAssumption == /\ None \notin Hooks /\ ByOn \subseteq Hooks
                              /\ MaxSockets \in Nat /\ MaxFaults \in Nat

VARIABLES hook, sock, entry, heard, lost, faults

vars == <<hook, sock, entry, heard, lost, faults>>

Sockets == 1..MaxSockets

Unmounted == [mounted |-> FALSE, ref |-> 0, isConnected |-> FALSE, retry |-> "none",
              queue |-> {}, listening |-> FALSE]
Free == [owner |-> None, client |-> "closed", server |-> "closed", wire |-> {}]

\* The current socket of a hook is one that the hook opened.
TypeOK ==
  /\ \A h \in Hooks : hook[h].ref # 0 => sock[hook[h].ref].owner = h
  /\ hook \in [Hooks -> [mounted : BOOLEAN, ref : 0..MaxSockets, isConnected : BOOLEAN,
                         retry : {"none", "armed", "expired"}, queue : SUBSET Events, listening : BOOLEAN]]
  /\ sock \in [Sockets -> [owner : Hooks \cup {None}, wire : SUBSET Events,
                           client : {"connecting", "open", "closed"},
                           server : {"none", "open", "closed"}]]
  /\ entry \in 0..MaxSockets
  /\ heard \subseteq Events /\ lost \subseteq Events
  /\ faults \in 0..MaxFaults

Init == /\ hook = [h \in Hooks |-> Unmounted]
        /\ sock = [s \in Sockets |-> Free]
        /\ entry = 0
        /\ heard = {} /\ lost = {} /\ faults = 0

Fault == faults < MaxFaults /\ faults' = faults + 1

\* The sockets after socket s has changed to r: one that both sides have closed is gone.
Set(s, r) ==
  sock' = [sock EXCEPT ![s] = IF r.client = "closed" /\ r.server # "open" THEN Free ELSE r]

\* What is on the wire of the sockets in S is lost when the server has them no more.
Drop(S) == lost' = lost \cup UNION {sock[s].wire : s \in S}

-----------------------------------------------------------------------------
(* connect(), and the ways to it. *)

\* disconnect() of the current socket, as the client does it.
Disconnected(h, socks) ==
  LET s == hook[h].ref IN
  IF s = 0 THEN socks
  ELSE [socks EXCEPT ![s] = IF @.server = "open" THEN [@ EXCEPT !.client = "closed"] ELSE Free]

\* A new socket s in the place of the current one.
Opening(h, s) ==
  /\ sock[s] = Free
  /\ sock' = [Disconnected(h, sock) EXCEPT ![s] =
                [owner |-> h, client |-> "connecting", server |-> "none", wire |-> {}]]
  /\ UNCHANGED <<entry, heard>>

\* The effects of the screen run in the order in which they are written, the hook's first.
Mount(h, s) ==
  /\ ~hook[h].mounted
  /\ Opening(h, s)
  /\ hook' = [hook EXCEPT ![h] = [Unmounted EXCEPT !.mounted = TRUE, !.ref = s,
                                                   !.listening = h \in ByOn]]
  /\ UNCHANGED <<lost, faults>>

\* A new token: the effect is cleaned up and runs again.
Renew(h, s) ==
  /\ Fault
  /\ hook[h].mounted
  /\ Opening(h, s)
  /\ hook' = [hook EXCEPT ![h] = [Unmounted EXCEPT !.mounted = TRUE, !.ref = s]]
  /\ lost' = lost \cup hook[h].queue

\* A bug: The cleanup leaves the reconnect timer armed.
UnmountArmed(h) ==
  /\ hook[h].mounted
  /\ sock' = Disconnected(h, sock)
  /\ hook' = [hook EXCEPT ![h] = [Unmounted EXCEPT !.retry = hook[h].retry]]
  /\ lost' = lost \cup hook[h].queue
  /\ UNCHANGED <<entry, heard, faults>>

\* A bug: The cleanup disconnects the socket and keeps it.
UnmountKept(h) ==
  /\ hook[h].mounted
  /\ sock' = Disconnected(h, sock)
  /\ hook' = [hook EXCEPT ![h] = [Unmounted EXCEPT !.ref = hook[h].ref]]
  /\ lost' = lost \cup hook[h].queue
  /\ UNCHANGED <<entry, heard, faults>>

Unmount(h) ==
  /\ hook[h].mounted
  /\ sock' = Disconnected(h, sock)
  /\ hook' = [hook EXCEPT ![h] = Unmounted]
  /\ lost' = lost \cup hook[h].queue
  /\ UNCHANGED <<entry, heard, faults>>

\* The timer fires.
Reconnect(h, s) ==
  /\ hook[h].retry = "armed"
  /\ Opening(h, s)
  /\ hook' = [hook EXCEPT ![h].retry = "none", ![h].ref = s, ![h].listening = FALSE]
  /\ UNCHANGED <<lost, faults>>

-----------------------------------------------------------------------------
(* The server's side. *)

\* The handshake: the token is valid, and the latest socket is the user's entry.
Handshake(s) ==
  /\ sock[s].client = "connecting" /\ sock[s].server = "none"
  /\ Set(s, [sock[s] EXCEPT !.server = "open"])
  /\ entry' = s
  /\ UNCHANGED <<hook, heard, lost, faults>>

Hear(s, e) ==
  /\ sock[s].server = "open" /\ e \in sock[s].wire
  /\ heard' = heard \cup {e}
  /\ Set(s, [sock[s] EXCEPT !.wire = @ \ {e}])
  /\ UNCHANGED <<hook, entry, lost, faults>>

\* disconnect: the user's entry goes, whichever of his sockets it names.
ServerClosed(s) ==
  /\ Set(s, [sock[s] EXCEPT !.server = "closed", !.wire = {}])
  /\ Drop({s})
  /\ entry' = 0

\* The server ends a connection: a missed ping, or an eviction by revalidateConnectedTokens.
Evict(s) ==
  /\ Fault
  /\ sock[s].server = "open"
  /\ ServerClosed(s)
  /\ UNCHANGED <<hook, heard>>

\* It learns that the client has ended one.
Notice(s) ==
  /\ sock[s].client = "closed" /\ sock[s].server = "open"
  /\ ServerClosed(s)
  /\ UNCHANGED <<hook, heard, faults>>

\* The process restarts; connectedSockets is kept in memory.
Restart ==
  /\ Fault
  /\ sock' = [s \in Sockets |-> CASE sock[s].server # "open" -> sock[s]
                                  [] sock[s].client = "closed" -> Free
                                  [] OTHER -> [sock[s] EXCEPT !.server = "closed", !.wire = {}]]
  /\ entry' = 0
  /\ Drop({s \in Sockets : sock[s].server = "open"})
  /\ UNCHANGED <<hook, heard>>

-----------------------------------------------------------------------------
(* The client's side: the callbacks of the current socket. *)

\* A bug: The queue is sent and kept.
OpenedKept(s) ==
  LET h == sock[s].owner IN
  /\ sock[s].client = "connecting" /\ sock[s].server = "open"
  /\ hook' = [hook EXCEPT ![h].isConnected = TRUE, ![h].listening = h \notin ByOn \/ @]
  /\ sock' = [sock EXCEPT ![s].client = "open", ![s].wire = hook[h].queue]
  /\ UNCHANGED <<entry, heard, lost, faults>>

\* connect: the queue is flushed, and screens that depend on isConnected or on socket listen.
Opened(s) ==
  LET h == sock[s].owner IN
  /\ sock[s].client = "connecting" /\ sock[s].server = "open"
  /\ hook' = [hook EXCEPT ![h].isConnected = TRUE, ![h].queue = {},
                          ![h].listening = h \notin ByOn \/ @]
  /\ sock' = [sock EXCEPT ![s].client = "open", ![s].wire = hook[h].queue]
  /\ UNCHANGED <<entry, heard, lost, faults>>

\* A bug: A connection that was not made is not tried again.
RescheduledOnce(h, retry) ==
  hook' = [hook EXCEPT ![h].isConnected = FALSE, ![h].ref = 0, ![h].listening = FALSE,
                       ![h].retry = IF hook[h].isConnected THEN retry ELSE "none"]

\* scheduleReconnect, after disconnect or connect_error.
Rescheduled(h, retry) ==
  hook' = [hook EXCEPT ![h].isConnected = FALSE, ![h].ref = 0, ![h].listening = FALSE,
                       ![h].retry = retry]

ClientClosed(s, retry) ==
  /\ Set(s, [sock[s] EXCEPT !.client = "closed"])
  /\ Rescheduled(sock[s].owner, retry)
  /\ UNCHANGED <<entry, heard, lost>>

\* disconnect: the server has closed, or the network is gone.  The same after
\* auth:token-expired, on which handleTokenExpired disconnects: no app refreshes there.
Lost(s) ==
  /\ sock[s].client \in {"connecting", "open"}
  /\ \/ sock[s].server = "closed" /\ UNCHANGED faults
     \/ Fault
  /\ ClientClosed(s, "armed")

\* connect_error: the handshake is refused.  When the reason is that the token expired,
\* handleTokenExpired disconnects a socket that is not connected, and nothing follows.
Refused(s) ==
  /\ Fault
  /\ sock[s].client = "connecting" /\ sock[s].server = "none"
  /\ \E retry \in {"armed", "expired"} : ClientClosed(s, retry)

Emit(h, e) ==
  LET s == hook[h].ref IN
  /\ hook[h].mounted
  /\ e \notin heard \cup lost
  /\ \A x \in Hooks : e \notin hook[x].queue
  /\ \A x \in Sockets : e \notin sock[x].wire
  /\ IF s # 0 /\ sock[s].client = "open"
     THEN IF sock[s].server = "open"
          THEN sock' = [sock EXCEPT ![s].wire = @ \cup {e}] /\ UNCHANGED <<hook, lost>>
          ELSE lost' = lost \cup {e} /\ UNCHANGED <<hook, sock>>
     ELSE hook' = [hook EXCEPT ![h].queue = @ \cup {e}] /\ UNCHANGED <<sock, lost>>
  /\ UNCHANGED <<entry, heard, faults>>

-----------------------------------------------------------------------------
Next ==
  \/ \E h \in Hooks : \/ Unmount(h)
                      \/ \E s \in Sockets : Mount(h, s) \/ Renew(h, s) \/ Reconnect(h, s)
                      \/ \E e \in Events : Emit(h, e)
  \/ \E s \in Sockets : \/ Handshake(s) \/ Evict(s) \/ Notice(s)
                        \/ Opened(s) \/ Lost(s) \/ Refused(s)
                        \/ \E e \in Events : Hear(s, e)
  \/ Restart

\* Timers fire; a handshake, and the end of a socket, are seen by the other side.  Strong
\* fairness of a timer only says that sockets of the bound MaxSockets become free again.
Fairness ==
  /\ \A h \in Hooks : SF_vars(\E s \in Sockets : Reconnect(h, s))
  /\ \A s \in Sockets : /\ WF_vars(Handshake(s)) /\ WF_vars(Notice(s))
                        /\ WF_vars(Opened(s)) /\ WF_vars(Lost(s))

Spec == Init /\ [][Next]_vars /\ Fairness

-----------------------------------------------------------------------------
(* Properties. *)

\* A socket that lives on the client is the current one of a mounted screen: no screen that
\* was left, no token change and no reconnect leaves a connection behind.
NoStraySocket ==
  \A s \in Sockets : sock[s].client # "closed" =>
    hook[sock[s].owner].mounted /\ hook[sock[s].owner].ref = s

\* The relay's table never names a socket the server has closed, so what it sends to a user
\* who is connected reaches one of his screens.
EntryIsLive == entry # 0 => sock[entry].server = "open"

\* A connected screen hears: its listeners are on the socket that lives.  It is so of the
\* screens whose effect depends on the connection; docs/flow/04-cross-cutting/
\* realtime-communication-flow.md:141 says it of all, and those of ByOn stay deaf once their
\* first socket is gone.
ConnectedListens(S) ==
  \A h \in S : hook[h].isConnected => hook[h].listening /\ sock[hook[h].ref].client = "open"

ListenersResume == ConnectedListens(Hooks)

\* A mounted screen gets its connection back, unless the server said the token expired.
Reconnects ==
  \A h \in Hooks : hook[h].mounted ~>
    hook[h].isConnected \/ ~hook[h].mounted \/ hook[h].retry = "expired"

\* The hooks and the server give their screens the link SocketLink describes.
Link == INSTANCE SocketLink WITH
          linked <- {h \in Hooks : hook[h].isConnected},
          waiting <- [h \in Hooks |-> hook[h].queue],
          sent <- UNION {sock[s].wire : s \in Sockets}

ImplementsLink == Link!Spec
=============================================================================
