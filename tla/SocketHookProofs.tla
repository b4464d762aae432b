-------------------------- MODULE SocketHookProofs --------------------------
(***************************************************************************)
(* Proofs about SocketHook for any screens, events, sockets and faults:    *)
(* its types, that no socket is left behind, that the relay's table names  *)
(* live sockets only, that the hook implements SocketLink, that the server *)
(* handles an event once, and which screens hear.                          *)
(*                                                                         *)
(* Sound ties the two sides together: a hook's reference and a socket that *)
(* lives on the client are each other's, isConnected says that it is open, *)
(* and a timer is armed only where there is no socket.  Apart says that an *)
(* event is in one place, which makes its delivery one step of the link.   *)
(***************************************************************************)
EXTENDS SocketHook, TLAPS

HookRows == [mounted : BOOLEAN, ref : 0..MaxSockets, isConnected : BOOLEAN,
             retry : {"none", "armed", "expired"}, queue : SUBSET Events, listening : BOOLEAN]
SockRows == [owner : Hooks \cup {None}, wire : SUBSET Events,
             client : {"connecting", "open", "closed"}, server : {"none", "open", "closed"}]

Typed(hk, so) == hk \in [Hooks -> HookRows] /\ so \in [Sockets -> SockRows]

\* A reference and a socket that lives on the client are each other's.
Paired(hk, so) ==
  /\ \A h \in Hooks : hk[h].ref # 0 => /\ so[hk[h].ref].owner = h
                                       /\ so[hk[h].ref].client # "closed"
  /\ \A s \in Sockets : so[s].client # "closed" => /\ so[s].owner \in Hooks
                                                   /\ hk[so[s].owner].ref = s

\* What a hook says of its socket.
Honest(hk, so) ==
  \A h \in Hooks : /\ hk[h].isConnected <=> hk[h].ref # 0 /\ so[hk[h].ref].client = "open"
                   /\ ~hk[h].mounted => hk[h] = Unmounted
                   /\ hk[h].retry # "none" => hk[h].ref = 0

Sound(hk, so) ==
  /\ Paired(hk, so) /\ Honest(hk, so)
  /\ \A s \in Sockets : so[s].client = "connecting" => so[s].wire = {}

\* An event is on one wire or in one queue.
Apart(hk, so) ==
  /\ \A s, t \in Sockets : s # t => so[s].wire \cap so[t].wire = {}
  /\ \A s \in Sockets, h \in Hooks : so[s].wire \cap hk[h].queue = {}
  /\ \A g, h \in Hooks : g # h => hk[g].queue \cap hk[h].queue = {}

Inv == /\ Typed(hook, sock)
       /\ entry \in 0..MaxSockets /\ heard \subseteq Events /\ lost \subseteq Events
       /\ faults \in 0..MaxFaults
       /\ Sound(hook, sock) /\ Apart(hook, sock)
       /\ EntryIsLive

-----------------------------------------------------------------------------
LEMMA RowsTyped == Unmounted \in HookRows /\ Free \in SockRows
BY ConstantsAssumption DEF Unmounted, Free, HookRows, SockRows

LEMMA SocketsAre == \A s \in Sockets : s \in 0..MaxSockets /\ s # 0
BY ConstantsAssumption DEF Sockets

LEMMA RefsAre ==
  ASSUME Typed(hook, sock), NEW h \in Hooks
  PROVE  hook[h] \in HookRows /\ (hook[h].ref # 0 => hook[h].ref \in Sockets)
BY ConstantsAssumption DEF Typed, HookRows, Sockets

\* What disconnect() leaves of the sockets.
LEMMA DisconnectedIs ==
  ASSUME Typed(hook, sock), NEW h \in Hooks
  PROVE  LET r == hook[h].ref
             d == Disconnected(h, sock)
         IN /\ d \in [Sockets -> SockRows]
            /\ \A x \in Sockets : x # r => d[x] = sock[x]
            /\ r # 0 => /\ d[r].client = "closed" /\ d[r].wire \subseteq sock[r].wire
                        /\ sock[r].server = "open" => d[r].server = "open"
<1> DEFINE r == hook[h].ref
           d == Disconnected(h, sock)
<1>0. sock \in [Sockets -> SockRows] /\ (r # 0 => r \in Sockets)
  BY RefsAre DEF Typed
<1>1. CASE r = 0
  BY <1>0, <1>1 DEF Disconnected
<1>2. CASE r # 0
  <2> DEFINE row == IF sock[r].server = "open" THEN [sock[r] EXCEPT !.client = "closed"] ELSE Free
  <2>1. d = [sock EXCEPT ![r] = row]
    BY <1>0, <1>2 DEF Disconnected
  <2>2. /\ row \in SockRows /\ row.client = "closed" /\ row.wire \subseteq sock[r].wire
        /\ sock[r].server = "open" => row.server = "open"
    <3>1. sock[r] \in SockRows
      BY <1>0, <1>2
    <3> QED
      BY <3>1, RowsTyped DEF SockRows, Free
  <2> HIDE DEF d, row, r
  <2> QED
    BY <1>0, <1>2, <2>1, <2>2 DEF d, r
<1> QED
  BY <1>1, <1>2

\* What Set leaves of the socket.
LEMMA SetIs ==
  ASSUME Typed(hook, sock), NEW s \in Sockets, NEW r \in SockRows, Set(s, r)
  PROVE  /\ sock' \in [Sockets -> SockRows]
         /\ \A x \in Sockets : x # s => sock'[x] = sock[x]
         /\ sock'[s] = r \/ (sock'[s] = Free /\ r.client = "closed" /\ r.server # "open")
<1>1. Free \in SockRows
  BY RowsTyped
<1> QED
  BY <1>1 DEF Typed, Set

-----------------------------------------------------------------------------
(* Four kinds of steps, and what each leaves of the invariant. *)

\* The hooks but h, and the wires, stay as they are or shrink.
Shrinks(h) == /\ \A g \in Hooks \ {h} : hook'[g] = hook[g]
              /\ hook'[h].queue \subseteq hook[h].queue
              /\ \A x \in Sockets : sock'[x].wire \subseteq sock[x].wire

LEMMA ApartShrinks ==
  ASSUME Apart(hook, sock), NEW h \in Hooks, Shrinks(h)
  PROVE  Apart(hook', sock')
<1>1. \A g \in Hooks : hook'[g].queue \subseteq hook[g].queue
  BY DEF Shrinks
<1>2. \A x \in Sockets : sock'[x].wire \subseteq sock[x].wire
  BY DEF Shrinks
<1> HIDE DEF Shrinks
<1>3. \A s, t \in Sockets : s # t => sock'[s].wire \cap sock'[t].wire = {}
  BY <1>2 DEF Apart
<1>4. \A s \in Sockets, g \in Hooks : sock'[s].wire \cap hook'[g].queue = {}
  BY <1>1, <1>2 DEF Apart
<1>5. \A f, g \in Hooks : f # g => hook'[f].queue \cap hook'[g].queue = {}
  BY <1>1 DEF Apart
<1> QED
  BY <1>3, <1>4, <1>5 DEF Apart

\* A new socket: the screen is mounted, the token is new, or the timer has fired.
LEMMA OpeningStep ==
  ASSUME Inv, NEW h \in Hooks, NEW s \in Sockets, Opening(h, s),
         hook' \in [Hooks -> HookRows],
         \A g \in Hooks \ {h} : hook'[g] = hook[g],
         hook'[h].mounted, hook'[h].ref = s, ~hook'[h].isConnected, hook'[h].retry = "none",
         hook'[h].queue \subseteq hook[h].queue
  PROVE  /\ Typed(hook', sock') /\ Sound(hook', sock') /\ Apart(hook', sock') /\ EntryIsLive'
         /\ Shrinks(h)
         /\ hook[h].ref = 0 => \A x \in Sockets : sock'[x].wire = sock[x].wire
<1> DEFINE r == hook[h].ref
           d == Disconnected(h, sock)
           new == [owner |-> h, client |-> "connecting", server |-> "none", wire |-> {}]
<1>1. /\ d \in [Sockets -> SockRows] /\ (r # 0 => r \in Sockets)
      /\ \A x \in Sockets : x # r => d[x] = sock[x]
      /\ r # 0 => /\ d[r].client = "closed" /\ d[r].wire \subseteq sock[r].wire
                  /\ sock[r].server = "open" => d[r].server = "open"
  BY DisconnectedIs, RefsAre DEF Inv
<1>2. /\ sock[s] = Free /\ sock' = [d EXCEPT ![s] = new] /\ entry' = entry
  BY DEF Opening
<1>3. new \in SockRows
  BY DEF SockRows
<1> HIDE DEF d, new
<1>4. /\ sock' \in [Sockets -> SockRows] /\ sock'[s] = new
      /\ \A x \in Sockets : x # s => sock'[x] = d[x]
  BY <1>1, <1>2, <1>3
<1>5. /\ new.owner = h /\ new.client = "connecting" /\ new.wire = {}
      /\ sock[s].client = "closed" /\ sock[s].wire = {} /\ sock[s].server # "open" /\ s # 0
  BY <1>2, SocketsAre DEF new, Free
<1>6. /\ Paired(hook, sock) /\ Honest(hook, sock) /\ Apart(hook, sock) /\ EntryIsLive
      /\ \A x \in Sockets : sock[x].client = "connecting" => sock[x].wire = {}
      /\ Typed(hook, sock) /\ entry \in 0..MaxSockets
  BY DEF Inv, Sound
<1>7. r # s
  BY <1>1, <1>5, <1>6 DEF Paired
<1>8. Paired(hook', sock')
  <2>1. ASSUME NEW g \in Hooks, hook'[g].ref # 0
        PROVE  sock'[hook'[g].ref].owner = g /\ sock'[hook'[g].ref].client # "closed"
    <3>1. CASE g = h
      BY <1>4, <1>5, <3>1
    <3>2. CASE g # h
      <4>1. hook[g].ref \in Sockets /\ hook[g].ref # s /\ hook[g].ref # r
        BY <1>1, <1>5, <1>6, <2>1, <3>2, RefsAre DEF Paired
      <4> QED
        BY <1>1, <1>4, <1>6, <2>1, <3>2, <4>1 DEF Paired
    <3> QED
      BY <3>1, <3>2
  <2>2. ASSUME NEW x \in Sockets, sock'[x].client # "closed"
        PROVE  sock'[x].owner \in Hooks /\ hook'[sock'[x].owner].ref = x
    <3>1. CASE x = s
      BY <1>4, <1>5, <3>1
    <3>2. CASE x # s
      <4>1. x # r /\ sock'[x] = sock[x]
        BY <1>1, <1>4, <2>2, <3>2, SocketsAre
      <4>2. sock[x].owner \in Hooks /\ hook[sock[x].owner].ref = x /\ sock[x].owner # h
        BY <1>6, <2>2, <4>1 DEF Paired
      <4> QED
        BY <4>1, <4>2
    <3> QED
      BY <3>1, <3>2
  <2> QED
    BY <2>1, <2>2 DEF Paired
<1>9. Honest(hook', sock')
  <2> SUFFICES ASSUME NEW g \in Hooks
               PROVE  /\ hook'[g].isConnected <=> /\ hook'[g].ref # 0
                                                  /\ sock'[hook'[g].ref].client = "open"
                      /\ ~hook'[g].mounted => hook'[g] = Unmounted
                      /\ hook'[g].retry # "none" => hook'[g].ref = 0
    BY DEF Honest
  <2>1. CASE g = h
    BY <1>4, <1>5, <2>1
  <2>2. CASE g # h
    <3>1. hook'[g] = hook[g]
      BY <2>2
    <3>2. hook[g].ref # 0 => sock'[hook[g].ref] = sock[hook[g].ref]
      <4> SUFFICES ASSUME hook[g].ref # 0 PROVE sock'[hook[g].ref] = sock[hook[g].ref]
        OBVIOUS
      <4>1. hook[g].ref \in Sockets /\ hook[g].ref # s /\ hook[g].ref # r
        BY <1>1, <1>5, <1>6, <2>2, RefsAre DEF Paired
      <4> QED
        BY <1>1, <1>4, <4>1
    <3> QED
      BY <1>6, <3>1, <3>2 DEF Honest
  <2> QED
    BY <2>1, <2>2
<1>10. \A x \in Sockets : sock'[x].client = "connecting" => sock'[x].wire = {}
  BY <1>1, <1>4, <1>5, <1>6, SocketsAre
<1>11. \A x \in Sockets : /\ sock'[x].wire \subseteq sock[x].wire
                          /\ r = 0 => sock'[x].wire = sock[x].wire
  BY <1>1, <1>4, <1>5, SocketsAre
<1>12. Shrinks(h)
  BY <1>11 DEF Shrinks
<1>13. EntryIsLive'
  <2> SUFFICES ASSUME entry # 0 PROVE sock'[entry].server = "open"
    BY <1>2 DEF EntryIsLive
  <2>1. entry \in Sockets /\ sock[entry].server = "open" /\ entry # s
    BY <1>5, <1>6, ConstantsAssumption DEF EntryIsLive, Sockets
  <2> QED
    BY <1>1, <1>4, <2>1
<1> QED
  BY <1>4, <1>6, <1>8, <1>9, <1>10, <1>11, <1>12, <1>13, ApartShrinks DEF Typed, Sound

\* The screen is left.
LEMMA UnmountStep ==
  ASSUME Inv, NEW h \in Hooks, Unmount(h)
  PROVE  /\ Typed(hook', sock') /\ Sound(hook', sock') /\ Apart(hook', sock') /\ EntryIsLive'
         /\ Shrinks(h) /\ hook'[h] = Unmounted
<1> DEFINE r == hook[h].ref
           d == Disconnected(h, sock)
<1>1. /\ d \in [Sockets -> SockRows] /\ (r # 0 => r \in Sockets)
      /\ \A x \in Sockets : x # r => d[x] = sock[x]
      /\ r # 0 => /\ d[r].client = "closed" /\ d[r].wire \subseteq sock[r].wire
                  /\ sock[r].server = "open" => d[r].server = "open"
  BY DisconnectedIs, RefsAre DEF Inv
<1>2. sock' = d /\ entry' = entry /\ hook' = [hook EXCEPT ![h] = Unmounted]
  BY DEF Unmount
<1> HIDE DEF d
<1>3. /\ Paired(hook, sock) /\ Honest(hook, sock) /\ Apart(hook, sock) /\ EntryIsLive
      /\ \A x \in Sockets : sock[x].client = "connecting" => sock[x].wire = {}
      /\ Typed(hook, sock) /\ entry \in 0..MaxSockets
  BY DEF Inv, Sound
<1>4. /\ hook' \in [Hooks -> HookRows] /\ hook'[h] = Unmounted
      /\ \A g \in Hooks \ {h} : hook'[g] = hook[g]
  BY <1>2, <1>3, RowsTyped DEF Typed
<1>5. ASSUME NEW g \in Hooks, g # h, hook[g].ref # 0
      PROVE  hook[g].ref \in Sockets /\ sock'[hook[g].ref] = sock[hook[g].ref]
  <2>1. hook[g].ref \in Sockets /\ hook[g].ref # r
    BY <1>1, <1>3, <1>5, RefsAre DEF Paired
  <2> QED
    BY <1>1, <1>2, <2>1
<1>6. Unmounted.ref = 0 /\ Unmounted.retry = "none" /\ ~Unmounted.isConnected /\ Unmounted.queue = {}
  BY DEF Unmounted
<1>7. Paired(hook', sock')
  <2>1. ASSUME NEW g \in Hooks, hook'[g].ref # 0
        PROVE  sock'[hook'[g].ref].owner = g /\ sock'[hook'[g].ref].client # "closed"
    BY <1>3, <1>4, <1>5, <1>6, <2>1 DEF Paired
  <2>2. ASSUME NEW x \in Sockets, sock'[x].client # "closed"
        PROVE  sock'[x].owner \in Hooks /\ hook'[sock'[x].owner].ref = x
    <3>1. x # r /\ sock'[x] = sock[x]
      BY <1>1, <1>2, <2>2, SocketsAre
    <3>2. sock[x].owner \in Hooks /\ hook[sock[x].owner].ref = x /\ sock[x].owner # h
      BY <1>3, <2>2, <3>1 DEF Paired
    <3> QED
      BY <1>4, <3>1, <3>2
  <2> QED
    BY <2>1, <2>2 DEF Paired
<1>8. Honest(hook', sock')
  <2> SUFFICES ASSUME NEW g \in Hooks
               PROVE  /\ hook'[g].isConnected <=> /\ hook'[g].ref # 0
                                                  /\ sock'[hook'[g].ref].client = "open"
                      /\ ~hook'[g].mounted => hook'[g] = Unmounted
                      /\ hook'[g].retry # "none" => hook'[g].ref = 0
    BY DEF Honest
  <2>1. CASE g = h
    BY <1>4, <1>6, <2>1
  <2>2. CASE g # h
    BY <1>3, <1>4, <1>5, <2>2 DEF Honest
  <2> QED
    BY <2>1, <2>2
<1>9. \A x \in Sockets : /\ sock'[x].wire \subseteq sock[x].wire
                         /\ sock'[x].client = "connecting" => sock'[x].wire = {}
  BY <1>1, <1>2, <1>3, SocketsAre
<1>10. Shrinks(h)
  BY <1>4, <1>6, <1>9 DEF Shrinks
<1>11. EntryIsLive'
  <2> SUFFICES ASSUME entry # 0 PROVE sock'[entry].server = "open"
    BY <1>2 DEF EntryIsLive
  <2>1. entry \in Sockets /\ sock[entry].server = "open"
    BY <1>3, ConstantsAssumption DEF EntryIsLive, Sockets
  <2> QED
    BY <1>1, <1>2, <2>1
<1> QED
  BY <1>1, <1>2, <1>3, <1>4, <1>7, <1>8, <1>9, <1>10, <1>11, ApartShrinks DEF Typed, Sound

\* The client sees the end of a socket.
LEMMA ClientClosedStep ==
  ASSUME Inv, NEW s \in Sockets, NEW retry \in {"armed", "expired"},
         sock[s].client \in {"connecting", "open"}, ClientClosed(s, retry)
  PROVE  /\ Typed(hook', sock') /\ Sound(hook', sock') /\ Apart(hook', sock') /\ EntryIsLive'
         /\ sock[s].owner \in Hooks
         /\ Shrinks(sock[s].owner) /\ ~hook'[sock[s].owner].isConnected
         /\ hook'[sock[s].owner].queue = hook[sock[s].owner].queue
<1> DEFINE h == sock[s].owner
           row == [sock[s] EXCEPT !.client = "closed"]
<1>1. /\ Paired(hook, sock) /\ Honest(hook, sock) /\ Apart(hook, sock) /\ EntryIsLive
      /\ \A x \in Sockets : sock[x].client = "connecting" => sock[x].wire = {}
      /\ Typed(hook, sock) /\ entry \in 0..MaxSockets
  BY DEF Inv, Sound
<1>2. h \in Hooks /\ hook[h].ref = s /\ s # 0
  BY <1>1, SocketsAre DEF Paired
<1>3. sock[s] \in SockRows /\ hook[h] \in HookRows
  BY <1>1, <1>2 DEF Typed
<1>4. /\ row \in SockRows /\ row.client = "closed" /\ row.wire = sock[s].wire
      /\ row.server = sock[s].server
  BY <1>3 DEF SockRows
<1>5. /\ sock' \in [Sockets -> SockRows] /\ \A x \in Sockets : x # s => sock'[x] = sock[x]
      /\ sock'[s] = row \/ (sock'[s] = Free /\ row.server # "open")
  BY <1>1, <1>4, SetIs DEF ClientClosed
<1>6. /\ sock'[s].client = "closed" /\ sock'[s].wire \subseteq sock[s].wire
      /\ sock[s].server = "open" => sock'[s].server = "open"
  <2>1. Free.client = "closed" /\ Free.wire = {}
    BY DEF Free
  <2> HIDE DEF row
  <2> QED
    BY <1>4, <1>5, <2>1
<1>7. /\ hook' = [hook EXCEPT ![h].isConnected = FALSE, ![h].ref = 0, ![h].listening = FALSE,
                              ![h].retry = retry]
      /\ entry' = entry
  BY DEF ClientClosed, Rescheduled
<1> HIDE DEF h, row
<1>8. /\ hook' \in [Hooks -> HookRows] /\ \A g \in Hooks \ {h} : hook'[g] = hook[g]
      /\ ~hook'[h].isConnected /\ hook'[h].ref = 0 /\ hook'[h].queue = hook[h].queue
      /\ hook'[h].mounted = hook[h].mounted
  <2>1. /\ hook \in [Hooks -> HookRows] /\ hook[h] \in HookRows
    BY <1>1, <1>2 DEF Typed
  <2> DEFINE new == [hook[h] EXCEPT !.isConnected = FALSE, !.ref = 0, !.listening = FALSE,
                                    !.retry = retry]
  <2>2. hook' = [hook EXCEPT ![h] = new]
    BY <1>2, <1>7, <2>1 DEF HookRows
  <2>3. /\ new \in HookRows /\ ~new.isConnected /\ new.ref = 0 /\ new.queue = hook[h].queue
        /\ new.mounted = hook[h].mounted
    <3>1. 0 \in 0..MaxSockets /\ retry \in {"none", "armed", "expired"}
      BY ConstantsAssumption
    <3> QED
      BY <2>1, <3>1 DEF HookRows
  <2> HIDE DEF new
  <2> QED
    BY <1>2, <2>1, <2>2, <2>3
<1>9. hook[h].mounted
  BY <1>1, <1>2 DEF Honest, Unmounted
<1>10. ASSUME NEW g \in Hooks, g # h, hook[g].ref # 0
       PROVE  hook[g].ref \in Sockets /\ sock'[hook[g].ref] = sock[hook[g].ref]
  <2>1. hook[g].ref \in Sockets /\ hook[g].ref # s
    BY <1>1, <1>10, RefsAre DEF Paired, h
  <2> QED
    BY <1>5, <2>1
<1>11. Paired(hook', sock')
  <2>1. ASSUME NEW g \in Hooks, hook'[g].ref # 0
        PROVE  sock'[hook'[g].ref].owner = g /\ sock'[hook'[g].ref].client # "closed"
    BY <1>1, <1>8, <1>10, <2>1 DEF Paired
  <2>2. ASSUME NEW x \in Sockets, sock'[x].client # "closed"
        PROVE  sock'[x].owner \in Hooks /\ hook'[sock'[x].owner].ref = x
    <3>1. x # s /\ sock'[x] = sock[x]
      BY <1>5, <1>6, <2>2
    <3>2. sock[x].owner \in Hooks /\ hook[sock[x].owner].ref = x /\ sock[x].owner # h
      BY <1>1, <1>2, <2>2, <3>1 DEF Paired
    <3> QED
      BY <1>8, <3>1, <3>2
  <2> QED
    BY <2>1, <2>2 DEF Paired
<1>12. Honest(hook', sock')
  <2> SUFFICES ASSUME NEW g \in Hooks
               PROVE  /\ hook'[g].isConnected <=> /\ hook'[g].ref # 0
                                                  /\ sock'[hook'[g].ref].client = "open"
                      /\ ~hook'[g].mounted => hook'[g] = Unmounted
                      /\ hook'[g].retry # "none" => hook'[g].ref = 0
    BY DEF Honest
  <2>1. CASE g = h
    BY <1>8, <1>9, <2>1
  <2>2. CASE g # h
    BY <1>1, <1>8, <1>10, <2>2 DEF Honest
  <2> QED
    BY <2>1, <2>2
<1>13. \A x \in Sockets : /\ sock'[x].wire \subseteq sock[x].wire
                          /\ sock'[x].client = "connecting" => sock'[x].wire = {}
  BY <1>1, <1>5, <1>6
<1>14. Shrinks(h)
  BY <1>8, <1>13 DEF Shrinks
<1>15. EntryIsLive'
  <2> SUFFICES ASSUME entry # 0 PROVE sock'[entry].server = "open"
    BY <1>7 DEF EntryIsLive
  <2>1. entry \in Sockets /\ sock[entry].server = "open"
    BY <1>1, ConstantsAssumption DEF EntryIsLive, Sockets
  <2> QED
    BY <1>5, <1>6, <2>1
<1> QED
  BY <1>2, <1>5, <1>8, <1>11, <1>12, <1>13, <1>14, <1>15, <1>1, ApartShrinks DEF Typed, Sound, h

\* The server's side: sockets keep what the client knows of them, and wires lose events.
LEMMA ServerStep ==
  ASSUME Inv, hook' = hook, sock' \in [Sockets -> SockRows],
         \A x \in Sockets : /\ sock'[x].wire \subseteq sock[x].wire
                            /\ sock'[x].client = sock[x].client
                            /\ sock[x].client # "closed" => sock'[x].owner = sock[x].owner
  PROVE  Typed(hook', sock') /\ Sound(hook', sock') /\ Apart(hook', sock')
<1>1. /\ Paired(hook, sock) /\ Honest(hook, sock) /\ Apart(hook, sock)
      /\ \A x \in Sockets : sock[x].client = "connecting" => sock[x].wire = {}
      /\ Typed(hook, sock)
  BY DEF Inv, Sound
<1>2. Paired(hook', sock')
  BY <1>1, RefsAre DEF Paired
<1>3. Honest(hook', sock')
  <2>1. \A h \in Hooks : hook[h].ref # 0 => hook[h].ref \in Sockets
    BY <1>1, RefsAre
  <2> QED
    BY <1>1, <2>1 DEF Honest
<1>4. Apart(hook', sock')
  <2>1. \A s, t \in Sockets : s # t => sock'[s].wire \cap sock'[t].wire = {}
    BY <1>1 DEF Apart
  <2>2. \A s \in Sockets, g \in Hooks : sock'[s].wire \cap hook'[g].queue = {}
    BY <1>1 DEF Apart
  <2> QED
    BY <1>1, <2>1, <2>2 DEF Apart
<1>5. \A x \in Sockets : sock'[x].client = "connecting" => sock'[x].wire = {}
  BY <1>1
<1> QED
  BY <1>1, <1>2, <1>3, <1>4, <1>5 DEF Typed, Sound

-----------------------------------------------------------------------------
(* What the screens see of the sockets: the state of SocketLink.            *)

Linked(hk)  == {h \in Hooks : hk[h].isConnected}
Waiting(hk) == [h \in Hooks |-> hk[h].queue]
Sent(so)    == UNION {so[s].wire : s \in Sockets}

LinkSame == UNCHANGED <<Linked(hook), Waiting(hook), Sent(sock), heard>>

LEMMA LinkIs ==
  /\ LinkSame => UNCHANGED Link!vars
  /\ \A so, e : e \in Sent(so) <=> \E s \in Sockets : e \in so[s].wire
<1>1. LinkSame => UNCHANGED Link!vars
  BY DEF LinkSame, Link!vars, Linked, Waiting, Sent
<1>2. \A so, e : e \in Sent(so) <=> \E s \in Sockets : e \in so[s].wire
  BY DEF Sent
<1> QED
  BY <1>1, <1>2

LEMMA LinkStutters ==
  ASSUME \A g \in Hooks : /\ hook'[g].isConnected = hook[g].isConnected
                          /\ hook'[g].queue = hook[g].queue,
         \A x \in Sockets : sock'[x].wire = sock[x].wire,
         heard' = heard
  PROVE  LinkSame
<1>1. Linked(hook') = Linked(hook) /\ Waiting(hook') = Waiting(hook)
  BY DEF Linked, Waiting
<1>2. Sent(sock') = Sent(sock)
  BY DEF Sent
<1> QED
  BY <1>1, <1>2 DEF LinkSame, Linked, Waiting, Sent

LEMMA LinkCloses ==
  ASSUME NEW h \in Hooks, Shrinks(h), hook'[h].isConnected = FALSE, hook'[h].queue = {},
         heard' = heard
  PROVE  Link!Next
<1>1. Linked(hook') = Linked(hook) \ {h}
  BY DEF Linked, Shrinks
<1>2. Waiting(hook') = [Waiting(hook) EXCEPT ![h] = {}]
  BY DEF Waiting, Shrinks
<1>3. Sent(sock') \subseteq Sent(sock)
  BY LinkIs DEF Shrinks
<1> QED
  BY <1>1, <1>2, <1>3 DEF Link!Next, Link!Close, Link!Lose, Linked, Waiting, Sent

LEMMA LinkGoesDown ==
  ASSUME \A g \in Hooks : /\ hook'[g].isConnected => hook[g].isConnected
                          /\ hook'[g].queue = hook[g].queue,
         \A x \in Sockets : sock'[x].wire \subseteq sock[x].wire,
         heard' = heard
  PROVE  Link!Next
<1>1. Linked(hook') \subseteq Linked(hook) /\ Waiting(hook') = Waiting(hook)
  BY DEF Linked, Waiting
<1>2. Sent(sock') \subseteq Sent(sock)
  BY LinkIs
<1> QED
  BY <1>1, <1>2 DEF Link!Next, Link!Down, Link!Lose, Linked, Waiting, Sent

-----------------------------------------------------------------------------
(* Every action.                                                           *)

Core(hk, so) == Typed(hk, so) /\ Sound(hk, so) /\ Apart(hk, so)

\* The step keeps the invariant and is one of the link.
Done == Core(hook', sock') /\ EntryIsLive' /\ (Link!Next \/ LinkSame)

LEMMA HookActions ==
  ASSUME Inv, NEW h \in Hooks,
         Unmount(h) \/ \E s \in Sockets : Mount(h, s) \/ Renew(h, s) \/ Reconnect(h, s)
  PROVE  Done
<1>0. /\ hook \in [Hooks -> HookRows] /\ hook[h] \in HookRows /\ Honest(hook, sock)
      /\ \A s \in Sockets : s \in 0..MaxSockets /\ s # 0
  BY SocketsAre DEF Inv, Typed, Sound
<1>1. CASE Unmount(h)
  <2>1. Shrinks(h) /\ hook'[h].isConnected = FALSE /\ hook'[h].queue = {} /\ heard' = heard
    <3>1. Unmounted.isConnected = FALSE /\ Unmounted.queue = {}
      BY DEF Unmounted
    <3>2. Shrinks(h) /\ hook'[h] = Unmounted /\ heard' = heard
      BY <1>1, UnmountStep DEF Unmount
    <3> QED
      BY <3>1, <3>2
  <2> QED
    BY <1>1, <2>1, UnmountStep, LinkCloses DEF Done, Core
<1>2. ASSUME NEW s \in Sockets, Mount(h, s) PROVE Done
  <2> DEFINE row == [Unmounted EXCEPT !.mounted = TRUE, !.ref = s, !.listening = h \in ByOn]
  <2>1. /\ row \in HookRows /\ row.mounted /\ row.ref = s /\ ~row.isConnected
        /\ row.isConnected = FALSE /\ row.retry = "none" /\ row.queue = {}
    <3> DEFINE listens == h \in ByOn
    <3>1. listens \in BOOLEAN
      OBVIOUS
    <3> HIDE DEF listens
    <3>2. row = [Unmounted EXCEPT !.mounted = TRUE, !.ref = s, !.listening = listens]
      BY DEF listens
    <3> HIDE DEF row
    <3> QED
      BY <1>0, <3>1, <3>2 DEF Unmounted, HookRows
  <2>2. hook' = [hook EXCEPT ![h] = row] /\ Opening(h, s) /\ hook[h] = Unmounted
    BY <1>0, <1>2 DEF Mount, Honest
  <2> HIDE DEF row
  <2>3. /\ hook' \in [Hooks -> HookRows] /\ \A g \in Hooks \ {h} : hook'[g] = hook[g]
        /\ hook'[h] = row
    BY <1>0, <2>1, <2>2
  <2>4. hook[h].ref = 0 /\ hook[h].isConnected = FALSE /\ hook[h].queue = {}
    BY <2>2 DEF Unmounted
  <2>5. /\ Core(hook', sock') /\ EntryIsLive'
        /\ \A x \in Sockets : sock'[x].wire = sock[x].wire
    BY <2>1, <2>2, <2>3, <2>4, OpeningStep DEF Core
  <2>6. heard' = heard
    BY <2>2 DEF Opening
  <2>7. LinkSame
    BY <2>1, <2>3, <2>4, <2>5, <2>6, LinkStutters
  <2> QED
    BY <2>5, <2>7 DEF Done
<1>3. ASSUME NEW s \in Sockets, Renew(h, s) PROVE Done
  <2> DEFINE row == [Unmounted EXCEPT !.mounted = TRUE, !.ref = s]
  <2>1. /\ row \in HookRows /\ row.mounted /\ row.ref = s /\ ~row.isConnected
        /\ row.isConnected = FALSE /\ row.retry = "none" /\ row.queue = {}
    BY <1>0 DEF Unmounted, HookRows
  <2>2. hook' = [hook EXCEPT ![h] = row] /\ Opening(h, s)
    BY <1>3 DEF Renew
  <2> HIDE DEF row
  <2>3. /\ hook' \in [Hooks -> HookRows] /\ \A g \in Hooks \ {h} : hook'[g] = hook[g]
        /\ hook'[h] = row
    BY <1>0, <2>1, <2>2
  <2>4. Core(hook', sock') /\ EntryIsLive' /\ Shrinks(h)
    BY <2>1, <2>2, <2>3, OpeningStep DEF Core
  <2>5. heard' = heard
    BY <2>2 DEF Opening
  <2> QED
    BY <2>1, <2>3, <2>4, <2>5, LinkCloses DEF Done
<1>4. ASSUME NEW s \in Sockets, Reconnect(h, s) PROVE Done
  <2> DEFINE row == [hook[h] EXCEPT !.retry = "none", !.ref = s, !.listening = FALSE]
  <2>1. /\ row \in HookRows /\ row.mounted = hook[h].mounted /\ row.ref = s
        /\ row.isConnected = hook[h].isConnected /\ row.retry = "none" /\ row.queue = hook[h].queue
    BY <1>0 DEF HookRows
  <2>2. hook' = [hook EXCEPT ![h] = row] /\ Opening(h, s) /\ hook[h].retry = "armed"
    BY <1>0, <1>4 DEF Reconnect, HookRows
  <2>3. hook[h].ref = 0 /\ ~hook[h].isConnected /\ hook[h].mounted
    BY <1>0, <2>2 DEF Honest, Unmounted
  <2> HIDE DEF row
  <2>4. /\ hook' \in [Hooks -> HookRows] /\ \A g \in Hooks \ {h} : hook'[g] = hook[g]
        /\ hook'[h] = row
    BY <1>0, <2>1, <2>2
  <2>5. /\ Core(hook', sock') /\ EntryIsLive'
        /\ \A x \in Sockets : sock'[x].wire = sock[x].wire
    BY <2>1, <2>2, <2>3, <2>4, OpeningStep DEF Core
  <2>6. heard' = heard
    BY <2>2 DEF Opening
  <2>7. LinkSame
    BY <2>1, <2>4, <2>5, <2>6, LinkStutters
  <2> QED
    BY <2>5, <2>7 DEF Done
<1> QED
  BY <1>1, <1>2, <1>3, <1>4

LEMMA ServerActions ==
  ASSUME Inv,
         \/ \E s \in Sockets : \/ Handshake(s) \/ Evict(s) \/ Notice(s)
                               \/ \E e \in Events : Hear(s, e)
         \/ Restart
  PROVE  Done
<1>0. /\ hook \in [Hooks -> HookRows] /\ sock \in [Sockets -> SockRows] /\ Typed(hook, sock)
      /\ \A s \in Sockets : sock[s] \in SockRows
      /\ Free \in SockRows /\ Free.client = "closed" /\ Free.wire = {}
      /\ EntryIsLive /\ entry \in 0..MaxSockets /\ (entry # 0 => entry \in Sockets)
  BY RowsTyped, ConstantsAssumption DEF Inv, Typed, Free, Sockets
\* A socket changes on the server's side only.
<1>1. ASSUME NEW s \in Sockets, NEW r \in SockRows, Set(s, r), hook' = hook,
             r.client = sock[s].client, r.owner = sock[s].owner, r.wire \subseteq sock[s].wire
      PROVE  /\ Core(hook', sock')
             /\ \A x \in Sockets : x # s => sock'[x] = sock[x]
             /\ sock'[s] = r \/ (sock'[s] = Free /\ r.server # "open")
             /\ \A x \in Sockets : sock'[x].wire \subseteq sock[x].wire
  <2>1. /\ sock' \in [Sockets -> SockRows] /\ \A x \in Sockets : x # s => sock'[x] = sock[x]
        /\ sock'[s] = r \/ (sock'[s] = Free /\ r.client = "closed" /\ r.server # "open")
    BY <1>0, <1>1, SetIs
  <2>2. \A x \in Sockets : /\ sock'[x].wire \subseteq sock[x].wire
                           /\ sock'[x].client = sock[x].client
                           /\ sock[x].client # "closed" => sock'[x].owner = sock[x].owner
    BY <1>0, <1>1, <2>1
  <2> QED
    BY <1>1, <2>1, <2>2, ServerStep DEF Core
<1>2. ASSUME NEW s \in Sockets, Handshake(s) PROVE Done
  <2> DEFINE r == [sock[s] EXCEPT !.server = "open"]
  <2>1. /\ r \in SockRows /\ r.client = sock[s].client /\ r.owner = sock[s].owner
        /\ r.wire = sock[s].wire /\ r.server = "open"
    BY <1>0 DEF SockRows
  <2>2. Set(s, r) /\ hook' = hook /\ entry' = s /\ heard' = heard
    BY <1>2 DEF Handshake
  <2> HIDE DEF r
  <2>3. /\ Core(hook', sock') /\ \A x \in Sockets : sock'[x].wire = sock[x].wire
        /\ sock'[s].server = "open"
    BY <1>1, <2>1, <2>2
  <2>4. LinkSame
    BY <2>2, <2>3, LinkStutters
  <2> QED
    BY <2>2, <2>3, <2>4 DEF Done, EntryIsLive
<1>3. ASSUME NEW s \in Sockets, ServerClosed(s), hook' = hook, heard' = heard PROVE Done
  <2> DEFINE r == [sock[s] EXCEPT !.server = "closed", !.wire = {}]
  <2>1. /\ r \in SockRows /\ r.client = sock[s].client /\ r.owner = sock[s].owner
        /\ r.wire \subseteq sock[s].wire
    BY <1>0 DEF SockRows
  <2>2. Set(s, r) /\ entry' = 0
    BY <1>3 DEF ServerClosed
  <2> HIDE DEF r
  <2>3. Core(hook', sock') /\ \A x \in Sockets : sock'[x].wire \subseteq sock[x].wire
    BY <1>1, <1>3, <2>1, <2>2
  <2>4. Link!Next
    BY <1>3, <2>3, LinkGoesDown
  <2> QED
    BY <2>2, <2>3, <2>4 DEF Done, EntryIsLive
<1>4. ASSUME NEW s \in Sockets, NEW e \in Events, Hear(s, e) PROVE Done
  <2> DEFINE r == [sock[s] EXCEPT !.wire = @ \ {e}]
  <2>1. /\ r \in SockRows /\ r.client = sock[s].client /\ r.owner = sock[s].owner
        /\ r.wire = sock[s].wire \ {e} /\ r.server = sock[s].server
    BY <1>0 DEF SockRows
  <2>2. /\ Set(s, r) /\ hook' = hook /\ entry' = entry /\ heard' = heard \cup {e}
        /\ sock[s].server = "open" /\ e \in sock[s].wire
    BY <1>4 DEF Hear
  <2> HIDE DEF r
  <2>3. /\ Core(hook', sock') /\ sock'[s] = r
        /\ \A x \in Sockets : x # s => sock'[x] = sock[x]
    BY <1>1, <2>1, <2>2
  <2>4. EntryIsLive'
    BY <1>0, <2>1, <2>2, <2>3 DEF EntryIsLive
  <2>5. \A x \in Sockets : e \in sock[x].wire => x = s
    BY <2>2 DEF Inv, Apart
  <2>6. Sent(sock') = Sent(sock) \ {e} /\ e \in Sent(sock)
    <3>1. \A f : (\E x \in Sockets : f \in sock'[x].wire)
                 <=> (\E x \in Sockets : f \in sock[x].wire) /\ f # e
      BY <2>1, <2>3, <2>5
    <3>2. \A f : f \in Sent(sock') <=> f \in Sent(sock) /\ f # e
      BY <3>1, LinkIs
    <3> QED
      BY <2>2, <3>2, LinkIs
  <2>7. Link!Hear(e)
    BY <2>2, <2>6 DEF Link!Hear, Sent
  <2> QED
    BY <2>3, <2>4, <2>7 DEF Done, Link!Next
<1>5. CASE Restart
  <2> DEFINE Shut(x) == [sock[x] EXCEPT !.server = "closed", !.wire = {}]
  <2>1. /\ sock' = [s \in Sockets |-> CASE sock[s].server # "open" -> sock[s]
                                        [] sock[s].client = "closed" -> Free
                                        [] OTHER -> Shut(s)]
        /\ entry' = 0 /\ hook' = hook /\ heard' = heard
    BY <1>5 DEF Restart
  <2>2. ASSUME NEW x \in Sockets
        PROVE  /\ sock'[x] \in SockRows /\ sock'[x].wire \subseteq sock[x].wire
               /\ sock'[x].client = sock[x].client
               /\ sock[x].client # "closed" => sock'[x].owner = sock[x].owner
    <3> DEFINE r == Shut(x)
    <3>1. /\ r \in SockRows /\ r.wire = {} /\ r.client = sock[x].client
          /\ r.owner = sock[x].owner
      BY <1>0 DEF SockRows
    <3> HIDE DEF Shut
    <3>2. sock'[x] = sock[x] \/ (sock'[x] = Free /\ sock[x].client = "closed") \/ sock'[x] = r
      <4>1. CASE sock[x].server # "open"
        BY <2>1, <4>1
      <4>2. CASE sock[x].server = "open" /\ sock[x].client = "closed"
        BY <2>1, <4>2
      <4>3. CASE sock[x].server = "open" /\ sock[x].client # "closed"
        BY <2>1, <4>3
      <4> QED
        BY <4>1, <4>2, <4>3
    <3> HIDE DEF r
    <3> QED
      BY <1>0, <3>1, <3>2
  <2>3. sock' \in [Sockets -> SockRows]
    BY <2>1, <2>2
  <2>4. Core(hook', sock')
    BY <2>1, <2>2, <2>3, ServerStep DEF Core
  <2>5. Link!Next
    BY <2>1, <2>2, LinkGoesDown
  <2> QED
    BY <2>1, <2>4, <2>5 DEF Done, EntryIsLive
<1>6. ASSUME NEW s \in Sockets, Evict(s) \/ Notice(s) PROVE Done
  BY <1>3, <1>6 DEF Evict, Notice
<1> QED
  BY <1>2, <1>4, <1>5, <1>6

LEMMA ClientActions ==
  ASSUME Inv, NEW s \in Sockets, Lost(s) \/ Refused(s)
  PROVE  Done
<1>1. PICK retry \in {"armed", "expired"} : /\ ClientClosed(s, retry)
                                           /\ sock[s].client \in {"connecting", "open"}
  BY DEF Lost, Refused
<1> DEFINE h == sock[s].owner
<1>2. /\ Core(hook', sock') /\ EntryIsLive' /\ h \in Hooks /\ Shrinks(h)
      /\ ~hook'[h].isConnected /\ hook'[h].queue = hook[h].queue
  BY <1>1, ClientClosedStep DEF Core
<1>3. heard' = heard
  BY <1>1 DEF ClientClosed
<1> HIDE DEF h
<1>4. \A g \in Hooks : /\ hook'[g].isConnected => hook[g].isConnected
                       /\ hook'[g].queue = hook[g].queue
  BY <1>2 DEF Shrinks
<1>5. Link!Next
  BY <1>2, <1>3, <1>4, LinkGoesDown DEF Shrinks
<1> QED
  BY <1>2, <1>5 DEF Done

\* The socket is open on both sides: what waited is on its wire.
LEMMA OpenedStep ==
  ASSUME Inv, NEW s \in Sockets, Opened(s)
  PROVE  Done
<1> DEFINE h == sock[s].owner
           hookRow == [hook[h] EXCEPT !.isConnected = TRUE, !.queue = {},
                                      !.listening = h \notin ByOn \/ @]
           sockRow == [sock[s] EXCEPT !.client = "open", !.wire = hook[h].queue]
<1>0. /\ Paired(hook, sock) /\ Honest(hook, sock) /\ Apart(hook, sock) /\ EntryIsLive
      /\ \A x \in Sockets : sock[x].client = "connecting" => sock[x].wire = {}
      /\ Typed(hook, sock) /\ entry \in 0..MaxSockets
  BY DEF Inv, Sound
<1>1. /\ sock[s].client = "connecting" /\ sock[s].server = "open"
      /\ entry' = entry /\ heard' = heard
  BY DEF Opened
<1>2. h \in Hooks /\ hook[h].ref = s /\ s # 0 /\ sock[s].wire = {} /\ hook[h].mounted
  <2>1. h \in Hooks /\ hook[h].ref = s /\ s # 0 /\ sock[s].wire = {}
    BY <1>0, <1>1, SocketsAre DEF Paired
  <2> QED
    BY <1>0, <2>1 DEF Honest, Unmounted
<1>3. hook[h] \in HookRows /\ sock[s] \in SockRows
  BY <1>0, <1>2 DEF Typed
<1>4. /\ hookRow \in HookRows /\ hookRow.mounted = hook[h].mounted /\ hookRow.ref = s
      /\ hookRow.isConnected = TRUE /\ hookRow.queue = {} /\ hookRow.retry = hook[h].retry
  <2> DEFINE listens == h \notin ByOn \/ hook[h].listening
  <2>1. listens \in BOOLEAN
    OBVIOUS
  <2> HIDE DEF listens
  <2>2. hookRow = [hook[h] EXCEPT !.isConnected = TRUE, !.queue = {}, !.listening = listens]
    BY DEF listens
  <2> HIDE DEF hookRow, h
  <2> QED
    BY <1>2, <1>3, <2>1, <2>2 DEF HookRows
<1>5. /\ sockRow \in SockRows /\ sockRow.client = "open" /\ sockRow.wire = hook[h].queue
      /\ sockRow.server = "open" /\ sockRow.owner = h
  <2>1. hook[h].queue \subseteq Events
    BY <1>3 DEF HookRows
  <2> QED
    BY <1>1, <1>3, <2>1 DEF SockRows
<1>6. /\ hook' = [hook EXCEPT ![h] = hookRow]
      /\ sock' = [sock EXCEPT ![s] = sockRow]
  <2>1. hook \in [Hooks -> HookRows] /\ sock \in [Sockets -> SockRows]
    BY <1>0 DEF Typed
  <2> QED
    BY <1>2, <1>3, <2>1 DEF Opened, HookRows, SockRows
<1> HIDE DEF h, hookRow, sockRow
<1>7. /\ hook' \in [Hooks -> HookRows] /\ hook'[h] = hookRow
      /\ \A g \in Hooks : g # h => hook'[g] = hook[g]
      /\ sock' \in [Sockets -> SockRows] /\ sock'[s] = sockRow
      /\ \A x \in Sockets : x # s => sock'[x] = sock[x]
  BY <1>0, <1>2, <1>4, <1>5, <1>6 DEF Typed
<1>8. Paired(hook', sock')
  <2>1. ASSUME NEW g \in Hooks, hook'[g].ref # 0
        PROVE  sock'[hook'[g].ref].owner = g /\ sock'[hook'[g].ref].client # "closed"
    <3>1. CASE g = h
      BY <1>4, <1>5, <1>7, <3>1
    <3>2. CASE g # h
      <4>1. hook[g].ref \in Sockets /\ hook[g].ref # s /\ hook'[g] = hook[g]
        BY <1>0, <1>7, <2>1, <3>2, RefsAre DEF Paired, h
      <4> QED
        BY <1>0, <1>7, <2>1, <4>1 DEF Paired
    <3> QED
      BY <3>1, <3>2
  <2>2. ASSUME NEW x \in Sockets, sock'[x].client # "closed"
        PROVE  sock'[x].owner \in Hooks /\ hook'[sock'[x].owner].ref = x
    <3>1. CASE x = s
      BY <1>2, <1>4, <1>5, <1>7, <3>1
    <3>2. CASE x # s
      BY <1>0, <1>2, <1>7, <2>2, <3>2 DEF Paired
    <3> QED
      BY <3>1, <3>2
  <2> QED
    BY <2>1, <2>2 DEF Paired
<1>9. Honest(hook', sock')
  <2> SUFFICES ASSUME NEW g \in Hooks
               PROVE  /\ hook'[g].isConnected <=> /\ hook'[g].ref # 0
                                                  /\ sock'[hook'[g].ref].client = "open"
                      /\ ~hook'[g].mounted => hook'[g] = Unmounted
                      /\ hook'[g].retry # "none" => hook'[g].ref = 0
    BY DEF Honest
  <2>1. CASE g = h
    <3>1. hook[h].retry = "none"
      BY <1>0, <1>2 DEF Honest
    <3> QED
      BY <1>2, <1>4, <1>5, <1>7, <2>1, <3>1
  <2>2. CASE g # h
    <3>1. hook'[g] = hook[g]
      BY <1>7, <2>2
    <3>2. hook[g].ref # 0 => sock'[hook[g].ref] = sock[hook[g].ref]
      BY <1>0, <1>7, <2>2, RefsAre DEF Paired, h
    <3> QED
      BY <1>0, <3>1, <3>2 DEF Honest
  <2> QED
    BY <2>1, <2>2
<1>10. Apart(hook', sock')
  <2>1. ASSUME NEW x \in Sockets, NEW y \in Sockets, x # y PROVE sock'[x].wire \cap sock'[y].wire = {}
    BY <1>0, <1>2, <1>5, <1>7, <2>1 DEF Apart
  <2>2. ASSUME NEW x \in Sockets, NEW g \in Hooks PROVE sock'[x].wire \cap hook'[g].queue = {}
    BY <1>0, <1>2, <1>4, <1>5, <1>7, <2>2 DEF Apart
  <2>3. ASSUME NEW f \in Hooks, NEW g \in Hooks, f # g PROVE hook'[f].queue \cap hook'[g].queue = {}
    BY <1>0, <1>4, <1>7, <2>3 DEF Apart
  <2> QED
    BY <2>1, <2>2, <2>3 DEF Apart
<1>11. \A x \in Sockets : sock'[x].client = "connecting" => sock'[x].wire = {}
  BY <1>0, <1>5, <1>7
<1>12. EntryIsLive'
  <2>1. entry # 0 => entry \in Sockets /\ sock[entry].server = "open"
    BY <1>0, ConstantsAssumption DEF EntryIsLive, Sockets
  <2> QED
    BY <1>1, <1>5, <1>7, <2>1 DEF EntryIsLive
<1>13. Link!Next
  <2>1. Linked(hook') = Linked(hook) \cup {h}
    BY <1>2, <1>4, <1>7 DEF Linked
  <2>2. Waiting(hook') = [Waiting(hook) EXCEPT ![h] = {}]
    BY <1>4, <1>7 DEF Waiting
  <2>3. Waiting(hook)[h] = hook[h].queue
    BY <1>2 DEF Waiting
  <2>4. Sent(sock') = Sent(sock) \cup hook[h].queue
    <3>1. \A f : (\E x \in Sockets : f \in sock'[x].wire)
                 <=> (\E x \in Sockets : f \in sock[x].wire) \/ f \in hook[h].queue
      BY <1>2, <1>5, <1>7
    <3>2. \A f : f \in Sent(sock') <=> f \in Sent(sock) \/ f \in hook[h].queue
      BY <3>1, LinkIs
    <3> QED
      BY <3>2
  <2> QED
    BY <1>1, <1>2, <2>1, <2>2, <2>3, <2>4 DEF Link!Next, Link!Up, Linked, Waiting, Sent
<1>14. Core(hook', sock')
  BY <1>7, <1>8, <1>9, <1>10, <1>11 DEF Core, Typed, Sound
<1> QED
  BY <1>12, <1>13, <1>14 DEF Done

\* An event goes onto the wire, into the queue, or is lost with a socket the server has left.
LEMMA EmitStep ==
  ASSUME Inv, NEW h \in Hooks, NEW e \in Events, Emit(h, e)
  PROVE  Done
<1> DEFINE s == hook[h].ref
<1>0. /\ Paired(hook, sock) /\ Honest(hook, sock) /\ Apart(hook, sock) /\ EntryIsLive
      /\ \A x \in Sockets : sock[x].client = "connecting" => sock[x].wire = {}
      /\ hook \in [Hooks -> HookRows] /\ sock \in [Sockets -> SockRows] /\ Typed(hook, sock)
      /\ entry \in 0..MaxSockets
  BY DEF Inv, Sound, Typed
<1>1. /\ hook[h].mounted /\ entry' = entry /\ heard' = heard
      /\ e \notin heard
      /\ \A g \in Hooks : e \notin hook[g].queue
      /\ \A x \in Sockets : e \notin sock[x].wire
  BY DEF Emit
<1>2. /\ s # 0 => s \in Sockets
      /\ hook[h] \in HookRows
      /\ h \in Linked(hook) <=> s # 0 /\ sock[s].client = "open"
  BY <1>0, RefsAre DEF Honest, Linked
<1>3. e \notin Sent(sock) \cup heard \cup UNION {Waiting(hook)[x] : x \in Hooks}
  <2>1. e \notin Sent(sock)
    BY <1>1, LinkIs
  <2>2. \A x \in Hooks : Waiting(hook)[x] = hook[x].queue
    BY DEF Waiting
  <2> QED
    BY <1>1, <2>1, <2>2
<1>4. CASE s # 0 /\ sock[s].client = "open" /\ sock[s].server = "open"
  <2> DEFINE row == [sock[s] EXCEPT !.wire = @ \cup {e}]
  <2>1. /\ row \in SockRows /\ row.wire = sock[s].wire \cup {e} /\ row.client = "open"
        /\ row.owner = sock[s].owner /\ row.server = "open"
    <3>1. sock[s] \in SockRows
      BY <1>0, <1>2, <1>4
    <3> QED
      BY <1>4, <3>1 DEF SockRows
  <2>2. sock' = [sock EXCEPT ![s] = row] /\ hook' = hook
    <3>1. sock[s] \in SockRows
      BY <1>0, <1>2, <1>4
    <3> QED
      BY <1>0, <1>2, <1>4, <3>1 DEF Emit, SockRows
  <2> HIDE DEF row
  <2>3. /\ sock' \in [Sockets -> SockRows] /\ sock'[s] = row
        /\ \A x \in Sockets : x # s => sock'[x] = sock[x]
    BY <1>0, <1>2, <1>4, <2>1, <2>2
  <2>4. \A x \in Sockets : /\ sock'[x].client = sock[x].client /\ sock'[x].owner = sock[x].owner
                           /\ sock'[x].server = sock[x].server
    BY <1>2, <1>4, <2>1, <2>3
  <2>5. Paired(hook', sock') /\ Honest(hook', sock')
    <3>1. \A g \in Hooks : hook[g].ref # 0 => hook[g].ref \in Sockets
      BY <1>0, RefsAre
    <3>2. Paired(hook', sock')
      BY <1>0, <2>2, <2>4, <3>1 DEF Paired
    <3>3. Honest(hook', sock')
      BY <1>0, <2>2, <2>4, <3>1 DEF Honest
    <3> QED
      BY <3>2, <3>3
  <2>6. Apart(hook', sock')
    <3>1. ASSUME NEW x \in Sockets, NEW y \in Sockets, x # y
          PROVE  sock'[x].wire \cap sock'[y].wire = {}
      BY <1>0, <1>1, <2>1, <2>3, <3>1 DEF Apart
    <3>2. ASSUME NEW x \in Sockets, NEW g \in Hooks PROVE sock'[x].wire \cap hook'[g].queue = {}
      BY <1>0, <1>1, <2>1, <2>2, <2>3, <3>2 DEF Apart
    <3> QED
      BY <1>0, <2>2, <3>1, <3>2 DEF Apart
  <2>7. \A x \in Sockets : sock'[x].client = "connecting" => sock'[x].wire = {}
    BY <1>0, <1>4, <2>1, <2>3
  <2>8. Core(hook', sock')
    BY <1>0, <2>2, <2>3, <2>5, <2>6, <2>7 DEF Core, Typed, Sound
  <2>9. EntryIsLive'
    <3>1. entry # 0 => entry \in Sockets
      BY <1>0, ConstantsAssumption DEF Sockets
    <3> QED
      BY <1>0, <1>1, <2>4, <3>1 DEF EntryIsLive
  <2>10. Sent(sock') = Sent(sock) \cup {e}
    <3>1. \A f : (\E x \in Sockets : f \in sock'[x].wire)
                 <=> (\E x \in Sockets : f \in sock[x].wire) \/ f = e
      BY <1>2, <1>4, <2>1, <2>3
    <3>2. \A f : f \in Sent(sock') <=> f \in Sent(sock) \/ f = e
      BY <3>1, LinkIs
    <3> QED
      BY <3>2
  <2>11. Link!Emit(h, e)
    BY <1>1, <1>2, <1>3, <1>4, <2>2, <2>10 DEF Link!Emit, Linked, Waiting, Sent
  <2> QED
    BY <2>8, <2>9, <2>11 DEF Done, Link!Next
<1>5. CASE s # 0 /\ sock[s].client = "open" /\ sock[s].server # "open"
  <2>1. hook' = hook /\ sock' = sock
    BY <1>5 DEF Emit
  <2>2. LinkSame
    BY <1>1, <2>1, LinkStutters
  <2> QED
    BY <1>0, <1>1, <2>1, <2>2 DEF Done, Core, Sound, EntryIsLive
<1>6. CASE ~(s # 0 /\ sock[s].client = "open")
  <2> DEFINE row == [hook[h] EXCEPT !.queue = @ \cup {e}]
  <2>1. /\ row \in HookRows /\ row.queue = hook[h].queue \cup {e} /\ row.ref = s
        /\ row.isConnected = hook[h].isConnected /\ row.mounted = hook[h].mounted
        /\ row.retry = hook[h].retry
    BY <1>2 DEF HookRows
  <2>2. hook' = [hook EXCEPT ![h] = row] /\ sock' = sock
    BY <1>0, <1>2, <1>6 DEF Emit, HookRows
  <2> HIDE DEF row
  <2>3. /\ hook' \in [Hooks -> HookRows] /\ hook'[h] = row
        /\ \A g \in Hooks : g # h => hook'[g] = hook[g]
    BY <1>0, <2>1, <2>2
  <2>4. \A g \in Hooks : /\ hook'[g].ref = hook[g].ref /\ hook'[g].retry = hook[g].retry
                         /\ hook'[g].isConnected = hook[g].isConnected
                         /\ ~hook'[g].mounted => hook'[g] = hook[g] /\ ~hook[g].mounted
    BY <1>1, <2>1, <2>3
  <2>5. Paired(hook', sock') /\ Honest(hook', sock')
    BY <1>0, <2>2, <2>4 DEF Paired, Honest
  <2>6. Apart(hook', sock')
    <3>1. ASSUME NEW x \in Sockets, NEW g \in Hooks PROVE sock'[x].wire \cap hook'[g].queue = {}
      BY <1>0, <1>1, <2>1, <2>2, <2>3, <3>1 DEF Apart
    <3>2. ASSUME NEW f \in Hooks, NEW g \in Hooks, f # g PROVE hook'[f].queue \cap hook'[g].queue = {}
      BY <1>0, <1>1, <2>1, <2>3, <3>2 DEF Apart
    <3> QED
      BY <1>0, <2>2, <3>1, <3>2 DEF Apart
  <2>7. Core(hook', sock')
    BY <1>0, <2>2, <2>3, <2>5, <2>6 DEF Core, Typed, Sound
  <2>8. Linked(hook') = Linked(hook)
    BY <2>4 DEF Linked
  <2>9. Waiting(hook') = [Waiting(hook) EXCEPT ![h] = @ \cup {e}]
    <3>1. \A g \in Hooks : hook'[g].queue = IF g = h THEN hook[h].queue \cup {e} ELSE hook[g].queue
      BY <2>1, <2>3
    <3> QED
      BY <3>1 DEF Waiting
  <2>10. Link!Emit(h, e)
    BY <1>1, <1>2, <1>3, <1>6, <2>2, <2>8, <2>9 DEF Link!Emit, Linked, Waiting, Sent
  <2> QED
    BY <1>0, <1>1, <2>2, <2>7, <2>10 DEF Done, EntryIsLive, Link!Next
<1> QED
  BY <1>4, <1>5, <1>6

-----------------------------------------------------------------------------
(* The theorems.                                                           *)

LEMMA Scalars ==
  ASSUME Inv, Next
  PROVE  /\ entry' \in 0..MaxSockets /\ heard' \subseteq Events /\ lost' \subseteq Events
         /\ faults' \in 0..MaxFaults
<1>0. /\ entry \in 0..MaxSockets /\ heard \subseteq Events /\ lost \subseteq Events
      /\ faults \in 0..MaxFaults
      /\ \A h \in Hooks : hook[h].queue \subseteq Events
      /\ \A s \in Sockets : sock[s].wire \subseteq Events /\ s \in 0..MaxSockets
      /\ MaxFaults \in Nat /\ 0 \in 0..MaxSockets
  BY ConstantsAssumption, SocketsAre DEF Inv, Typed, HookRows, SockRows
<1>1. Fault => faults' \in 0..MaxFaults
  BY <1>0 DEF Fault
<1>2. ASSUME NEW S \in SUBSET Sockets, Drop(S) PROVE lost' \subseteq Events
  BY <1>0, <1>2 DEF Drop
<1>3. ASSUME NEW h \in Hooks,
             Unmount(h) \/ \E s \in Sockets : Mount(h, s) \/ Renew(h, s) \/ Reconnect(h, s)
      PROVE  /\ entry' \in 0..MaxSockets /\ heard' \subseteq Events /\ lost' \subseteq Events
             /\ faults' \in 0..MaxFaults
  BY <1>0, <1>1, <1>3 DEF Unmount, Mount, Renew, Reconnect, Opening
<1>4. ASSUME NEW h \in Hooks, NEW e \in Events, Emit(h, e)
      PROVE  /\ entry' \in 0..MaxSockets /\ heard' \subseteq Events /\ lost' \subseteq Events
             /\ faults' \in 0..MaxFaults
  <2>1. /\ entry' = entry /\ heard' = heard /\ faults' = faults
        /\ lost' = lost \/ lost' = lost \cup {e}
    BY <1>4 DEF Emit
  <2> QED
    BY <1>0, <2>1
<1>5. ASSUME NEW s \in Sockets, Handshake(s) \/ Opened(s) \/ Lost(s) \/ Refused(s)
      PROVE  /\ entry' \in 0..MaxSockets /\ heard' \subseteq Events /\ lost' \subseteq Events
             /\ faults' \in 0..MaxFaults
  BY <1>0, <1>1, <1>5 DEF Handshake, Opened, Lost, Refused, ClientClosed
<1>6. ASSUME NEW s \in Sockets, Evict(s) \/ Notice(s)
      PROVE  /\ entry' \in 0..MaxSockets /\ heard' \subseteq Events /\ lost' \subseteq Events
             /\ faults' \in 0..MaxFaults
  <2>1. Drop({s}) /\ entry' = 0 /\ heard' = heard
    BY <1>6 DEF Evict, Notice, ServerClosed
  <2>2. faults' = faults \/ Fault
    BY <1>6 DEF Evict, Notice
  <2> QED
    BY <1>0, <1>1, <1>2, <2>1, <2>2
<1>7. ASSUME NEW s \in Sockets, NEW e \in Events, Hear(s, e)
      PROVE  /\ entry' \in 0..MaxSockets /\ heard' \subseteq Events /\ lost' \subseteq Events
             /\ faults' \in 0..MaxFaults
  BY <1>0, <1>7 DEF Hear
<1>8. CASE Restart
  <2>1. Drop({s \in Sockets : sock[s].server = "open"}) /\ entry' = 0 /\ heard' = heard /\ Fault
    BY <1>8 DEF Restart
  <2>2. {s \in Sockets : sock[s].server = "open"} \in SUBSET Sockets
    OBVIOUS
  <2> QED
    BY <1>0, <1>1, <1>2, <2>1, <2>2
<1> QED
  BY <1>3, <1>4, <1>5, <1>6, <1>7, <1>8 DEF Next

LEMMA NextDone == Inv /\ Next => Done
BY HookActions, ServerActions, ClientActions, OpenedStep, EmitStep DEF Next

LEMMA InitInv == Init => Inv /\ Link!Init
<1> SUFFICES ASSUME Init PROVE Inv /\ Link!Init
  OBVIOUS
<1>1. /\ \A h \in Hooks : hook[h] = Unmounted
      /\ \A s \in Sockets : sock[s] = Free
      /\ Typed(hook, sock)
  BY RowsTyped DEF Init, Typed
<1>2. /\ Unmounted.ref = 0 /\ ~Unmounted.isConnected /\ Unmounted.retry = "none"
      /\ Unmounted.queue = {} /\ Free.client = "closed" /\ Free.wire = {}
  BY DEF Unmounted, Free
<1>3. Sound(hook, sock)
  BY <1>1, <1>2 DEF Sound, Paired, Honest
<1>4. Apart(hook, sock)
  BY <1>1, <1>2 DEF Apart
<1>5. Inv
  BY <1>1, <1>3, <1>4, ConstantsAssumption DEF Inv, Init, EntryIsLive
<1>6. Linked(hook) = {} /\ Waiting(hook) = [h \in Hooks |-> {}]
  BY <1>1, <1>2 DEF Linked, Waiting
<1>7. Sent(sock) = {}
  BY <1>1, <1>2, LinkIs
<1> QED
  BY <1>5, <1>6, <1>7 DEF Init, Link!Init, Linked, Waiting, Sent

LEMMA StepInv == Inv /\ [Next]_vars => Inv' /\ [Link!Next]_(Link!vars)
<1>1. ASSUME Inv, Next PROVE Inv' /\ [Link!Next]_(Link!vars)
  <2>1. Core(hook', sock') /\ EntryIsLive' /\ (Link!Next \/ LinkSame)
    BY <1>1, NextDone DEF Done
  <2>2. Inv'
    BY <1>1, <2>1, Scalars DEF Inv, Core, Typed, Sound
  <2> QED
    BY <2>1, <2>2, LinkIs
<1>2. ASSUME Inv, UNCHANGED vars PROVE Inv' /\ [Link!Next]_(Link!vars)
  <2>1. hook' = hook /\ sock' = sock /\ entry' = entry /\ heard' = heard /\ lost' = lost
        /\ faults' = faults
    BY <1>2 DEF vars
  <2>2. LinkSame
    BY <2>1, LinkStutters
  <2> QED
    BY <1>2, <2>1, <2>2, LinkIs DEF Inv, Typed, Sound, Paired, Honest, Apart, EntryIsLive
<1> QED
  BY <1>1, <1>2

LEMMA InvAlways == Spec => []Inv
BY InitInv, StepInv, PTL DEF Spec

\* Hooks, sockets and counters stay well typed, and a hook's current socket is one it opened.
THEOREM TypeCorrect == Spec => []TypeOK
<1>1. Inv => TypeOK
  BY DEF Inv, Typed, Sound, Paired, HookRows, SockRows, TypeOK
<1> QED
  BY <1>1, InvAlways, PTL

\* However mounting, leaving, new tokens, timers and failures interleave, a socket that lives
\* on the client is the current one of a mounted screen.
THEOREM SocketsAreOwned == Spec => []NoStraySocket
<1>1. Inv => NoStraySocket
  <2> SUFFICES ASSUME Inv, NEW s \in Sockets, sock[s].client # "closed"
               PROVE  hook[sock[s].owner].mounted /\ hook[sock[s].owner].ref = s
    BY DEF NoStraySocket
  <2>1. sock[s].owner \in Hooks /\ hook[sock[s].owner].ref = s /\ s # 0
    BY SocketsAre DEF Inv, Sound, Paired
  <2> QED
    BY <2>1 DEF Inv, Sound, Honest, Unmounted
<1> QED
  BY <1>1, InvAlways, PTL

\* The relay's table names a socket the server has open, or none.
THEOREM EntryNamesLive == Spec => []EntryIsLive
<1>1. Inv => EntryIsLive
  BY DEF Inv
<1> QED
  BY <1>1, InvAlways, PTL

\* For any number of screens, sockets and failures the hook and the server give their screens
\* the link of SocketLink: an event is heard at most once, and waits while the link is down.
THEOREM LinkHolds == Spec => ImplementsLink
BY InitInv, StepInv, InvAlways, PTL DEF Spec, ImplementsLink, Link!Spec

-----------------------------------------------------------------------------
(* An event is handled once.                                               *)

\* What was heard waits in no queue and is on no wire.
HeardIsGone == /\ heard \cap Sent(sock) = {}
               /\ \A h \in Hooks : heard \cap hook[h].queue = {}

LEMMA StepGone == Inv /\ HeardIsGone /\ [Next]_vars => HeardIsGone'
<1> SUFFICES ASSUME Inv, HeardIsGone, [Next]_vars PROVE HeardIsGone'
  OBVIOUS
<1> DEFINE S == Sent(sock)
           T == Sent(sock)'
           Q(h) == hook[h].queue
           R(h) == hook'[h].queue
           Goal == heard' \cap T = {} /\ \A h \in Hooks : heard' \cap R(h) = {}
<1>0. /\ heard \cap S = {} /\ \A h \in Hooks : heard \cap Q(h) = {}
      /\ \A h \in Hooks : S \cap Q(h) = {}
  BY DEF HeardIsGone, Inv, Apart, Sent
<1>1. [Link!Next]_(Link!vars)
  BY StepInv
<1>2. ASSUME heard' = heard, T \subseteq S, \A h \in Hooks : R(h) \subseteq Q(h) PROVE Goal
  BY <1>0, <1>2
<1>3. ASSUME UNCHANGED Link!vars PROVE Goal
  <2>1. heard' = heard /\ T = S /\ Waiting(hook') = Waiting(hook)
    BY <1>3 DEF Link!vars, Sent, Waiting
  <2>2. \A h \in Hooks : R(h) = Q(h)
    BY <2>1 DEF Waiting
  <2> HIDE DEF Q, R, S, T
  <2> QED
    BY <1>2, <2>1, <2>2
<1>4. ASSUME NEW h \in Hooks, NEW e \in Events, Link!Emit(h, e) PROVE Goal
  <2>1. /\ heard' = heard /\ e \notin heard
        /\ \/ T = S \cup {e} /\ Waiting(hook') = Waiting(hook)
           \/ T = S /\ Waiting(hook') = [Waiting(hook) EXCEPT ![h] = @ \cup {e}]
    BY <1>4 DEF Link!Emit, Sent, Waiting
  <2>2. \A g \in Hooks : R(g) \subseteq Q(g) \cup {e}
    BY <2>1 DEF Waiting
  <2> HIDE DEF Q, R, S, T
  <2> QED
    BY <1>0, <2>1, <2>2
<1>5. ASSUME NEW h \in Hooks, Link!Up(h) PROVE Goal
  <2>1. /\ heard' = heard /\ T = S \cup Q(h)
        /\ Waiting(hook') = [Waiting(hook) EXCEPT ![h] = {}]
    BY <1>5 DEF Link!Up, Sent, Waiting
  <2>2. \A g \in Hooks : R(g) \subseteq Q(g)
    BY <2>1 DEF Waiting
  <2> HIDE DEF Q, R, S, T
  <2> QED
    BY <1>0, <2>1, <2>2
<1>6. ASSUME NEW h \in Hooks, Link!Close(h) PROVE Goal
  <2>1. /\ heard' = heard /\ T \subseteq S
        /\ Waiting(hook') = [Waiting(hook) EXCEPT ![h] = {}]
    BY <1>6 DEF Link!Close, Link!Lose, Sent, Waiting
  <2>2. \A g \in Hooks : R(g) \subseteq Q(g)
    BY <2>1 DEF Waiting
  <2> HIDE DEF Q, R, S, T
  <2> QED
    BY <1>2, <2>1, <2>2
<1>7. ASSUME Link!Down PROVE Goal
  <2>1. heard' = heard /\ T \subseteq S /\ Waiting(hook') = Waiting(hook)
    BY <1>7 DEF Link!Down, Link!Lose, Sent, Waiting
  <2>2. \A g \in Hooks : R(g) = Q(g)
    BY <2>1 DEF Waiting
  <2> HIDE DEF Q, R, S, T
  <2> QED
    BY <1>2, <2>1, <2>2
<1>8. ASSUME NEW e \in Events, Link!Hear(e) PROVE Goal
  <2>1. /\ heard' = heard \cup {e} /\ T = S \ {e} /\ e \in S
        /\ Waiting(hook') = Waiting(hook)
    BY <1>8 DEF Link!Hear, Sent, Waiting
  <2>2. \A g \in Hooks : R(g) = Q(g)
    BY <2>1 DEF Waiting
  <2> HIDE DEF Q, R, S, T
  <2> QED
    BY <1>0, <2>1, <2>2
<1> HIDE DEF Goal
<1>9. Goal
  BY <1>1, <1>3, <1>4, <1>5, <1>6, <1>7, <1>8 DEF Link!Next
<1> QED
  BY <1>9 DEF HeardIsGone, Goal

\* The server handles no event twice: none that is flushed from a queue, reaches it over a
\* second socket of the user, or was emitted around a reconnect.
THEOREM EventsAreHandledOnce ==
  Spec => [][\A s \in Sockets, e \in Events : Hear(s, e) => e \notin heard]_vars
<1>1. Init => HeardIsGone
  BY DEF Init, HeardIsGone
<1>2. HeardIsGone => \A s \in Sockets, e \in Events : Hear(s, e) => e \notin heard
  BY DEF HeardIsGone, Hear, Sent
<1>3. HeardIsGone /\ [Next]_vars =>
        [\A s \in Sockets, e \in Events : Hear(s, e) => e \notin heard]_vars
  BY <1>2
<1> QED
  BY <1>1, <1>3, StepGone, InvAlways, PTL DEF Spec

-----------------------------------------------------------------------------
(* Listeners.                                                              *)

\* A screen that is connected listens, if its effect depends on the connection.
Attached(hk) == \A h \in Hooks \ ByOn : hk[h].isConnected => hk[h].listening

\* What a step does to the listeners of hook h.
ListensAfter(h) ==
  /\ h \in ByOn /\ hook[h].mounted /\ hook'[h].mounted =>
       (hook'[h].listening => hook[h].listening)
  /\ h \notin ByOn /\ hook'[h].isConnected =>
       hook'[h].listening \/ (hook[h].isConnected /\ hook'[h].listening = hook[h].listening)

LEMMA StepListens ==
  ASSUME Inv, [Next]_vars, NEW g \in Hooks
  PROVE  ListensAfter(g)
<1>0. /\ hook \in [Hooks -> HookRows] /\ Honest(hook, sock)
      /\ \A s \in Sockets : sock[s].client # "closed" => sock[s].owner \in Hooks
  BY DEF Inv, Sound, Typed, Paired
<1>1. ASSUME hook'[g].listening = hook[g].listening, hook'[g].isConnected = hook[g].isConnected
      PROVE  ListensAfter(g)
  BY <1>1 DEF ListensAfter
<1>2. ASSUME ~hook'[g].listening, ~hook'[g].isConnected PROVE ListensAfter(g)
  BY <1>2 DEF ListensAfter
<1>3. ASSUME NEW h \in Hooks, NEW row, hook' = [hook EXCEPT ![h] = row],
             g = h => ListensAfter(g)
      PROVE  ListensAfter(g)
  BY <1>0, <1>1, <1>3
<1>4. ASSUME NEW h \in Hooks, NEW s \in Sockets, Mount(h, s) PROVE ListensAfter(g)
  BY <1>0, <1>3, <1>4 DEF Mount, ListensAfter, Unmounted
<1>5. ASSUME NEW h \in Hooks, NEW s \in Sockets, Renew(h, s) PROVE ListensAfter(g)
  BY <1>0, <1>3, <1>5 DEF Renew, ListensAfter, Unmounted
<1>6. ASSUME NEW h \in Hooks, Unmount(h) PROVE ListensAfter(g)
  BY <1>0, <1>3, <1>6 DEF Unmount, ListensAfter, Unmounted
<1>7. ASSUME NEW h \in Hooks, NEW s \in Sockets, Reconnect(h, s) PROVE ListensAfter(g)
  <2>1. hook[h].isConnected = FALSE
    BY <1>0, <1>7 DEF Reconnect, Honest, HookRows
  <2> QED
    BY <1>0, <1>1, <1>2, <1>7, <2>1 DEF Reconnect, HookRows
<1>8. ASSUME NEW h \in Hooks, NEW e \in Events, Emit(h, e) PROVE ListensAfter(g)
  BY <1>0, <1>1, <1>8 DEF Emit, HookRows
<1>9. ASSUME NEW s \in Sockets, Opened(s) PROVE ListensAfter(g)
  <2>1. sock[s].owner \in Hooks
    BY <1>0, <1>9 DEF Opened
  <2>2. CASE g = sock[s].owner
    <3>1. hook'[g].listening <=> g \notin ByOn \/ hook[g].listening
      BY <1>0, <1>9, <2>2 DEF Opened, HookRows
    <3> QED
      BY <3>1 DEF ListensAfter
  <2>3. CASE g # sock[s].owner
    BY <1>0, <1>1, <1>9, <2>1, <2>3 DEF Opened
  <2> QED
    BY <2>2, <2>3
<1>10. ASSUME NEW s \in Sockets, Lost(s) \/ Refused(s) PROVE ListensAfter(g)
  <2>1. \E retry : Rescheduled(sock[s].owner, retry)
    BY <1>10 DEF Lost, Refused, ClientClosed
  <2>2. CASE g = sock[s].owner
    BY <1>0, <1>2, <2>1, <2>2 DEF Rescheduled, HookRows
  <2>3. CASE g # sock[s].owner
    BY <1>0, <1>1, <2>1, <2>3 DEF Rescheduled
  <2> QED
    BY <2>2, <2>3
<1>11. CASE hook' = hook
  BY <1>1, <1>11
<1>12. ASSUME NEW s \in Sockets,
              Handshake(s) \/ Evict(s) \/ Notice(s) \/ (\E e \in Events : Hear(s, e))
       PROVE  hook' = hook
  BY <1>12 DEF Handshake, Evict, Notice, Hear
<1>13. Restart \/ UNCHANGED vars => hook' = hook
  BY DEF Restart, vars
<1> QED
  BY <1>4, <1>5, <1>6, <1>7, <1>8, <1>9, <1>10, <1>11, <1>12, <1>13 DEF Next

\* A screen whose listeners depend on the connection hears whenever it is connected.
THEOREM ConnectedScreensHear == Spec => []ConnectedListens(Hooks \ ByOn)
<1>1. Init => Attached(hook)
  BY DEF Init, Attached, Unmounted
<1>2. Inv /\ Attached(hook) /\ [Next]_vars => Attached(hook)'
  <2> SUFFICES ASSUME Inv, Attached(hook), [Next]_vars, NEW h \in Hooks \ ByOn,
                      hook'[h].isConnected
               PROVE  hook'[h].listening
    BY DEF Attached
  <2>1. ListensAfter(h)
    BY StepListens
  <2> QED
    BY <2>1 DEF ListensAfter, Attached
<1>3. Inv /\ Attached(hook) => ConnectedListens(Hooks \ ByOn)
  BY DEF Inv, Sound, Honest, Attached, ConnectedListens
<1> QED
  BY <1>1, <1>2, <1>3, InvAlways, PTL DEF Spec

\* One that listens in an effect which depends on on() alone never hears again, once its first
\* socket is gone, until it is mounted anew.
StaysDeaf ==
  \A h \in ByOn : hook[h].mounted /\ ~hook[h].listening /\ hook'[h].mounted => ~hook'[h].listening

THEOREM DeafScreensStayDeaf == Spec => [][StaysDeaf]_vars
<1>1. Inv /\ [Next]_vars => [StaysDeaf]_vars
  BY StepListens, ConstantsAssumption DEF StaysDeaf, ListensAfter
<1> QED
  BY <1>1, InvAlways, PTL DEF Spec

=============================================================================
