-------------------------- MODULE AuthSessionProofs --------------------------
(***************************************************************************)
(* Proofs about AuthSession: its types, that a signed-in app at rest lives *)
(* on, that screen, client and storage agree, and what ends a session.     *)
(* The timer and the token of a session are changed by tasks that overlap, *)
(* so the invariant says which task answers for each of them while it is   *)
(* missing (Armed, Live), and why no other task can spoil the token a      *)
(* login or a refresh brings: nobody else knows it (Kept).                 *)
(***************************************************************************)
EXTENDS AuthSession, FiniteSetTheorems, TLAPS

Rows == [at : {"idle", "sent", "replied"}, what : What, bearer : Bearer,
         tries : 0..MaxRetries, ok : BOOLEAN, new : Bearer]
States == [token : Bearer, isAuthenticated : BOOLEAN, isLoading : BOOLEAN]

Busy(k) == task[k].at # "idle"

\* Task k is answered with a token that only the answer knows.
Fresh(k) == /\ k \in {"login", "refresh"}
            /\ task[k].at = "replied" /\ task[k].ok /\ task[k].what = k

Kinds == /\ \A k \in Tasks \ {"load", "refresh"} : Busy(k) => task[k].what = k
         /\ Busy("load") => task["load"].what = "me"
         /\ Busy("refresh") => task["refresh"].what \in {"refresh", "me"}
         /\ \A k \in Tasks : ~Busy(k) => task[k] = Idle

\* While the app loads, nothing else happens.
Starting == /\ ui.isLoading => /\ ~ui.isAuthenticated /\ ~timer
                               /\ \A k \in Tasks \ {"load"} : ~Busy(k)
            /\ Busy("load") => ui.isLoading /\ token # None /\ task["load"].bearer = token

Armed == ui.isAuthenticated => timer \/ Busy("logout") \/ Busy("refresh")

HasToken == /\ ui.isAuthenticated => token # None
            /\ \A k \in Tasks : Fresh(k) => task[k].new # None
            /\ Busy("refresh") /\ task["refresh"].what = "me" => task["refresh"].new # None

\* Every token there is was issued.
Issued == /\ token <= issued /\ stored <= issued
          /\ \A t \in valid : t <= issued
          /\ \A k \in Tasks : task[k].bearer <= issued /\ task[k].new <= issued

\* The token in the answer to k is accepted, and neither the client nor a call carries it.
Kept(k) == /\ task[k].new \in valid /\ task[k].new # token
           /\ \A j \in Tasks : Busy(j) => task[j].bearer # task[k].new
           /\ \A j \in Tasks \ {k} : Fresh(j) => task[j].new # task[k].new

Live == faults = 0 =>
  /\ late = {}
  /\ \A k \in Tasks : Fresh(k) => Kept(k)
  /\ task["load"].at = "replied" /\ task["load"].ok => token \in valid
  /\ ui.isAuthenticated => token \in valid \/ Busy("logout") \/ Fresh("refresh")

Inv == TypeOK /\ Kinds /\ Starting /\ Armed /\ HasToken /\ Issued /\ Live

-----------------------------------------------------------------------------
LEMMA Typing == TypeOK <=>
  /\ token \in Bearer /\ stored \in Bearer /\ ui \in States /\ timer \in BOOLEAN
  /\ task \in [Tasks -> Rows] /\ late \subseteq [what : What, bearer : Bearer]
  /\ valid \subseteq Tokens /\ issued \in 0..MaxTokens /\ faults \in 0..MaxFaults
  /\ crossed \in BOOLEAN
BY Zenon DEF TypeOK, States, Rows

LEMMA Numbers == /\ None = 0 /\ None \in Bearer /\ Bearer = 0..MaxTokens
                 /\ \A t \in Bearer : t \in Nat
BY BoundsAssumption DEF None, Bearer, Tokens

LEMMA IdleIs == /\ Idle \in Rows /\ Idle.at = "idle" /\ Idle.bearer = None /\ Idle.new = None
BY Numbers, BoundsAssumption DEF Idle, Rows, What

LEMMA CallIs ==
  ASSUME NEW what \in What, NEW t \in Bearer
  PROVE  /\ Call(what, t) \in Rows /\ Call(what, t).at = "sent" /\ Call(what, t).what = what
         /\ Call(what, t).bearer = t /\ Call(what, t).new = None
BY IdleIs, Numbers DEF Call, Rows

LEMMA StatesAre ==
  ASSUME NEW t \in Bearer
  PROVE  /\ SignedIn(t) \in States /\ SignedIn(t).isAuthenticated /\ ~SignedIn(t).isLoading
         /\ SignedOut \in States /\ ~SignedOut.isAuthenticated /\ ~SignedOut.isLoading
         /\ Loading \in States /\ ~Loading.isAuthenticated /\ Loading.isLoading
BY Numbers DEF SignedIn, SignedOut, Loading, States

LEMMA TaskSet ==
  ASSUME task \in [Tasks -> Rows], NEW k \in Tasks, NEW row \in Rows,
         task' = [task EXCEPT ![k] = row]
  PROVE  /\ task' \in [Tasks -> Rows] /\ task'[k] = row
         /\ \A j \in Tasks : j # k => task'[j] = task[j]
OBVIOUS

LEMMA InitInv == Init => Inv
<1> SUFFICES ASSUME Init PROVE Inv
  OBVIOUS
<1>1. \A k \in Tasks : task[k] = Idle
  BY DEF Init
<1>2. stored \in Bearer /\ issued = stored /\ valid = {stored} \ {None} /\ issued \in 0..MaxTokens
      /\ valid \subseteq Tokens
  BY BoundsAssumption DEF Init, Bearer, Tokens, None
<1>3. TypeOK
  <2>1. task \in [Tasks -> Rows]
    BY IdleIs DEF Init
  <2>2. ui \in States
    BY Numbers, StatesAre DEF Init
  <2>3. token \in Bearer /\ late = {} /\ faults \in 0..MaxFaults
    BY Numbers, BoundsAssumption DEF Init
  <2>4. timer \in BOOLEAN /\ crossed \in BOOLEAN
    BY Zenon DEF Init
  <2> QED
    BY <1>2, <2>1, <2>2, <2>3, <2>4, Numbers, Typing
<1> QED
  BY <1>1, <1>2, <1>3, IdleIs, Numbers, StatesAre
     DEF Inv, Kinds, Starting, Armed, HasToken, Issued, Live, Busy, Fresh, Tasks, Init

-----------------------------------------------------------------------------
(* A call begins. *)

\* Task k calls with the token of the client; the timer may go with it.
LEMMA BeginStep ==
  ASSUME Inv, NEW k \in Tasks \ {"load"}, ~Busy(k), ~ui.isLoading, Await(k, k, token),
         timer' \in BOOLEAN, crossed' \in BOOLEAN,
         timer' = timer \/ k \in {"logout", "refresh"},
         UNCHANGED <<token, stored, ui, late, valid, issued, faults>>
  PROVE  Inv'
<1> DEFINE row == Call(k, token)
<1>0. k \in Tasks /\ k \in What /\ token \in Bearer /\ task \in [Tasks -> Rows]
  BY Typing DEF Inv, Tasks, What
<1>1. /\ row \in Rows /\ row.at = "sent" /\ row.what = k /\ row.bearer = token /\ row.new = None
      /\ task' = [task EXCEPT ![k] = row]
  BY <1>0, CallIs DEF Await
<1> HIDE DEF row
<1>2. /\ task' \in [Tasks -> Rows] /\ task'[k] = row
      /\ \A j \in Tasks : j # k => task'[j] = task[j]
  BY <1>0, <1>1, TaskSet
<1>3. TypeOK'
  BY <1>2, Typing DEF Inv, TypeOK, Rows
<1>4. Kinds' /\ Starting' /\ Armed'
  BY <1>1, <1>2 DEF Inv, Kinds, Starting, Armed, Busy, Tasks
<1>5. HasToken' /\ Issued'
  BY <1>1, <1>2, Numbers, Typing DEF Inv, HasToken, Issued, Busy, Fresh, Tasks
<1>6. Live'
  <2> SUFFICES ASSUME faults = 0 PROVE Live'
    BY DEF Live
  <2>1. /\ \A j \in Tasks : Fresh(j)' => j # k /\ Fresh(j)
        /\ Fresh("refresh") => Fresh("refresh")' \/ k = "refresh"
    BY <1>1, <1>2 DEF Fresh
  <2>2. k = "refresh" => ~Fresh("refresh")
    BY DEF Fresh, Busy
  <2>3. \A j \in Tasks : Fresh(j)' => Kept(j)'
    BY <1>1, <1>2, <2>1 DEF Inv, Live, Kept, Busy
  <2>4. Busy("logout") => Busy("logout")'
    BY <1>1, <1>2 DEF Busy, Tasks
  <2> QED
    BY <1>1, <1>2, <2>1, <2>2, <2>3, <2>4 DEF Inv, Live, Tasks
<1> QED
  BY <1>3, <1>4, <1>5, <1>6 DEF Inv

LEMMA CallStep ==
  ASSUME Inv, Login \/ Fetch \/ Logout \/ Refresh
  PROVE  Inv'
<1>0. /\ ui.isAuthenticated \in BOOLEAN /\ ui.isLoading \in BOOLEAN /\ timer \in BOOLEAN
      /\ crossed \in BOOLEAN /\ Idle.at = "idle"
      /\ ui.isLoading => ~ui.isAuthenticated /\ ~timer
  BY Typing, IdleIs DEF Inv, States, Starting
<1>1. CASE Login
  <2>1. ~Busy("login") /\ ~ui.isLoading /\ "login" \in Tasks
    BY <1>0, <1>1 DEF Login, Busy, Tasks
  <2> QED
    BY <1>0, <1>1, <2>1, BeginStep DEF Login, client
<1>2. CASE Fetch
  <2>1. ~Busy("fetch") /\ ~ui.isLoading /\ "fetch" \in Tasks
    BY <1>0, <1>2 DEF Fetch, Busy, Tasks
  <2> QED
    BY <1>0, <1>2, <2>1, BeginStep DEF Fetch, client
<1>3. CASE Logout
  <2>1. ~Busy("logout") /\ ~ui.isLoading /\ "logout" \in Tasks
    BY <1>0, <1>3 DEF Logout, Busy, Tasks
  <2>2. crossed' \in BOOLEAN
    BY <1>3 DEF Logout, Crossing
  <2> QED
    BY <1>0, <1>3, <2>1, <2>2, BeginStep DEF Logout
<1>4. CASE Refresh
  <2>1. ~Busy("refresh") /\ ~ui.isLoading /\ "refresh" \in Tasks
    BY <1>0, <1>4 DEF Refresh, Busy, Tasks
  <2> QED
    BY <1>0, <1>4, <2>1, BeginStep DEF Refresh
<1> QED
  BY <1>1, <1>2, <1>3, <1>4

LEMMA LoadStep ==
  ASSUME Inv, LoadStoredAuth
  PROVE  Inv'
<1>0. /\ ui.isLoading /\ token = None /\ task["load"] = Idle
      /\ UNCHANGED <<stored, timer, late, valid, issued, faults, crossed>>
      /\ "load" \in Tasks /\ task \in [Tasks -> Rows] /\ stored \in Bearer
  BY Typing DEF LoadStoredAuth, Inv, Tasks
<1>1. /\ ~ui.isAuthenticated /\ ~timer /\ \A k \in Tasks : ~Busy(k)
  BY <1>0, IdleIs DEF Inv, Starting, Busy
<1>2. CASE stored = None
  <2>1. ui' = SignedOut /\ UNCHANGED <<token, task>>
    BY <1>2 DEF LoadStoredAuth
  <2>2. ui' \in States /\ ~ui'.isAuthenticated /\ ~ui'.isLoading
    BY <2>1, Numbers, StatesAre
  <2>3. TypeOK'
    BY <1>0, <2>1, <2>2, Typing DEF Inv, TypeOK, States
  <2>4. \A k \in Tasks : Busy(k)' = Busy(k) /\ Fresh(k)' = Fresh(k) /\ Kept(k)' = Kept(k)
    BY <1>0, <2>1 DEF Busy, Fresh, Kept
  <2> QED
    BY <1>0, <1>1, <2>1, <2>2, <2>3, <2>4
       DEF Inv, Kinds, Starting, Armed, HasToken, Issued, Live, Busy, Fresh, Tasks
<1>3. CASE stored # None
  <2> DEFINE row == Call("me", stored)
  <2>1. token' = stored /\ ui' = ui /\ task' = [task EXCEPT !["load"] = row]
    BY <1>3 DEF LoadStoredAuth, Await
  <2>2. /\ row \in Rows /\ row.at = "sent" /\ row.what = "me" /\ row.bearer = stored
        /\ row.new = None
    BY <1>0, CallIs DEF What
  <2> HIDE DEF row
  <2>3. /\ task' \in [Tasks -> Rows] /\ task'["load"] = row
        /\ \A j \in Tasks : j # "load" => task'[j] = task[j]
    BY <1>0, <2>1, <2>2, TaskSet
  <2>4. TypeOK'
    BY <1>0, <2>1, <2>3, Typing DEF Inv, TypeOK, Rows
  <2>5. \A j \in Tasks : ~Fresh(j)'
    BY <1>1, <2>2, <2>3 DEF Fresh, Busy, Tasks
  <2>6. Kinds' /\ Starting' /\ Armed'
    BY <1>0, <1>1, <1>3, <2>1, <2>2, <2>3 DEF Inv, Kinds, Starting, Armed, Busy, Tasks
  <2>7. HasToken' /\ Issued'
    BY <1>0, <1>1, <2>1, <2>2, <2>3, <2>5, Numbers DEF Inv, HasToken, Issued, Busy, Tasks
  <2>8. Live'
    BY <1>0, <1>1, <2>1, <2>2, <2>3, <2>5 DEF Inv, Live
  <2> QED
    BY <2>4, <2>6, <2>7, <2>8 DEF Inv
<1> QED
  BY <1>2, <1>3

-----------------------------------------------------------------------------
(* The backend serves a call. *)

\* Serving c takes no token but the one it carries, and what it issues is new.
LEMMA TokensStep ==
  ASSUME Inv, NEW c, c.what \in What, c.bearer \in Bearer, TokensAfter(c)
  PROVE  /\ valid' \subseteq Tokens /\ issued' \in issued..MaxTokens
         /\ \A t \in valid' : t <= issued'
         /\ \A t \in valid : t # c.bearer => t \in valid'
         /\ c.what \notin {"refresh", "logout"} => valid \subseteq valid'
         /\ c.what \in {"login", "refresh"} /\ Accepted(c) =>
              issued' = issued + 1 /\ issued' \in valid'
         /\ issued' > issued => c.what \in {"login", "refresh"} /\ Accepted(c)
<1> DEFINE gone == IF c.what \in {"refresh", "logout"} THEN {c.bearer} ELSE {}
           new == IF c.what \in {"login", "refresh"} THEN {issued + 1} ELSE {}
           size == Cardinality(new)
<1>0. valid \subseteq Tokens /\ issued \in 0..MaxTokens /\ \A t \in valid : t <= issued
  BY Typing DEF Inv, Issued
<1>1. size = IF c.what \in {"login", "refresh"} THEN 1 ELSE 0
  BY FS_Singleton, FS_EmptySet
<1>2. /\ size + issued <= MaxTokens
      /\ valid' = IF Accepted(c) THEN (valid \ gone) \cup new ELSE valid
      /\ issued' = IF Accepted(c) THEN issued + size ELSE issued
  BY DEF TokensAfter
<1> HIDE DEF size
<1>3. CASE Accepted(c)
  <2>1. CASE c.what \in {"login", "refresh"}
    <3>1. issued' = issued + 1 /\ issued + 1 \in Tokens
      BY <1>0, <1>1, <1>2, <1>3, <2>1, BoundsAssumption DEF Tokens
    <3>2. /\ valid' = (valid \ gone) \cup {issued + 1} /\ gone \subseteq {c.bearer}
          /\ c.what \notin {"refresh", "logout"} => gone = {}
      BY <1>2, <1>3, <2>1
    <3> HIDE DEF gone, new
    <3>3. ASSUME NEW t \in valid' PROVE t \in Tokens /\ t <= issued'
      <4>1. CASE t \in valid
        BY <1>0, <3>1, <4>1, BoundsAssumption DEF Tokens
      <4>2. CASE t = issued + 1
        BY <1>0, <3>1, <4>2, BoundsAssumption DEF Tokens
      <4> QED
        BY <3>2, <4>1, <4>2
    <3>4. issued' \in valid'
      BY <3>1, <3>2
    <3>5. issued' \in issued..MaxTokens
      BY <1>0, <3>1, BoundsAssumption DEF Tokens
    <3> QED
      BY <1>3, <2>1, <3>1, <3>2, <3>3, <3>4, <3>5
  <2>2. CASE c.what \notin {"login", "refresh"}
    <3>1. issued' = issued /\ valid' = valid \ gone
      BY <1>0, <1>1, <1>2, <1>3, <2>2
    <3> QED
      BY <1>0, <2>2, <3>1, <1>3, BoundsAssumption
  <2> QED
    BY <2>1, <2>2
<1>4. CASE ~Accepted(c)
  BY <1>0, <1>2, <1>4, BoundsAssumption
<1> QED
  BY <1>3, <1>4

LEMMA ServeStep ==
  ASSUME Inv, NEW k \in Tasks, Serve(k)
  PROVE  Inv'
<1> DEFINE ok == Accepted(task[k])
           new == IF issued' > issued THEN issued' ELSE task[k].new
           row == [task[k] EXCEPT !.at = "replied", !.ok = ok, !.new = new]
<1>0. /\ task[k].at = "sent" /\ Busy(k) /\ TokensAfter(task[k])
      /\ UNCHANGED <<token, stored, ui, timer, late, faults, crossed>>
      /\ task \in [Tasks -> Rows] /\ task[k] \in Rows
      /\ task[k].what \in What /\ task[k].bearer \in Bearer /\ task[k].new \in Bearer
      /\ valid \subseteq Tokens /\ issued \in 0..MaxTokens
  BY Typing DEF Inv, Serve, client, Busy, Rows
<1>1. ok \in BOOLEAN
  BY DEF Accepted
<1>2. task' = [task EXCEPT ![k] = row]
  BY <1>0 DEF Serve
<1>3. /\ valid' \subseteq Tokens /\ issued' \in issued..MaxTokens
      /\ \A t \in valid' : t <= issued'
      /\ \A t \in valid : t # task[k].bearer => t \in valid'
      /\ task[k].what \notin {"refresh", "logout"} => valid \subseteq valid'
      /\ task[k].what \in {"login", "refresh"} /\ ok =>
           issued' = issued + 1 /\ issued' \in valid'
      /\ issued' > issued => task[k].what \in {"login", "refresh"} /\ ok
  BY <1>0, TokensStep
<1>4. /\ new \in Bearer /\ new <= issued'
      /\ task[k].what \in {"login", "refresh"} /\ ok => new = issued + 1
      /\ task[k].what = "me" => new = task[k].new
  BY <1>0, <1>3, Numbers DEF Inv, Issued
<1>5. ok => Accepted(task[k])
  OBVIOUS
<1> HIDE DEF ok, new
<1>6. /\ row \in Rows /\ row.at = "replied" /\ row.ok = ok /\ row.new = new
      /\ row.what = task[k].what /\ row.bearer = task[k].bearer
  BY <1>0, <1>1, <1>4 DEF Rows
<1> HIDE DEF row
<1>7. /\ task' \in [Tasks -> Rows] /\ task'[k] = row
      /\ \A j \in Tasks : j # k => task'[j] = task[j]
  BY <1>0, <1>2, <1>6, TaskSet
<1>8. TypeOK'
  <2>1. issued' \in 0..MaxTokens
    BY <1>0, <1>3, BoundsAssumption
  <2> QED
    BY <1>0, <1>3, <1>7, <2>1, Typing DEF Inv, TypeOK, Rows
<1>9. \A j \in Tasks : Busy(j)' = Busy(j)
  BY <1>0, <1>6, <1>7 DEF Busy
<1>10. Kinds' /\ Starting' /\ Armed'
  BY <1>0, <1>6, <1>7, <1>9 DEF Inv, Kinds, Starting, Armed, Busy, Tasks
<1>11. \A j \in Tasks : j # k => Fresh(j)' = Fresh(j)
  BY <1>7 DEF Fresh
<1>12. Fresh(k)' => new = issued + 1 /\ issued' = issued + 1 /\ issued' \in valid'
  BY <1>3, <1>4, <1>6, <1>7 DEF Fresh
<1>13. HasToken'
  <2>1. \A j \in Tasks : Fresh(j)' => task'[j].new # None
    BY <1>0, <1>6, <1>7, <1>11, <1>12, Numbers DEF Inv, HasToken
  <2>2. Busy("refresh")' /\ task'["refresh"].what = "me" => task'["refresh"].new # None
    BY <1>4, <1>6, <1>7, <1>9 DEF Inv, HasToken, Tasks
  <2> QED
    BY <1>0, <2>1, <2>2 DEF Inv, HasToken
<1>14. Issued'
  <2>1. token' \in Nat /\ stored' \in Nat /\ issued \in Nat /\ issued' \in Nat
        /\ \A j \in Tasks : task[j].bearer \in Nat /\ task[j].new \in Nat
    BY <1>0, <1>3, Numbers, Typing, BoundsAssumption DEF Inv, Rows
  <2> QED
    BY <1>0, <1>3, <1>4, <1>6, <1>7, <2>1 DEF Inv, Issued
<1>15. Live'
  <2> SUFFICES ASSUME faults = 0 PROVE Live'
    BY <1>0 DEF Live
  <2>1. /\ \A j \in Tasks : Fresh(j) => Kept(j)
        /\ task["load"].at = "replied" /\ task["load"].ok => token \in valid
        /\ ui.isAuthenticated => token \in valid \/ Busy("logout") \/ Fresh("refresh")
    BY DEF Inv, Live
  <2>2. ASSUME NEW j \in Tasks, Fresh(j)' PROVE Kept(j)'
    <3>1. CASE j = k
      <4>1. /\ task'[j].new = issued + 1 /\ issued \in Nat /\ token <= issued
            /\ \A i \in Tasks : task[i].bearer <= issued /\ task[i].new <= issued
            /\ token \in Nat /\ \A i \in Tasks : task[i].bearer \in Nat /\ task[i].new \in Nat
        BY <1>0, <1>6, <1>7, <1>12, <2>2, <3>1, Numbers, Typing DEF Inv, Issued, Rows
      <4>2. \A i \in Tasks : task'[i].bearer = task[i].bearer
        BY <1>6, <1>7
      <4> QED
        BY <1>0, <1>7, <1>12, <2>2, <3>1, <4>1, <4>2 DEF Kept
    <3>2. CASE j # k
      <4>1. Fresh(j) /\ Kept(j) /\ task'[j] = task[j]
        BY <1>7, <1>11, <2>1, <2>2, <3>2
      <4>2. task[j].new # task[k].bearer
        BY <1>0, <4>1 DEF Kept
      <4>3. Fresh(k)' => task'[j].new # task'[k].new
        <5>1. task[j].new <= issued /\ task[j].new \in Nat /\ issued \in Nat
          BY <1>0, Numbers, Typing DEF Inv, Issued, Rows
        <5> QED
          BY <1>6, <1>7, <1>12, <4>1, <5>1
      <4>4. \A i \in Tasks : task'[i].bearer = task[i].bearer
        BY <1>6, <1>7
      <4> QED
        BY <1>0, <1>3, <1>7, <1>9, <1>11, <4>1, <4>2, <4>3, <4>4 DEF Kept
    <3> QED
      BY <3>1, <3>2
  <2>3. ASSUME task'["load"].at = "replied", task'["load"].ok PROVE token' \in valid'
    <3>1. "load" \in Tasks
      BY DEF Tasks
    <3>2. k = "load"
      BY <1>0, <1>7, <2>3, <3>1 DEF Inv, Starting, Busy
    <3>3. task[k].what = "me" /\ token = task[k].bearer
      BY <1>0, <3>2 DEF Inv, Starting, Kinds
    <3>4. token \in valid
      BY <1>5, <1>6, <1>7, <2>3, <3>2, <3>3 DEF Accepted
    <3> QED
      BY <1>0, <1>3, <3>3, <3>4
  <2>4. ASSUME ui'.isAuthenticated
        PROVE  token' \in valid' \/ Busy("logout")' \/ Fresh("refresh")'
    <3>0. "refresh" \in Tasks /\ "logout" \in Tasks
      BY DEF Tasks
    <3>1. CASE Busy("logout")
      BY <1>9, <3>0, <3>1
    <3>2. CASE Fresh("refresh")
      <4>1. k # "refresh"
        BY <1>0, <3>2 DEF Fresh
      <4> QED
        BY <1>11, <3>0, <3>2, <4>1
    <3>3. CASE token \in valid /\ ~Busy("logout")
      <4>1. CASE task[k].what = "refresh" /\ token = task[k].bearer
        <5>1. k = "refresh"
          BY <1>0, <4>1 DEF Inv, Kinds, Tasks
        <5>2. ok
          BY <3>3, <4>1 DEF Accepted, ok
        <5> QED
          BY <1>6, <1>7, <4>1, <5>1, <5>2 DEF Fresh
      <4>2. CASE task[k].what = "logout"
        BY <1>0, <3>3, <4>2 DEF Inv, Kinds, Tasks
      <4>3. CASE token # task[k].bearer \/ task[k].what \notin {"refresh", "logout"}
        BY <1>0, <1>3, <3>3, <4>3
      <4> QED
        BY <4>1, <4>2, <4>3
    <3> QED
      BY <1>0, <2>1, <2>4, <3>1, <3>2, <3>3
  <2> QED
    BY <1>0, <2>2, <2>3, <2>4 DEF Inv, Live
<1> QED
  BY <1>8, <1>10, <1>13, <1>14, <1>15 DEF Inv

\* A call that was given up is served after something failed, so Live asks nothing.
LEMMA ServeLateStep ==
  ASSUME Inv, NEW c \in late, ServeLate(c)
  PROVE  Inv'
<1>0. /\ c.what \in What /\ c.bearer \in Bearer /\ TokensAfter(c) /\ faults # 0
      /\ late' \subseteq late /\ UNCHANGED <<token, stored, ui, timer, task, faults, crossed>>
      /\ issued \in 0..MaxTokens
  BY Typing DEF ServeLate, Inv, Live, client
<1>1. /\ valid' \subseteq Tokens /\ issued' \in issued..MaxTokens
      /\ \A t \in valid' : t <= issued'
  BY <1>0, TokensStep
<1>2. TypeOK'
  <2>1. issued' \in 0..MaxTokens
    BY <1>0, <1>1, BoundsAssumption
  <2> QED
    BY <1>0, <1>1, <2>1 DEF Inv, TypeOK
<1>3. Issued'
  <2>1. token \in Nat /\ stored \in Nat /\ issued \in Nat /\ issued' \in Nat
        /\ \A j \in Tasks : task[j].bearer \in Nat /\ task[j].new \in Nat
    BY <1>0, <1>1, Numbers, Typing, BoundsAssumption DEF Inv, Rows
  <2> QED
    BY <1>0, <1>1, <2>1 DEF Inv, Issued
<1>4. \A j \in Tasks : Busy(j)' = Busy(j) /\ Fresh(j)' = Fresh(j)
  BY <1>0 DEF Busy, Fresh
<1> QED
  BY <1>0, <1>2, <1>3, <1>4 DEF Inv, Kinds, Starting, Armed, HasToken, Live, Tasks

-----------------------------------------------------------------------------
(* A call ends. *)

\* What a task that goes on leaves alone; faults' = 0 says that nothing has failed.
Elsewhere == /\ UNCHANGED <<valid, issued>> /\ crossed' \in BOOLEAN
             /\ late' \subseteq [what : What, bearer : Bearer]
             /\ faults' \in 0..MaxFaults
             /\ faults' = 0 => faults = 0 /\ late' = late

\* The task returns: its row is Idle, and nobody else's moves.
LEMMA ReturnStep ==
  ASSUME Inv, NEW k \in Tasks, Return(k)
  PROVE  /\ task' \in [Tasks -> Rows] /\ task'[k] = Idle
         /\ \A j \in Tasks : j # k => task'[j] = task[j]
         /\ ~Busy(k)' /\ ~Fresh(k)'
         /\ \A j \in Tasks : j # k => Busy(j)' = Busy(j) /\ Fresh(j)' = Fresh(j)
<1>1. /\ task' \in [Tasks -> Rows] /\ task'[k] = Idle
      /\ \A j \in Tasks : j # k => task'[j] = task[j]
  BY IdleIs, TaskSet, Typing DEF Inv, Return
<1> QED
  BY <1>1, IdleIs DEF Busy, Fresh

\* The session is ended by a task that returns.
LEMMA EndStep ==
  ASSUME Inv, NEW k \in Tasks, Busy(k), Return(k), Clear, Elsewhere,
         timer' \in BOOLEAN, timer' = timer \/ timer' = FALSE
  PROVE  Inv'
<1>0. /\ token' = None /\ stored' = None /\ ui' = SignedOut
      /\ UNCHANGED <<valid, issued>> /\ issued \in Nat
  BY Typing, BoundsAssumption DEF Clear, SetToken, Elsewhere, Inv
<1>1. ui' \in States /\ ~ui'.isAuthenticated /\ ~ui'.isLoading
  BY <1>0, Numbers, StatesAre
<1>2. /\ task' \in [Tasks -> Rows] /\ task'[k] = Idle
      /\ \A j \in Tasks : j # k => task'[j] = task[j]
      /\ ~Busy(k)' /\ ~Fresh(k)'
      /\ \A j \in Tasks : j # k => Busy(j)' = Busy(j) /\ Fresh(j)' = Fresh(j)
  BY ReturnStep
<1>3. TypeOK'
  BY <1>0, <1>1, <1>2, Numbers, Typing DEF Inv, TypeOK, Elsewhere, Rows, States
<1>4. ~Busy("load")'
  BY <1>2 DEF Inv, Starting, Tasks
<1>5. Kinds' /\ Starting' /\ Armed'
  BY <1>1, <1>2, <1>4, IdleIs DEF Inv, Kinds, Starting, Armed, Busy, Tasks
<1>6. HasToken' /\ Issued'
  BY <1>0, <1>1, <1>2, IdleIs, Numbers DEF Inv, HasToken, Issued, Busy, Tasks
<1>7. Live'
  <2> SUFFICES ASSUME faults' = 0 PROVE Live'
    BY DEF Live
  <2>1. faults = 0 /\ late' = {}
    BY DEF Elsewhere, Inv, Live
  <2>2. ASSUME NEW j \in Tasks, Fresh(j)' PROVE Kept(j)'
    <3>1. Fresh(j) /\ Kept(j) /\ task'[j] = task[j] /\ task[j].new # None
      BY <1>2, <2>1, <2>2 DEF Inv, Live, HasToken
    <3> QED
      BY <1>0, <1>2, <3>1 DEF Kept
  <2>3. task'["load"].at # "replied"
    BY <1>4 DEF Inv, Busy
  <2> QED
    BY <1>1, <2>1, <2>2, <2>3 DEF Live
<1> QED
  BY <1>3, <1>5, <1>6, <1>7 DEF Inv

\* A task that holds no session returns.
LEMMA QuietStep ==
  ASSUME Inv, NEW k \in {"login", "fetch"}, Busy(k), Return(k), Elsewhere,
         UNCHANGED <<token, stored, ui, timer>>
  PROVE  Inv'
<1>0. k \in Tasks /\ UNCHANGED <<valid, issued>>
  BY DEF Tasks, Elsewhere
<1>1. /\ task' \in [Tasks -> Rows] /\ task'[k] = Idle
      /\ \A j \in Tasks : j # k => task'[j] = task[j]
      /\ ~Busy(k)' /\ ~Fresh(k)'
      /\ \A j \in Tasks : j # k => Busy(j)' = Busy(j) /\ Fresh(j)' = Fresh(j)
  BY <1>0, ReturnStep
<1>2. TypeOK'
  BY <1>0, <1>1, Typing DEF Inv, TypeOK, Elsewhere, Rows
<1>3. Kinds' /\ Starting' /\ Armed'
  BY <1>0, <1>1 DEF Inv, Kinds, Starting, Armed, Tasks
<1>4. HasToken' /\ Issued'
  <2>1. \A t \in {token, stored, issued} : t \in Nat
    BY Numbers, Typing, BoundsAssumption DEF Inv
  <2> QED
    BY <1>0, <1>1, <2>1, IdleIs, Numbers DEF Inv, HasToken, Issued, Tasks
<1>5. Live'
  <2> SUFFICES ASSUME faults' = 0 PROVE Live'
    BY DEF Live
  <2>1. faults = 0 /\ late' = {}
    BY DEF Elsewhere, Inv, Live
  <2>2. ASSUME NEW j \in Tasks, Fresh(j)' PROVE Kept(j)'
    <3>1. Fresh(j) /\ Kept(j) /\ task'[j] = task[j]
      BY <1>1, <2>1, <2>2 DEF Inv, Live
    <3> QED
      BY <1>0, <1>1, <3>1 DEF Kept
  <2> QED
    BY <1>0, <1>1, <2>1, <2>2 DEF Inv, Live, Tasks
<1> QED
  BY <1>2, <1>3, <1>4, <1>5 DEF Inv

LEMMA AfterLoadStep ==
  ASSUME Inv, Busy("load"), AfterLoad("load"), Elsewhere,
         faults' = 0 => task["load"].at = "replied" /\ task["load"].ok
  PROVE  Inv'
<1>0. /\ "load" \in Tasks /\ Return("load") /\ UNCHANGED <<token, stored, valid, issued>>
      /\ timer' = TRUE /\ task["load"].bearer \in Bearer /\ ui' = SignedIn(task["load"].bearer)
      /\ token # None /\ \A j \in Tasks : j # "load" => ~Busy(j)
  BY Typing DEF AfterLoad, Elsewhere, Tasks, Inv, Starting, Rows
<1>1. ui' \in States /\ ui'.isAuthenticated /\ ~ui'.isLoading
  BY <1>0, StatesAre
<1>2. /\ task' \in [Tasks -> Rows] /\ task'["load"] = Idle
      /\ \A j \in Tasks : j # "load" => task'[j] = task[j]
      /\ \A j \in Tasks : ~Busy(j)' /\ ~Fresh(j)'
  <2>1. \A j \in Tasks : ~Busy(j) => ~Fresh(j)
    BY DEF Busy, Fresh
  <2> QED
    BY <1>0, <2>1, ReturnStep
<1>3. TypeOK'
  BY <1>0, <1>1, <1>2, Typing DEF Inv, TypeOK, Elsewhere, Rows, States
<1>4. Kinds' /\ Starting' /\ Armed' /\ HasToken'
  BY <1>0, <1>1, <1>2 DEF Inv, Kinds, Starting, Armed, HasToken, Tasks
<1>5. Issued'
  <2>1. \A t \in {token, stored, issued} : t \in Nat
    BY Numbers, Typing, BoundsAssumption DEF Inv
  <2> QED
    BY <1>0, <1>2, <2>1, IdleIs, Numbers DEF Inv, Issued
<1>6. Live'
  BY <1>0, <1>2, IdleIs DEF Inv, Live, Elsewhere
<1> QED
  BY <1>3, <1>4, <1>5, <1>6 DEF Inv

LEMMA AfterLoginStep ==
  ASSUME Inv, Fresh("login"), AfterLogin("login"), Elsewhere
  PROVE  Inv'
<1> DEFINE new == task["login"].new
<1>0. /\ "login" \in Tasks /\ Return("login") /\ UNCHANGED <<valid, issued>>
      /\ timer' = TRUE /\ new \in Bearer /\ token' = new /\ stored' = new
      /\ ui' = SignedIn(new) /\ Busy("login") /\ new # None
  BY Typing DEF AfterLogin, SetToken, Elsewhere, Tasks, Inv, HasToken, Rows, Fresh, Busy
<1>1. ui' \in States /\ ui'.isAuthenticated /\ ~ui'.isLoading /\ ~Busy("load")
  BY <1>0, StatesAre DEF Inv, Starting
<1>2. /\ task' \in [Tasks -> Rows] /\ task'["login"] = Idle
      /\ \A j \in Tasks : j # "login" => task'[j] = task[j]
      /\ ~Busy("login")' /\ ~Fresh("login")'
      /\ \A j \in Tasks : j # "login" => Busy(j)' = Busy(j) /\ Fresh(j)' = Fresh(j)
  BY <1>0, ReturnStep
<1>3. TypeOK'
  BY <1>0, <1>1, <1>2, Typing DEF Inv, TypeOK, Elsewhere, Rows, States
<1>4. Kinds' /\ Starting' /\ Armed' /\ HasToken'
  BY <1>0, <1>1, <1>2 DEF Inv, Kinds, Starting, Armed, HasToken, Tasks
<1>5. Issued'
  <2>1. \A t \in {token, stored, issued} : t \in Nat
    BY Numbers, Typing, BoundsAssumption DEF Inv
  <2> QED
    BY <1>0, <1>2, <2>1, IdleIs, Numbers DEF Inv, Issued
<1>6. Live'
  <2> SUFFICES ASSUME faults' = 0 PROVE Live'
    BY DEF Live
  <2>1. faults = 0 /\ late' = {} /\ Kept("login")
    BY <1>0 DEF Elsewhere, Inv, Live
  <2>2. ASSUME NEW j \in Tasks, Fresh(j)' PROVE Kept(j)'
    <3>1. Fresh(j) /\ Kept(j) /\ task'[j] = task[j] /\ j # "login"
      BY <1>2, <2>1, <2>2 DEF Inv, Live
    <3>2. task[j].new # new
      BY <1>0, <2>1, <3>1 DEF Kept
    <3> QED
      BY <1>0, <1>2, <3>1, <3>2 DEF Kept
  <2>3. task'["load"].at # "replied"
    BY <1>1, <1>2 DEF Busy, Tasks
  <2>4. token' \in valid'
    BY <1>0, <2>1 DEF Kept
  <2> QED
    BY <2>1, <2>2, <2>3, <2>4 DEF Live
<1> QED
  BY <1>3, <1>4, <1>5, <1>6 DEF Inv

\* The refreshed token is the client's now, and the next call's.
LEMMA AfterRefreshStep ==
  ASSUME Inv, Fresh("refresh"), AfterRefresh("refresh"), Elsewhere
  PROVE  Inv'
<1> DEFINE new == task["refresh"].new
           row == [Call("me", new) EXCEPT !.new = new]
<1>0. /\ "refresh" \in Tasks /\ UNCHANGED <<valid, issued, ui, timer>>
      /\ new \in Bearer /\ token' = new /\ stored' = new
      /\ Busy("refresh") /\ new # None /\ task' = [task EXCEPT !["refresh"] = row]
      /\ task \in [Tasks -> Rows]
  BY Typing DEF AfterRefresh, SetToken, Elsewhere, Tasks, Inv, HasToken, Rows, Fresh, Busy
<1>1. ~ui.isLoading /\ ~Busy("load")
  BY <1>0 DEF Inv, Starting
<1>2. /\ row \in Rows /\ row.at = "sent" /\ row.what = "me" /\ row.bearer = new
      /\ row.new = new
  <2>1. /\ Call("me", new) \in Rows /\ Call("me", new).at = "sent"
        /\ Call("me", new).what = "me" /\ Call("me", new).bearer = new
    BY <1>0, CallIs DEF What
  <2> QED
    BY <1>0, <2>1 DEF Rows
<1> HIDE DEF row
<1>3. /\ task' \in [Tasks -> Rows] /\ task'["refresh"] = row
      /\ \A j \in Tasks : j # "refresh" => task'[j] = task[j]
  BY <1>0, <1>2, TaskSet
<1>4. /\ Busy("refresh")' /\ ~Fresh("refresh")'
      /\ \A j \in Tasks : j # "refresh" => Busy(j)' = Busy(j) /\ Fresh(j)' = Fresh(j)
  BY <1>2, <1>3 DEF Busy, Fresh
<1>5. TypeOK'
  BY <1>0, <1>3, Typing DEF Inv, TypeOK, Elsewhere, Rows
<1>6. Kinds'
  BY <1>2, <1>3, <1>4 DEF Inv, Kinds, Tasks
<1>7. Starting' /\ Armed' /\ HasToken'
  BY <1>0, <1>1, <1>2, <1>3, <1>4 DEF Inv, Starting, Armed, HasToken, Tasks
<1>8. Issued'
  <2>1. \A t \in {token, stored, issued} : t \in Nat
    BY Numbers, Typing, BoundsAssumption DEF Inv
  <2> QED
    BY <1>0, <1>2, <1>3, <2>1, Numbers DEF Inv, Issued
<1>9. Live'
  <2> SUFFICES ASSUME faults' = 0 PROVE Live'
    BY DEF Live
  <2>1. faults = 0 /\ late' = {} /\ Kept("refresh")
    BY <1>0 DEF Elsewhere, Inv, Live
  <2>2. ASSUME NEW j \in Tasks, Fresh(j)' PROVE Kept(j)'
    <3>1. Fresh(j) /\ Kept(j) /\ task'[j] = task[j] /\ j # "refresh"
      BY <1>3, <1>4, <2>1, <2>2 DEF Inv, Live
    <3>2. task[j].new # new
      BY <1>0, <2>1, <3>1 DEF Kept
    <3> QED
      BY <1>0, <1>2, <1>3, <1>4, <3>1, <3>2 DEF Kept
  <2>3. task'["load"].at # "replied"
    BY <1>1, <1>3 DEF Busy, Tasks
  <2>4. token' \in valid'
    BY <1>0, <2>1 DEF Kept
  <2> QED
    BY <2>1, <2>2, <2>3, <2>4 DEF Live
<1> QED
  BY <1>5, <1>6, <1>7, <1>8, <1>9 DEF Inv

LEMMA AfterMeStep ==
  ASSUME Inv, Busy("refresh"), AfterMe("refresh"), Elsewhere
  PROVE  Inv'
<1>0. /\ "refresh" \in Tasks /\ Return("refresh") /\ timer' = TRUE
      /\ UNCHANGED <<valid, issued, token, stored>>
      /\ task["refresh"].new \in Bearer /\ task["refresh"].what = "me"
      /\ ui' = [ui EXCEPT !.token = task["refresh"].new]
  BY Typing DEF AfterMe, Elsewhere, Tasks, Inv, Rows
<1>1. /\ ui' \in States /\ ui'.isAuthenticated = ui.isAuthenticated
      /\ ~ui.isLoading /\ ~ui'.isLoading /\ ~Busy("load")
  BY <1>0, Typing DEF Inv, Starting, States
<1>2. /\ task' \in [Tasks -> Rows] /\ task'["refresh"] = Idle
      /\ \A j \in Tasks : j # "refresh" => task'[j] = task[j]
      /\ ~Busy("refresh")' /\ ~Fresh("refresh")'
      /\ \A j \in Tasks : j # "refresh" => Busy(j)' = Busy(j) /\ Fresh(j)' = Fresh(j)
  BY <1>0, ReturnStep
<1>3. TypeOK'
  BY <1>0, <1>1, <1>2, Typing DEF Inv, TypeOK, Elsewhere, Rows, States
<1>4. Kinds' /\ Starting' /\ Armed' /\ HasToken'
  BY <1>0, <1>1, <1>2 DEF Inv, Kinds, Starting, Armed, HasToken, Tasks
<1>5. Issued'
  <2>1. \A t \in {token, stored, issued} : t \in Nat
    BY Numbers, Typing, BoundsAssumption DEF Inv
  <2> QED
    BY <1>0, <1>2, <2>1, IdleIs, Numbers DEF Inv, Issued
<1>6. Live'
  <2> SUFFICES ASSUME faults' = 0 PROVE Live'
    BY DEF Live
  <2>1. faults = 0 /\ late' = {} /\ ~Fresh("refresh")
    BY <1>0 DEF Elsewhere, Inv, Live, Fresh
  <2>2. ASSUME NEW j \in Tasks, Fresh(j)' PROVE Kept(j)'
    <3>1. Fresh(j) /\ Kept(j) /\ task'[j] = task[j]
      BY <1>2, <2>1, <2>2 DEF Inv, Live
    <3> QED
      BY <1>0, <1>2, <3>1 DEF Kept
  <2> QED
    BY <1>0, <1>1, <1>2, <2>1, <2>2 DEF Inv, Live, Tasks
<1> QED
  BY <1>3, <1>4, <1>5, <1>6 DEF Inv

\* A good answer, or the copy that stands for one.
LEMMA ContinueStep ==
  ASSUME Inv, NEW k \in Tasks, Busy(k), Continue(k), Elsewhere,
         k \in {"login", "refresh"} /\ task[k].what # "me" => Fresh(k),
         faults' = 0 => task[k].at = "replied" /\ task[k].ok
  PROVE  Inv'
<1>0. Busy("login") => task["login"].what = "login"
  BY DEF Inv, Kinds, Tasks
<1>1. CASE AfterLoad(k)
  BY <1>1, AfterLoadStep DEF AfterLoad
<1>2. CASE AfterLogin(k)
  <2>1. k = "login" /\ Fresh("login")
    BY <1>0, <1>2 DEF AfterLogin
  <2> QED
    BY <1>2, <2>1, AfterLoginStep
<1>3. CASE AfterLogout(k)
  <2>1. Clear /\ Return(k) /\ timer' = timer
    BY <1>3 DEF AfterLogout
  <2>2. timer' \in BOOLEAN
    BY <2>1, Typing DEF Inv
  <2> QED
    BY <2>1, <2>2, EndStep
<1>4. CASE AfterRefresh(k)
  <2>1. k = "refresh" /\ Fresh("refresh")
    BY <1>4 DEF AfterRefresh
  <2> QED
    BY <1>4, <2>1, AfterRefreshStep
<1>5. CASE AfterMe(k)
  BY <1>5, AfterMeStep DEF AfterMe
<1>6. CASE AfterFetch(k)
  BY <1>6, QuietStep DEF AfterFetch, client
<1> QED
  BY <1>1, <1>2, <1>3, <1>4, <1>5, <1>6 DEF Continue

LEMMA CrossingIs == ASSUME NEW k, Crossing(k) PROVE crossed' \in BOOLEAN
BY Zenon DEF Crossing

LEMMA ThrowStep ==
  ASSUME Inv, NEW k \in Tasks, Busy(k), Throw(k), UNCHANGED <<timer, valid, issued>>,
         late' \subseteq [what : What, bearer : Bearer], faults' \in 0..MaxFaults, faults' # 0
  PROVE  Inv'
<1>0. timer' \in BOOLEAN /\ crossed \in BOOLEAN
  BY Typing DEF Inv
<1>1. CASE Clears(k)
  <2>1. Clear /\ Crossing(k) /\ Return(k)
    BY <1>1 DEF Throw
  <2>2. Elsewhere
    BY <2>1, CrossingIs DEF Elsewhere
  <2> QED
    BY <1>0, <2>1, <2>2, EndStep
<1>2. CASE ~Clears(k)
  <2>1. k \in {"login", "fetch"} /\ Return(k) /\ UNCHANGED <<token, stored, ui, crossed>>
    BY <1>2 DEF Throw, Clears, Tasks
  <2>2. Elsewhere
    BY <1>0, <2>1 DEF Elsewhere
  <2> QED
    BY <2>1, <2>2, QuietStep
<1> QED
  BY <1>1, <1>2

LEMMA ReceiveStep ==
  ASSUME Inv, NEW k \in Tasks, Receive(k)
  PROVE  Inv'
<1>0. /\ task[k].at = "replied" /\ Busy(k) /\ UNCHANGED <<late, valid, issued, faults>>
  BY DEF Receive, Busy
<1>1. Elsewhere
  <2>1. crossed' \in BOOLEAN
    <3>1. CASE k \in {"login", "logout"} \/ ~task[k].ok
      BY <3>1, CrossingIs DEF Receive
    <3>2. CASE ~(k \in {"login", "logout"} \/ ~task[k].ok)
      BY <3>2, Typing DEF Receive, Inv
    <3> QED
      BY <3>1, <3>2
  <2> QED
    BY <1>0, <2>1, Typing DEF Elsewhere, Inv
<1>2. CASE task[k].ok
  <2>1. Continue(k)
    BY <1>2 DEF Receive
  <2>2. k \in {"login", "refresh"} /\ task[k].what # "me" => Fresh(k)
    BY <1>0, <1>2 DEF Fresh, Inv, Kinds, Tasks
  <2> QED
    BY <1>0, <1>1, <1>2, <2>1, <2>2, ContinueStep
<1>3. CASE ~task[k].ok
  <2>1. Clear /\ timer' = FALSE /\ Return(k)
    BY <1>3 DEF Receive
  <2>2. timer' \in BOOLEAN
    BY <2>1
  <2> QED
    BY <1>0, <1>1, <2>1, <2>2, EndStep
<1> QED
  BY <1>2, <1>3

-----------------------------------------------------------------------------
(* Failures.  After one, Live asks nothing any more. *)

LEMMA FaultIs == ASSUME Inv, Fault PROVE faults' \in 0..MaxFaults /\ faults' # 0
BY Typing, BoundsAssumption DEF Inv, Fault

LEMMA GivenUpIs == ASSUME Inv, NEW k \in Tasks
                   PROVE  GivenUp(k) \subseteq [what : What, bearer : Bearer]
BY Typing DEF Inv, GivenUp, Rows

\* Where nothing is left to try, the error is thrown or a copy answers.
LEMMA FailStep ==
  ASSUME Inv, NEW k \in Tasks, Busy(k), Fail(k), UNCHANGED <<valid, issued>>,
         late' \subseteq [what : What, bearer : Bearer], faults' \in 0..MaxFaults, faults' # 0
  PROVE  Inv'
<1>1. CASE Throw(k) /\ UNCHANGED timer
  BY <1>1, ThrowStep
<1>2. CASE task[k].what \in {"me", "fetch"} /\ Continue(k) /\ UNCHANGED crossed
  <2>1. Elsewhere
    BY <1>2, Typing DEF Elsewhere, Inv
  <2>2. ~(k \in {"login", "refresh"} /\ task[k].what # "me")
    BY <1>2 DEF Inv, Kinds, Tasks
  <2> QED
    BY <1>2, <2>1, <2>2, ContinueStep
<1> QED
  BY <1>1, <1>2 DEF Fail

LEMMA LoseAttemptStep ==
  ASSUME Inv, NEW k \in Tasks, LoseAttempt(k)
  PROVE  Inv'
<1>0. /\ Busy(k) /\ faults' \in 0..MaxFaults /\ faults' # 0 /\ UNCHANGED <<valid, issued>>
      /\ late' \subseteq [what : What, bearer : Bearer]
  BY FaultIs, GivenUpIs, Typing DEF LoseAttempt, Busy, Inv
<1>1. CASE task[k].tries < MaxRetries
  <2> DEFINE row == [task[k] EXCEPT !.at = "sent", !.bearer = token,
                                    !.tries = task[k].tries + 1, !.ok = FALSE]
  <2>1. task' = [task EXCEPT ![k] = row] /\ UNCHANGED <<token, stored, ui, timer, crossed>>
    BY <1>1 DEF LoseAttempt, client
  <2>2. task[k] \in Rows /\ token \in Bearer /\ task[k].tries + 1 \in 0..MaxRetries
    BY <1>1, Typing, BoundsAssumption DEF Inv, Rows
  <2>3. /\ row \in Rows /\ row.at = "sent" /\ row.bearer = token /\ row.what = task[k].what
        /\ row.new = task[k].new
    BY <2>2 DEF Rows
  <2> HIDE DEF row
  <2>4. /\ task' \in [Tasks -> Rows] /\ task'[k] = row
        /\ \A j \in Tasks : j # k => task'[j] = task[j]
    BY <2>1, <2>3, TaskSet, Typing DEF Inv
  <2>5. \A j \in Tasks : Busy(j)' = Busy(j) /\ (Fresh(j)' => Fresh(j) /\ j # k)
    BY <1>0, <2>3, <2>4 DEF Busy, Fresh
  <2>6. TypeOK'
    BY <1>0, <2>1, <2>4, Typing DEF Inv, TypeOK, Rows
  <2>7. Kinds'
    BY <1>0, <2>3, <2>4, <2>5 DEF Inv, Kinds, Tasks
  <2>8. Starting' /\ Armed' /\ HasToken'
    BY <1>0, <2>1, <2>3, <2>4, <2>5 DEF Inv, Starting, Armed, HasToken, Tasks
  <2>9. Issued'
    BY <1>0, <2>1, <2>3, <2>4 DEF Inv, Issued
  <2> QED
    BY <1>0, <2>6, <2>7, <2>8, <2>9 DEF Inv, Live
<1>2. CASE ~(task[k].tries < MaxRetries)
  <2>1. Fail(k)
    BY <1>2 DEF LoseAttempt
  <2> QED
    BY <1>0, <2>1, FailStep
<1> QED
  BY <1>1, <1>2

LEMMA OfflineStep ==
  ASSUME Inv, NEW k \in Tasks, Offline(k)
  PROVE  Inv'
<1>1. /\ Busy(k) /\ Fail(k) /\ faults' \in 0..MaxFaults /\ faults' # 0
      /\ UNCHANGED <<late, valid, issued>> /\ late' \subseteq [what : What, bearer : Bearer]
  BY FaultIs, Typing DEF Offline, Busy, Inv
<1> QED
  BY <1>1, FailStep

LEMMA RestartStep ==
  ASSUME Inv, Restart
  PROVE  Inv'
<1>0. /\ token' = None /\ ui' = Loading /\ timer' = FALSE /\ task' = [k \in Tasks |-> Idle]
      /\ UNCHANGED <<stored, valid, issued, crossed>>
      /\ faults' \in 0..MaxFaults /\ faults' # 0
  BY FaultIs DEF Restart
<1>1. ui' \in States /\ ~ui'.isAuthenticated /\ ui'.isLoading
  BY <1>0, Numbers, StatesAre
<1>2. late' \subseteq [what : What, bearer : Bearer]
  <2>1. late' = late \cup UNION {GivenUp(k) : k \in Tasks}
    BY DEF Restart
  <2>2. \A c : c \in UNION {GivenUp(k) : k \in Tasks} => \E k \in Tasks : c \in GivenUp(k)
    OBVIOUS
  <2> QED
    BY <2>1, <2>2, GivenUpIs, Typing DEF Inv
<1>3. /\ task' \in [Tasks -> Rows] /\ \A k \in Tasks : task'[k] = Idle
      /\ \A k \in Tasks : ~Busy(k)' /\ ~Fresh(k)'
  BY <1>0, IdleIs DEF Busy, Fresh
<1>4. TypeOK'
  <2>1. timer' \in BOOLEAN
    BY Zenon, <1>0
  <2> QED
    BY <1>0, <1>1, <1>2, <1>3, <2>1, Numbers, Typing DEF Inv, TypeOK, Rows, States
<1>5. Kinds' /\ Starting' /\ Armed' /\ HasToken'
  BY <1>0, <1>1, <1>3 DEF Inv, Kinds, Starting, Armed, HasToken, Tasks
<1>6. Issued'
  <2>1. issued \in Nat
    BY Typing, BoundsAssumption DEF Inv
  <2> QED
    BY <1>0, <1>3, <2>1, IdleIs, Numbers DEF Inv, Issued
<1> QED
  BY <1>0, <1>4, <1>5, <1>6 DEF Inv, Live

LEMMA ExpireStep ==
  ASSUME Inv, NEW t \in Tokens, Expire(t)
  PROVE  Inv'
<1>0. /\ valid' \subseteq valid /\ faults' \in 0..MaxFaults /\ faults' # 0
      /\ UNCHANGED <<token, stored, ui, timer, task, late, issued, crossed>>
  BY FaultIs DEF Expire, client
<1>1. \A k \in Tasks : Busy(k)' = Busy(k) /\ Fresh(k)' = Fresh(k)
  BY <1>0 DEF Busy, Fresh
<1>2. TypeOK'
  BY <1>0 DEF Inv, TypeOK
<1> QED
  BY <1>0, <1>1, <1>2 DEF Inv, Kinds, Starting, Armed, HasToken, Issued, Live, Tasks

-----------------------------------------------------------------------------
LEMMA StepInv == Inv /\ [Next]_vars => Inv'
<1> SUFFICES ASSUME Inv, [Next]_vars PROVE Inv'
  OBVIOUS
<1>1. CASE LoadStoredAuth \/ Login \/ Fetch \/ Logout \/ Refresh \/ Restart
  BY <1>1, LoadStep, CallStep, RestartStep
<1>2. ASSUME NEW k \in Tasks, Serve(k) \/ Receive(k) \/ LoseAttempt(k) \/ Offline(k)
      PROVE  Inv'
  BY <1>2, ServeStep, ReceiveStep, LoseAttemptStep, OfflineStep
<1>3. CASE \E c \in late : ServeLate(c)
  BY <1>3, ServeLateStep
<1>4. CASE \E t \in Tokens : Expire(t)
  BY <1>4, ExpireStep
<1>5. CASE UNCHANGED vars
  <2>1. \A k \in Tasks : Busy(k)' = Busy(k) /\ Fresh(k)' = Fresh(k) /\ Kept(k)' = Kept(k)
    BY <1>5 DEF vars, Busy, Fresh, Kept
  <2> QED
    BY <1>5, <2>1 DEF vars, Inv, TypeOK, Kinds, Starting, Armed, HasToken, Issued, Live, Tasks
<1> QED
  BY <1>1, <1>2, <1>3, <1>4, <1>5 DEF Next

LEMMA InvAlways == Spec => []Inv
BY InitInv, StepInv, PTL DEF Spec

\* Screen, client, storage, calls and tokens stay well typed; no call is retried more often
\* than MAX_RETRIES allows.
THEOREM TypeCorrect == Spec => []TypeOK
<1>1. Inv => TypeOK
  BY DEF Inv
<1> QED
  BY <1>1, InvAlways, PTL

\* However sign-in, sign-out, the refresh and other requests overlap, an app that is signed in
\* at rest has a token, its refresh timer is armed, and the backend accepts the token unless
\* something failed before.
THEOREM SignedInLivesOn == Spec => []SignedInLives
<1>1. Inv => SignedInLives
  <2> SUFFICES ASSUME Inv, AtRest, ui.isAuthenticated
               PROVE  token # None /\ timer /\ (token \in valid \/ faults > 0)
    BY DEF SignedInLives
  <2>1. \A k \in Tasks : ~Busy(k) /\ ~Fresh(k)
    BY IdleIs DEF AtRest, Busy, Fresh
  <2>2. token # None /\ timer
    BY <2>1 DEF Inv, Armed, HasToken, Tasks
  <2>3. faults \in Nat
    BY Typing, BoundsAssumption DEF Inv
  <2>4. faults = 0 => token \in valid
    BY <2>1 DEF Inv, Live, Tasks
  <2> QED
    BY <2>2, <2>3, <2>4
<1> QED
  BY <1>1, InvAlways, PTL

-----------------------------------------------------------------------------
(* Screen, client and storage.  While a refresh is under way it may be ahead of the screen;     *)
(* what it brings agrees with the rest only as long as the session it renews goes on.           *)

Renewing == Busy("refresh") /\ task["refresh"].what = "me"

Agreed ==
  /\ Busy("load") \/ ~ui.isLoading => stored = token
  /\ ~crossed => /\ ~ui.isLoading => /\ ui.isAuthenticated <=> token # None
                                     /\ Renewing \/ ui.token = token
                 /\ Renewing => ui.isAuthenticated /\ task["refresh"].new = token
                 /\ Fresh("refresh") => ui.isAuthenticated
                 /\ Busy("refresh") => ui.isAuthenticated \/ task["refresh"].bearer = None

LEMMA UiIs ==
  ASSUME NEW t \in Bearer
  PROVE  /\ SignedIn(t).token = t /\ SignedIn(t).isAuthenticated /\ ~SignedIn(t).isLoading
         /\ SignedOut.token = None /\ ~SignedOut.isAuthenticated /\ ~SignedOut.isLoading
BY DEF SignedIn, SignedOut

LEMMA ClearAgrees ==
  ASSUME Inv, Agreed, NEW k \in Tasks, Busy(k), Clear, Return(k), Crossing(k)
  PROVE  Agreed'
<1>0. /\ token' = None /\ stored' = None /\ ui'.token = None /\ ~ui'.isAuthenticated
  BY Numbers, UiIs DEF Clear, SetToken
<1>1. /\ ~Busy(k)' /\ ~Fresh(k)'
      /\ \A j \in Tasks : j # k => task'[j] = task[j] /\ Busy(j)' = Busy(j) /\ Fresh(j)' = Fresh(j)
  BY ReturnStep
<1>2. ~crossed' => ~Busy("refresh")' /\ ~Fresh("refresh")'
  <2>1. ~crossed' => k = "refresh" \/ ~Busy("refresh")
    BY DEF Crossing, Busy
  <2>2. ~Busy("refresh") => ~Fresh("refresh")
    BY DEF Busy, Fresh
  <2> QED
    BY <1>1, <2>1, <2>2 DEF Tasks
<1> QED
  BY <1>0, <1>2 DEF Agreed, Renewing

LEMMA QuietAgrees ==
  ASSUME Inv, Agreed, NEW k \in Tasks \ {"refresh"}, Return(k), UNCHANGED <<token, stored, ui, crossed>>
  PROVE  Agreed'
<1>1. /\ ~Busy(k)'
      /\ \A j \in Tasks : j # k => task'[j] = task[j] /\ Busy(j)' = Busy(j) /\ Fresh(j)' = Fresh(j)
  BY ReturnStep
<1> QED
  BY <1>1 DEF Agreed, Renewing, Tasks

LEMMA BeginAgrees ==
  ASSUME Inv, Agreed, NEW k \in Tasks \ {"load"}, ~Busy(k), ~ui.isLoading, Await(k, k, token),
         UNCHANGED <<token, stored, ui>>, ~crossed' => ~crossed
  PROVE  Agreed'
<1>0. k \in Tasks /\ k \in What /\ token \in Bearer /\ task \in [Tasks -> Rows]
  BY Typing DEF Inv, Tasks, What
<1>1. /\ task'[k].at = "sent" /\ task'[k].what = k /\ task'[k].bearer = token
      /\ \A j \in Tasks : j # k => task'[j] = task[j]
  BY <1>0, CallIs DEF Await
<1>2. /\ \A j \in Tasks : j # k => Busy(j)' = Busy(j) /\ Fresh(j)' = Fresh(j)
      /\ ~Fresh(k)' /\ "refresh" \in Tasks /\ "load" \in Tasks
  BY <1>1 DEF Busy, Fresh, Tasks
<1>3. CASE k = "refresh"
  <2>1. ~Renewing /\ ~Renewing' /\ ~Fresh("refresh")' /\ Busy("load")' = Busy("load")
    BY <1>1, <1>2, <1>3 DEF Renewing
  <2> QED
    BY <1>1, <1>2, <1>3, <2>1 DEF Agreed
<1>4. CASE k # "refresh"
  BY <1>1, <1>2, <1>4 DEF Agreed, Renewing
<1> QED
  BY <1>3, <1>4

LEMMA CallAgrees ==
  ASSUME Inv, Agreed, Login \/ Fetch \/ Logout \/ Refresh
  PROVE  Agreed'
<1>0. /\ ui.isLoading => ~ui.isAuthenticated /\ ~timer
      /\ Idle.at = "idle"
  BY IdleIs DEF Inv, Starting
<1>1. PICK k \in Tasks \ {"load"} :
        /\ task[k] = Idle /\ ~ui.isLoading /\ Await(k, k, token)
        /\ UNCHANGED <<token, stored, ui>> /\ (~crossed' => ~crossed)
  <2>1. CASE Login
    BY <1>0, <2>1 DEF Login, Tasks, client
  <2>2. CASE Fetch
    BY <1>0, <2>2 DEF Fetch, Tasks, client
  <2>3. CASE Logout
    <3>1. ~crossed' => ~crossed
      BY <2>3 DEF Logout, Crossing
    <3> QED
      BY <1>0, <2>3, <3>1 DEF Logout, Tasks
  <2>4. CASE Refresh
    BY <1>0, <2>4 DEF Refresh, Tasks
  <2> QED
    BY <2>1, <2>2, <2>3, <2>4
<1>2. ~Busy(k)
  BY <1>0, <1>1 DEF Busy
<1> QED
  BY <1>1, <1>2, BeginAgrees

LEMMA LoadAgrees ==
  ASSUME Inv, Agreed, LoadStoredAuth
  PROVE  Agreed'
<1>0. /\ token = None /\ UNCHANGED <<stored, crossed>> /\ ui.isLoading
      /\ stored \in Bearer /\ task \in [Tasks -> Rows] /\ "load" \in Tasks
  BY Typing DEF LoadStoredAuth, Inv, Tasks
<1>1. "refresh" \in Tasks /\ ~Busy("refresh")
  BY <1>0 DEF Inv, Starting, Tasks
<1>2. ~Busy("refresh")' /\ ~Renewing' /\ ~Fresh("refresh")'
  <2>1. task'["refresh"] = task["refresh"]
    BY <1>0, <1>1 DEF LoadStoredAuth, Await
  <2> QED
    BY <1>1, <2>1 DEF Busy, Renewing, Fresh
<1>3. CASE stored = None
  BY <1>0, <1>2, <1>3, Numbers, UiIs DEF LoadStoredAuth, Agreed
<1>4. CASE stored # None
  BY <1>0, <1>2, <1>4 DEF LoadStoredAuth, Agreed
<1> QED
  BY <1>3, <1>4

LEMMA ServeAgrees ==
  ASSUME Inv, Agreed, NEW k \in Tasks, Serve(k)
  PROVE  Agreed'
<1>0. /\ task[k].at = "sent" /\ UNCHANGED <<token, stored, ui, crossed>>
      /\ task \in [Tasks -> Rows] /\ valid \subseteq Tokens
      /\ "refresh" \in Tasks /\ "load" \in Tasks
  BY Typing DEF Inv, Serve, client, Tasks
<1>1. /\ task'[k].at = "replied" /\ task'[k].what = task[k].what
      /\ task'[k].bearer = task[k].bearer /\ task'[k].ok = Accepted(task[k])
      /\ issued' = issued => task'[k].new = task[k].new
      /\ \A j \in Tasks : j # k => task'[j] = task[j]
  <2> DEFINE ok == Accepted(task[k])
             new == IF issued' > issued THEN issued' ELSE task[k].new
             row == [task[k] EXCEPT !.at = "replied", !.ok = ok, !.new = new]
  <2>1. task' = [task EXCEPT ![k] = row]
    BY DEF Serve
  <2>2. issued' = issued => new = task[k].new
    BY Typing, BoundsAssumption DEF Inv
  <2> HIDE DEF ok, new
  <2>3. task[k] \in Rows
    BY <1>0
  <2>4. /\ row.at = "replied" /\ row.what = task[k].what /\ row.bearer = task[k].bearer
        /\ row.ok = ok /\ row.new = new
    BY <2>3 DEF Rows
  <2> HIDE DEF row
  <2>5. task'[k] = row /\ \A j \in Tasks : j # k => task'[j] = task[j]
    BY <1>0, <2>1
  <2> QED
    BY <2>2, <2>4, <2>5 DEF ok
<1>2. \A j \in Tasks : Busy(j)' = Busy(j)
  BY <1>0, <1>1 DEF Busy
<1>3. Renewing' = Renewing
  BY <1>0, <1>1, <1>2 DEF Renewing
<1>4. Renewing => task'["refresh"].new = task["refresh"].new
  <2>1. CASE k = "refresh" /\ Renewing
    <3>1. task[k].what \in What /\ task[k].bearer \in Bearer
      BY <1>0 DEF Rows
    <3>2. issued' \in issued..MaxTokens /\ ~(issued' > issued)
      BY <2>1, <3>1, TokensStep DEF Serve, Renewing
    <3>3. issued' = issued
      BY <3>2, Typing, BoundsAssumption DEF Inv
    <3> QED
      BY <1>1, <2>1, <3>3
  <2> QED
    BY <1>0, <1>1, <2>1
<1>5. ~crossed /\ Fresh("refresh")' => ui.isAuthenticated
  <2>1. CASE k = "refresh" /\ Fresh("refresh")' /\ ~crossed
    <3>1. task[k].what = "refresh" /\ Accepted(task[k])
      BY <1>1, <2>1 DEF Fresh
    <3>2. task[k].bearer \in Tokens
      BY <1>0, <3>1 DEF Accepted
    <3>3. task[k].bearer # None /\ Busy("refresh")
      BY <1>0, <2>1, <3>2, BoundsAssumption DEF Tokens, None, Busy
    <3> QED
      BY <2>1, <3>3 DEF Agreed
  <2>2. CASE k # "refresh" /\ Fresh("refresh")' /\ ~crossed
    BY <1>0, <1>1, <2>2 DEF Agreed, Fresh
  <2> QED
    BY <2>1, <2>2
<1>6. task'["refresh"].bearer = task["refresh"].bearer
  BY <1>0, <1>1
<1> QED
  BY <1>0, <1>2, <1>3, <1>4, <1>5, <1>6 DEF Agreed

\* A retry carries the token of its moment.
LEMMA RetryAgrees ==
  ASSUME Inv, Agreed, NEW k \in Tasks, LoseAttempt(k), task[k].tries < MaxRetries
  PROVE  Agreed'
<1>0. /\ Busy(k) /\ UNCHANGED <<token, stored, ui, crossed>>
      /\ task[k] \in Rows /\ "refresh" \in Tasks /\ "load" \in Tasks
  BY Typing DEF LoseAttempt, Busy, Tasks, Inv, client
<1>1. /\ task'[k].at = "sent" /\ task'[k].what = task[k].what
      /\ task'[k].bearer = token /\ task'[k].new = task[k].new
      /\ \A j \in Tasks : j # k => task'[j] = task[j]
  <2> DEFINE row == [task[k] EXCEPT !.at = "sent", !.bearer = token,
                                    !.tries = task[k].tries + 1, !.ok = FALSE]
  <2>1. task' = [task EXCEPT ![k] = row] /\ task \in [Tasks -> Rows]
    BY Typing DEF LoseAttempt, Inv
  <2>2. row.at = "sent" /\ row.what = task[k].what /\ row.bearer = token /\ row.new = task[k].new
    BY <1>0 DEF Rows
  <2> HIDE DEF row
  <2> QED
    BY <2>1, <2>2
<1>2. \A j \in Tasks : Busy(j)' = Busy(j)
  BY <1>0, <1>1 DEF Busy
<1>3. /\ Renewing' = Renewing /\ task'["refresh"].new = task["refresh"].new
      /\ Fresh("refresh")' => Fresh("refresh")
      /\ task'["refresh"].bearer \in {task["refresh"].bearer, token}
  BY <1>0, <1>1, <1>2 DEF Renewing, Fresh
<1>4. Busy("refresh") => ~ui.isLoading
  BY <1>0 DEF Inv, Starting
<1> QED
  BY <1>0, <1>2, <1>3, <1>4 DEF Agreed

LEMMA AfterAgrees ==
  ASSUME Inv, Agreed, NEW k \in Tasks, Busy(k), Continue(k), Elsewhere,
         k \in {"login", "refresh"} /\ task[k].what # "me" => Fresh(k),
         IF k \in {"login", "logout"} THEN Crossing(k) ELSE UNCHANGED crossed
  PROVE  Agreed'
<1>0. /\ Busy("login") => task["login"].what = "login"
      /\ "refresh" \in Tasks /\ "load" \in Tasks
  BY DEF Inv, Kinds, Tasks
<1>1. CASE AfterLoad(k)
  <2>1. /\ k = "load" /\ ui' = SignedIn(task["load"].bearer) /\ Return("load")
        /\ UNCHANGED <<token, stored, crossed>>
    BY <1>1 DEF AfterLoad
  <2>2. /\ token # None /\ task["load"].bearer = token /\ ~Busy("refresh") /\ token \in Bearer
    BY <1>0, <2>1, Typing DEF Inv, Starting
  <2>3. ~Busy("load")' /\ ~Busy("refresh")' /\ ~Renewing' /\ ~Fresh("refresh")'
    <3>1. ~Fresh("refresh")
      BY <2>2 DEF Busy, Fresh
    <3> QED
      BY <1>0, <2>1, <2>2, <3>1, ReturnStep DEF Renewing
  <2> QED
    BY <2>1, <2>2, <2>3, UiIs DEF Agreed
<1>2. CASE AfterLogin(k)
  <2> DEFINE new == task["login"].new
  <2>1. k = "login" /\ Fresh("login") /\ Return(k) /\ token' = new /\ stored' = new
        /\ ui' = SignedIn(new)
    BY <1>0, <1>2 DEF AfterLogin, SetToken
  <2>2. new \in Bearer /\ new # None
    BY <2>1, Typing DEF Inv, HasToken, Rows
  <2>3. ~crossed' => ~Busy("refresh")
    BY <2>1 DEF Crossing, Busy
  <2>4. ~crossed' => ~Busy("refresh")' /\ ~Renewing' /\ ~Fresh("refresh")'
    <3>1. ~Busy("refresh") => ~Fresh("refresh")
      BY DEF Busy, Fresh
    <3> QED
      BY <1>0, <2>1, <2>3, <3>1, ReturnStep DEF Renewing
  <2> HIDE DEF new
  <2> QED
    BY <2>1, <2>2, <2>4, UiIs DEF Agreed
<1>3. CASE AfterLogout(k)
  BY <1>3, ClearAgrees DEF AfterLogout
<1>4. CASE AfterRefresh(k)
  <2> DEFINE new == task["refresh"].new
             row == [Call("me", new) EXCEPT !.new = new]
  <2>1. /\ k = "refresh" /\ Fresh("refresh") /\ token' = new /\ stored' = new
        /\ task' = [task EXCEPT !["refresh"] = row] /\ UNCHANGED <<ui, timer, crossed>>
    BY <1>4 DEF AfterRefresh, SetToken
  <2>2. new \in Bearer /\ new # None /\ task \in [Tasks -> Rows]
    BY <1>0, <2>1, Typing DEF Inv, HasToken, Rows
  <2>3. row.at = "sent" /\ row.what = "me" /\ row.new = new
    <3>1. /\ Call("me", new) \in Rows /\ Call("me", new).at = "sent"
          /\ Call("me", new).what = "me"
      BY <2>2, CallIs DEF What
    <3> QED
      BY <3>1 DEF Rows
  <2> HIDE DEF row, new
  <2>4. task'["refresh"] = row /\ task'["load"] = task["load"]
    BY <1>0, <2>1, <2>2
  <2>5. Renewing' /\ ~Fresh("refresh")' /\ Busy("load")' = Busy("load")
    BY <2>3, <2>4 DEF Renewing, Busy, Fresh
  <2>6. ~Busy("load") /\ ~ui.isLoading
    BY <1>0, <2>1 DEF Inv, Starting
  <2> QED
    BY <2>1, <2>2, <2>3, <2>4, <2>5, <2>6 DEF Agreed
<1>5. CASE AfterMe(k)
  <2>1. /\ k = "refresh" /\ Return("refresh") /\ UNCHANGED <<token, stored, crossed>>
        /\ task["refresh"].what = "me" /\ ui' = [ui EXCEPT !.token = task["refresh"].new]
    BY <1>5 DEF AfterMe
  <2>2. Renewing /\ ~Busy("load") /\ ~ui.isLoading
    BY <1>0, <2>1 DEF Renewing, Inv, Starting
  <2>3. /\ ui'.token = task["refresh"].new /\ ui'.isLoading = ui.isLoading
        /\ ui'.isAuthenticated = ui.isAuthenticated
    BY <2>1, Typing DEF Inv, States
  <2>4. ~Busy("refresh")' /\ ~Renewing' /\ ~Fresh("refresh")' /\ ~Busy("load")'
    BY <1>0, <2>1, <2>2, ReturnStep DEF Renewing
  <2> QED
    BY <2>1, <2>2, <2>3, <2>4 DEF Agreed
<1>6. CASE AfterFetch(k)
  <2>1. k = "fetch" /\ Return(k) /\ UNCHANGED <<token, stored, ui, crossed>>
    BY <1>6 DEF AfterFetch, client
  <2> QED
    BY <2>1, QuietAgrees
<1> QED
  BY <1>1, <1>2, <1>3, <1>4, <1>5, <1>6 DEF Continue

LEMMA ThrowAgrees ==
  ASSUME Inv, Agreed, NEW k \in Tasks, Busy(k), Throw(k)
  PROVE  Agreed'
<1>1. CASE Clears(k)
  BY <1>1, ClearAgrees DEF Throw
<1>2. CASE ~Clears(k)
  BY <1>2, QuietAgrees DEF Throw, Clears
<1> QED
  BY <1>1, <1>2

LEMMA ReceiveAgrees ==
  ASSUME Inv, Agreed, NEW k \in Tasks, Receive(k)
  PROVE  Agreed'
<1>0. /\ task[k].at = "replied" /\ Busy(k) /\ UNCHANGED <<late, valid, issued, faults>>
  BY DEF Receive, Busy
<1>1. CASE task[k].ok
  <2>1. Continue(k) /\ IF k \in {"login", "logout"} THEN Crossing(k) ELSE UNCHANGED crossed
    BY <1>1 DEF Receive
  <2>2. k \in {"login", "refresh"} /\ task[k].what # "me" => Fresh(k)
    BY <1>0, <1>1 DEF Fresh, Inv, Kinds, Tasks
  <2>3. Elsewhere
    <3>1. crossed' \in BOOLEAN
      BY <2>1, CrossingIs, Typing DEF Inv
    <3> QED
      BY <1>0, <3>1, Typing DEF Elsewhere, Inv
  <2> QED
    BY <1>0, <2>1, <2>2, <2>3, AfterAgrees
<1>2. CASE ~task[k].ok
  BY <1>0, <1>2, ClearAgrees DEF Receive
<1> QED
  BY <1>1, <1>2

LEMMA FailAgrees ==
  ASSUME Inv, Agreed, NEW k \in Tasks, Busy(k), Fail(k), Fault, UNCHANGED <<valid, issued>>,
         late' \in SUBSET [what : What, bearer : Bearer]
  PROVE  Agreed'
<1>1. CASE Throw(k)
  BY <1>1, ThrowAgrees
<1>2. CASE task[k].what \in {"me", "fetch"} /\ Continue(k) /\ UNCHANGED crossed
  <2>1. k \notin {"login", "logout"} /\ ~(k = "refresh" /\ task[k].what # "me")
    BY <1>2 DEF Inv, Kinds, Tasks
  <2>2. Elsewhere
    BY <1>2, FaultIs, Typing DEF Elsewhere, Inv
  <2> QED
    BY <1>2, <2>1, <2>2, AfterAgrees
<1> QED
  BY <1>1, <1>2 DEF Fail

LEMMA FailureAgrees ==
  ASSUME Inv, Agreed, NEW k \in Tasks, LoseAttempt(k) \/ Offline(k)
  PROVE  Agreed'
<1>0. /\ Busy(k) /\ Fault /\ UNCHANGED <<valid, issued>>
      /\ late' \in SUBSET [what : What, bearer : Bearer]
  BY GivenUpIs, Typing DEF LoseAttempt, Offline, Busy, Inv
<1>1. CASE LoseAttempt(k) /\ task[k].tries < MaxRetries
  BY <1>1, RetryAgrees
<1>2. CASE LoseAttempt(k) /\ ~(task[k].tries < MaxRetries)
  BY <1>0, <1>2, FailAgrees DEF LoseAttempt
<1>3. CASE Offline(k)
  BY <1>0, <1>3, FailAgrees DEF Offline
<1> QED
  BY <1>1, <1>2, <1>3

LEMMA RestartAgrees ==
  ASSUME Inv, Agreed, Restart
  PROVE  Agreed'
<1>1. task' = [k \in Tasks |-> Idle] /\ ui' = Loading /\ ui'.isLoading
  BY DEF Restart, Loading, SignedOut
<1>2. ~Busy("load")' /\ ~Busy("refresh")' /\ ~Renewing' /\ ~Fresh("refresh")'
  BY <1>1, IdleIs DEF Busy, Renewing, Fresh, Tasks
<1> QED
  BY <1>1, <1>2 DEF Agreed

LEMMA InitAgreed == Init => Agreed
<1> SUFFICES ASSUME Init PROVE Agreed
  OBVIOUS
<1>1. task = [k \in Tasks |-> Idle] /\ ui = Loading /\ ui.isLoading
  BY DEF Init, Loading, SignedOut
<1>2. ~Busy("load") /\ ~Busy("refresh") /\ ~Renewing /\ ~Fresh("refresh")
  BY <1>1, IdleIs DEF Busy, Renewing, Fresh, Tasks
<1> QED
  BY <1>1, <1>2 DEF Agreed

LEMMA StepAgreed == Inv /\ Agreed /\ [Next]_vars => Agreed'
<1> SUFFICES ASSUME Inv, Agreed, [Next]_vars PROVE Agreed'
  OBVIOUS
<1>1. CASE LoadStoredAuth \/ Login \/ Fetch \/ Logout \/ Refresh \/ Restart
  BY <1>1, LoadAgrees, CallAgrees, RestartAgrees
<1>2. ASSUME NEW k \in Tasks, Serve(k) \/ Receive(k) \/ LoseAttempt(k) \/ Offline(k)
      PROVE  Agreed'
  BY <1>2, ServeAgrees, ReceiveAgrees, FailureAgrees
<1>3. CASE UNCHANGED <<token, stored, ui, task, crossed>>
  BY <1>3 DEF Agreed, Renewing, Busy, Fresh
<1>4. CASE (\E c \in late : ServeLate(c)) \/ (\E t \in Tokens : Expire(t)) \/ UNCHANGED vars
  BY <1>3, <1>4 DEF ServeLate, Expire, client, vars
<1> QED
  BY <1>1, <1>2, <1>4 DEF Next

\* At rest the storage holds the token in use, which a signed-in app has, whatever overlaps, is
\* lost, retried, killed or expires; and the screen agrees with both unless the session began or
\* ended elsewhere while a refresh was under way.
THEOREM SessionStaysAgreed == Spec => []SessionAgrees
<1>1. Inv /\ Agreed => SessionAgrees
  <2>1. Inv /\ AtRest => ~Renewing
    BY IdleIs DEF AtRest, Renewing, Busy, Tasks
  <2>2. Inv /\ AtRest /\ ui.isAuthenticated => token # None
    BY IdleIs DEF Inv, HasToken, Armed, AtRest, Busy, Fresh, Tasks
  <2> QED
    BY <2>1, <2>2 DEF SessionAgrees, Agreed
<1>2. Spec => []Agreed
  BY InitAgreed, StepAgreed, InvAlways, PTL DEF Spec
<1> QED
  BY <1>1, <1>2, InvAlways, PTL
-----------------------------------------------------------------------------
(* What ends a session.                                                                         *)

\* Task k has been answered with a 401 that it has not heard yet.
Refused(k) == task[k].at = "replied" /\ ~task[k].ok

\* A token that was refused once is never accepted again.
RefusedForGood == \A k \in Tasks : Refused(k) => task[k].bearer \notin valid

LEMMA ContinueEnds ==
  ASSUME NEW k, Continue(k)
  PROVE  \/ Return(k)
         \/ \E t : task' = [task EXCEPT ![k] = [Call("me", t) EXCEPT !.new = t]]
BY DEF Continue, AfterLoad, AfterLogin, AfterLogout, AfterRefresh, AfterMe, AfterFetch

\* Only the backend refuses a call.
LEMMA OnlyServedIsRefused ==
  ASSUME Inv, [Next]_vars, NEW j \in Tasks, Refused(j)'
  PROVE  \/ Refused(j) /\ task'[j] = task[j]
         \/ Serve(j) /\ ~Accepted(task[j]) /\ task'[j].bearer = task[j].bearer
<1> DEFINE Goal == \/ Refused(j) /\ task'[j] = task[j]
                   \/ Serve(j) /\ ~Accepted(task[j]) /\ task'[j].bearer = task[j].bearer
<1>0. task \in [Tasks -> Rows]
  BY Typing DEF Inv
<1>1. ASSUME task' = task PROVE Goal
  BY <1>1 DEF Refused
<1>2. ASSUME NEW k \in Tasks, NEW row, row.at # "replied", task' = [task EXCEPT ![k] = row]
      PROVE  Goal
  BY <1>0, <1>2 DEF Refused
<1>3. ASSUME NEW k \in Tasks, Return(k) PROVE Goal
  BY <1>2, <1>3, IdleIs DEF Return
<1>4. ASSUME NEW k \in Tasks, Continue(k) PROVE Goal
  <2>1. CASE Return(k)
    BY <1>3, <2>1
  <2>2. ASSUME NEW t, task' = [task EXCEPT ![k] = [Call("me", t) EXCEPT !.new = t]] PROVE Goal
    <3>1. [Call("me", t) EXCEPT !.new = t].at # "replied"
      BY DEF Call, Idle
    <3> QED
      BY <1>2, <2>2, <3>1
  <2> QED
    BY <1>4, <2>1, <2>2, ContinueEnds
<1>5. ASSUME NEW k \in Tasks, NEW what, NEW t, Await(k, what, t) PROVE Goal
  <2>1. Call(what, t).at # "replied"
    BY DEF Call, Idle
  <2> QED
    BY <1>2, <1>5, <2>1 DEF Await
<1>6. CASE LoadStoredAuth \/ Login \/ Fetch \/ Logout \/ Refresh
  BY <1>1, <1>5, <1>6 DEF LoadStoredAuth, Login, Fetch, Logout, Refresh, Tasks
<1>7. CASE Restart
  BY <1>7, IdleIs DEF Restart, Refused
<1>8. ASSUME NEW k \in Tasks, Serve(k) PROVE Goal
  <2>1. CASE k = j
    BY <1>0, <1>8, <2>1 DEF Serve, Refused
  <2>2. CASE k # j
    BY <1>0, <1>8, <2>2 DEF Serve, Refused
  <2> QED
    BY <2>1, <2>2
<1>9. ASSUME NEW k \in Tasks, Receive(k) PROVE Goal
  BY <1>3, <1>4, <1>9 DEF Receive
<1>10. ASSUME NEW k \in Tasks, LoseAttempt(k) PROVE Goal
  <2>1. CASE task[k].tries < MaxRetries
    <3> DEFINE row == [task[k] EXCEPT !.at = "sent", !.bearer = token,
                                      !.tries = task[k].tries + 1, !.ok = FALSE]
    <3>1. task' = [task EXCEPT ![k] = row]
      BY <1>10, <2>1 DEF LoseAttempt
    <3>2. row.at # "replied"
      BY <1>0 DEF Rows
    <3> QED
      BY <1>2, <3>1, <3>2
  <2>2. CASE ~(task[k].tries < MaxRetries)
    BY <1>3, <1>4, <1>10, <2>2 DEF LoseAttempt, Fail, Throw
  <2> QED
    BY <2>1, <2>2
<1>11. ASSUME NEW k \in Tasks, Offline(k) PROVE Goal
  BY <1>3, <1>4, <1>11 DEF Offline, Fail, Throw
<1>12. ASSUME (\E c \in late : ServeLate(c)) \/ (\E t \in Tokens : Expire(t)) \/ UNCHANGED vars
       PROVE  Goal
  BY <1>1, <1>12 DEF ServeLate, Expire, vars
<1> QED
  BY <1>6, <1>7, <1>8, <1>9, <1>10, <1>11, <1>12 DEF Next

\* The backend accepts no token anew but the one it issues.
LEMMA OnlyNewAccepted ==
  ASSUME Inv, [Next]_vars, NEW t \in valid'
  PROVE  t \in valid \/ t > issued
<1>0. issued \in Nat
  BY Typing, BoundsAssumption DEF Inv
<1>1. ASSUME NEW c, TokensAfter(c) PROVE t \in valid \/ t > issued
  BY <1>0, <1>1 DEF TokensAfter
<1>2. ASSUME valid' \subseteq valid PROVE t \in valid \/ t > issued
  BY <1>2
<1>3. CASE LoadStoredAuth \/ Login \/ Fetch \/ Logout \/ Refresh \/ Restart
  BY <1>2, <1>3 DEF LoadStoredAuth, Login, Fetch, Logout, Refresh, Restart
<1>4. ASSUME NEW k \in Tasks, Serve(k) \/ Receive(k) \/ LoseAttempt(k) \/ Offline(k)
      PROVE  t \in valid \/ t > issued
  BY <1>1, <1>2, <1>4 DEF Serve, Receive, LoseAttempt, Offline
<1>5. ASSUME (\E c \in late : ServeLate(c)) \/ (\E s \in Tokens : Expire(s)) \/ UNCHANGED vars
      PROVE  t \in valid \/ t > issued
  BY <1>1, <1>2, <1>5 DEF ServeLate, Expire, vars
<1> QED
  BY <1>3, <1>4, <1>5 DEF Next

LEMMA StepRefused == Inv /\ RefusedForGood /\ [Next]_vars => RefusedForGood'
<1> SUFFICES ASSUME Inv, RefusedForGood, [Next]_vars, NEW j \in Tasks, Refused(j)',
                    task'[j].bearer \in valid'
             PROVE  FALSE
  BY DEF RefusedForGood
<1>1. issued \in Nat /\ task[j].bearer \in Nat /\ task[j].bearer <= issued
  BY Typing, BoundsAssumption, Numbers DEF Inv, Issued, Rows
<1>2. task'[j].bearer = task[j].bearer /\ task[j].bearer \notin valid
  <2>1. CASE Refused(j) /\ task'[j] = task[j]
    BY <2>1 DEF RefusedForGood
  <2>2. CASE Serve(j) /\ ~Accepted(task[j]) /\ task'[j].bearer = task[j].bearer
    BY <2>2 DEF Accepted
  <2> QED
    BY <2>1, <2>2, OnlyServedIsRefused
<1>3. task[j].bearer > issued
  BY <1>2, OnlyNewAccepted
<1> QED
  BY <1>1, <1>3

LEMMA RefusedAlways == Spec => []RefusedForGood
<1>1. Init => RefusedForGood
  BY IdleIs DEF Init, RefusedForGood, Refused
<1> QED
  BY <1>1, StepRefused, InvAlways, PTL DEF Spec

\* Where nothing fails, a session ends only because its user ends it, or because onUnauthorized
\* hears the refusal of a call made before the token was replaced: the call carries another
\* token than the client's, or the answer of the refresh that replaces it is still on its way.
\* CHANGELOG.md leaves the second out (OnlyLogoutEnds, which the code does not keep).
SessionEndsFor ==
  ui.isAuthenticated /\ ~ui'.isAuthenticated /\ faults' = 0 =>
    \/ Busy("logout")
    \/ \E k \in Tasks : Refused(k) /\ (task[k].bearer # token \/ Fresh("refresh"))

LEMMA StepEnds == Inv /\ RefusedForGood /\ [Next]_vars => SessionEndsFor
<1> SUFFICES ASSUME Inv, RefusedForGood, [Next]_vars,
                    ui.isAuthenticated, ~ui'.isAuthenticated, faults' = 0
             PROVE  \/ Busy("logout")
                    \/ \E k \in Tasks : Refused(k) /\ (task[k].bearer # token \/ Fresh("refresh"))
  BY DEF SessionEndsFor
<1>0. ui' # ui
  OBVIOUS
<1>1. ~Fault
  BY FaultIs
<1>2. ASSUME NEW k \in Tasks, Receive(k), task[k].ok PROVE Busy("logout")
  <2>1. task[k].at = "replied" /\ Continue(k)
    BY <1>2 DEF Receive
  <2>2. ~AfterLoad(k) /\ ~AfterLogin(k)
    BY DEF AfterLoad, AfterLogin, SignedIn
  <2>3. ~AfterRefresh(k) /\ ~AfterFetch(k)
    BY <1>0 DEF AfterRefresh, AfterFetch, client
  <2>4. ~AfterMe(k)
    <3>1. ui \in States
      BY Typing DEF Inv
    <3> QED
      BY <3>1 DEF AfterMe, States
  <2>5. k = "logout"
    BY <2>1, <2>2, <2>3, <2>4 DEF Continue, AfterLogout
  <2> QED
    BY <2>1, <2>5 DEF Busy
<1>3. ASSUME NEW k \in Tasks, Receive(k), ~task[k].ok
      PROVE  Busy("logout") \/ (Refused(k) /\ (task[k].bearer # token \/ Fresh("refresh")))
  <2>1. Refused(k) /\ faults = 0
    BY <1>3 DEF Receive, Refused
  <2>2. task[k].bearer \notin valid
    BY <2>1 DEF RefusedForGood
  <2>3. token \in valid \/ Busy("logout") \/ Fresh("refresh")
    BY <2>1 DEF Inv, Live
  <2> QED
    BY <2>1, <2>2, <2>3
<1>4. ~LoadStoredAuth
  BY DEF LoadStoredAuth, Inv, Starting
<1>5. ~(Login \/ Fetch \/ Logout \/ Refresh \/ Restart)
  BY <1>0, <1>1 DEF Login, Fetch, Logout, Refresh, Restart, client
<1>6. ASSUME NEW k \in Tasks PROVE ~(Serve(k) \/ LoseAttempt(k) \/ Offline(k))
  BY <1>0, <1>1 DEF Serve, LoseAttempt, Offline, client
<1>7. (\A c \in late : ~ServeLate(c)) /\ (\A t \in Tokens : ~Expire(t)) /\ ~UNCHANGED vars
  BY <1>0 DEF ServeLate, Expire, vars, client
<1>8. \E k \in Tasks : Receive(k)
  BY <1>4, <1>5, <1>6, <1>7 DEF Next
<1> QED
  BY <1>2, <1>3, <1>8

\* However sign-in, sign-out, refresh and other requests overlap, nothing else than those two
\* ends a session where nothing fails.
THEOREM SessionEndsHaveCause == Spec => [][SessionEndsFor]_vars
BY StepEnds, RefusedAlways, InvAlways, PTL DEF Spec

=============================================================================
