----------------------------- MODULE AuthSession -----------------------------
(***************************************************************************)
(* The session of a user in the mobile apps: useAuth.tsx, the token the    *)
(* API client holds (client.ts), the copy in the SecureStore, and the      *)
(* tokens the backend knows (AuthController).  Each asynchronous function  *)
(* of useAuth is a task; it makes calls of the API client one after the    *)
(* other and goes on in the callback in which an answer is heard.  What a  *)
(* call may do is the contract the client keeps (ApiContract): several     *)
(* attempts, each with the token of its moment, and attempts given up that *)
(* the backend serves later.                                               *)
(*                                                                         *)
(* token     ApiClient._token         stored  auth_token in the SecureStore*)
(* ui        the AuthState of the provider (user is left out)              *)
(* timer     whether the refresh timer is armed                            *)
(* task[k]   the call task k awaits: at, what, with the bearer token of    *)
(*           the current attempt, its retries, and the answer on its way   *)
(* late      attempts given up that the backend may still serve            *)
(* valid     the tokens the backend accepts;  issued, faults: counters     *)
(* crossed   whether the session was begun or ended by one task while the  *)
(*           refresh was under way (history)                               *)
(***************************************************************************)
EXTENDS Naturals, FiniteSets

CONSTANTS MaxRetries, \* client.ts: MAX_RETRIES
          MaxTokens,  \* bounds of a run: tokens the backend issues, and
          MaxFaults   \* failures of the network, restarts and expiries

ASSUME BoundsAssumption == MaxRetries \in Nat /\ MaxTokens \in Nat /\ MaxFaults \in Nat

VARIABLES token, stored, ui, timer, task, late, valid, issued, faults, crossed

client == <<token, stored, ui, timer>>
vars == <<token, stored, ui, timer, task, late, valid, issued, faults, crossed>>

None == 0
Tokens == 1..MaxTokens
Bearer == Tokens \cup {None}
Tasks == {"load", "login", "logout", "refresh", "fetch"}
What == {"me", "login", "logout", "refresh", "fetch"}

Idle == [at |-> "idle", what |-> "fetch", bearer |-> None, tries |-> 0, ok |-> FALSE,
         new |-> None]

TypeOK ==
  /\ token \in Bearer /\ stored \in Bearer
  /\ ui \in [token : Bearer, isAuthenticated : BOOLEAN, isLoading : BOOLEAN]
  /\ timer \in BOOLEAN
  /\ task \in [Tasks -> [at : {"idle", "sent", "replied"}, what : What, bearer : Bearer,
                         tries : 0..MaxRetries, ok : BOOLEAN, new : Bearer]]
  /\ late \subseteq [what : What, bearer : Bearer]
  /\ valid \subseteq Tokens
  /\ issued \in 0..MaxTokens /\ faults \in 0..MaxFaults
  /\ crossed \in BOOLEAN

SignedOut == [token |-> None, isAuthenticated |-> FALSE, isLoading |-> FALSE]
SignedIn(t) == [token |-> t, isAuthenticated |-> TRUE, isLoading |-> FALSE]
Loading == [SignedOut EXCEPT !.isLoading = TRUE]

\* The app starts, with the token of an earlier session or without.
Init ==
  /\ stored \in {None} \cup (Tokens \cap {1})
  /\ issued = stored /\ valid = {stored} \ {None}
  /\ token = None /\ ui = Loading /\ timer = FALSE
  /\ task = [k \in Tasks |-> Idle]
  /\ late = {} /\ faults = 0
  /\ crossed = FALSE

-----------------------------------------------------------------------------
(* Calls of the API client. *)

\* A call of task k with bearer t.
Call(what, t) == [Idle EXCEPT !.at = "sent", !.what = what, !.bearer = t]

Await(k, what, t) == task' = [task EXCEPT ![k] = Call(what, t)]
Return(k) == task' = [task EXCEPT ![k] = Idle]

\* setToken and clearToken, with the SecureStore.
SetToken(t) == token' = t /\ stored' = t

\* A bug: The token is dropped from memory only.
ClearMemory == token' = None /\ stored' = stored /\ ui' = SignedOut

Clear == SetToken(None) /\ ui' = SignedOut

Crossing(k) == crossed' = (crossed \/ (k # "refresh" /\ task["refresh"].at # "idle"))

-----------------------------------------------------------------------------
(* The functions of useAuth, up to their first call. *)

LoadStoredAuth ==
  /\ ui.isLoading /\ token = None
  /\ task["load"] = Idle
  /\ IF stored = None
     THEN ui' = SignedOut /\ UNCHANGED <<token, task>>
     ELSE token' = stored /\ Await("load", "me", stored) /\ UNCHANGED ui
  /\ UNCHANGED <<stored, timer, late, valid, issued, faults, crossed>>

\* A screen asks for an action, or for data of its own.
Login ==
  /\ ~ui.isAuthenticated /\ ~ui.isLoading
  /\ task["login"] = Idle
  /\ Await("login", "login", token)
  /\ UNCHANGED <<client, late, valid, issued, faults, crossed>>

Fetch ==
  /\ ui.isAuthenticated
  /\ task["fetch"] = Idle
  /\ Await("fetch", "fetch", token)
  /\ UNCHANGED <<client, late, valid, issued, faults, crossed>>

Logout ==
  /\ ui.isAuthenticated
  /\ task["logout"] = Idle
  /\ timer' = FALSE
  /\ Await("logout", "logout", token)
  /\ Crossing("logout")
  /\ UNCHANGED <<token, stored, ui, late, valid, issued, faults>>

\* The refresh timer fires.
Refresh ==
  /\ timer
  /\ task["refresh"] = Idle
  /\ timer' = FALSE
  /\ Await("refresh", "refresh", token)
  /\ UNCHANGED <<token, stored, ui, late, valid, issued, faults, crossed>>

-----------------------------------------------------------------------------
(* The backend. *)

Accepted(c) == c.what = "login" \/ c.bearer \in valid

\* What serving call c does to the tokens.
TokensAfter(c) ==
  LET gone == IF c.what \in {"refresh", "logout"} THEN {c.bearer} ELSE {}
      new == IF c.what \in {"login", "refresh"} THEN {issued + 1} ELSE {}
  IN /\ Cardinality(new) + issued <= MaxTokens
     /\ valid' = IF Accepted(c) THEN (valid \ gone) \cup new ELSE valid
     /\ issued' = IF Accepted(c) THEN issued + Cardinality(new) ELSE issued

Serve(k) ==
  /\ task[k].at = "sent"
  /\ TokensAfter(task[k])
  /\ task' = [task EXCEPT ![k].at = "replied", ![k].ok = Accepted(task[k]),
                          ![k].new = IF issued' > issued THEN issued' ELSE @]
  /\ UNCHANGED <<client, late, faults, crossed>>

ServeLate(c) ==
  /\ c \in late
  /\ late' = late \ {c}
  /\ TokensAfter(c)
  /\ UNCHANGED <<client, task, faults, crossed>>

-----------------------------------------------------------------------------
(* The tasks go on: what follows a good answer, and what follows an error. *)

AfterLoad(k) ==
  /\ k = "load"
  /\ ui' = SignedIn(task[k].bearer)
  /\ timer' = TRUE
  /\ Return(k)
  /\ UNCHANGED <<token, stored>>

AfterLogin(k) ==
  /\ k = "login"
  /\ SetToken(task[k].new)
  /\ ui' = SignedIn(task[k].new)
  /\ timer' = TRUE
  /\ Return(k)

AfterLogout(k) == k = "logout" /\ Clear /\ Return(k) /\ UNCHANGED timer

\* The new token is stored, and the user is asked for with it.
AfterRefresh(k) ==
  /\ k = "refresh" /\ task[k].what = "refresh"
  /\ SetToken(task[k].new)
  /\ task' = [task EXCEPT ![k] = [Call("me", task[k].new) EXCEPT !.new = task[k].new]]
  /\ UNCHANGED <<ui, timer>>

\* A bug: The next refresh is not scheduled.
AfterMeOnce(k) ==
  /\ k = "refresh" /\ task[k].what = "me"
  /\ ui' = [ui EXCEPT !.token = task[k].new]
  /\ Return(k)
  /\ UNCHANGED <<token, stored, timer>>

\* isAuthenticated is taken over from the state there is.
AfterMe(k) ==
  /\ k = "refresh" /\ task[k].what = "me"
  /\ ui' = [ui EXCEPT !.token = task[k].new]
  /\ timer' = TRUE
  /\ Return(k)
  /\ UNCHANGED <<token, stored>>

AfterFetch(k) == k = "fetch" /\ Return(k) /\ UNCHANGED client

Continue(k) == \/ AfterLoad(k) \/ AfterLogin(k) \/ AfterLogout(k)
               \/ AfterRefresh(k) \/ AfterMe(k) \/ AfterFetch(k)

\* A bug: loadStoredAuth does not catch.
ThrowUncaught(k) ==
  /\ IF k \in {"refresh", "logout"} THEN Clear /\ Crossing(k)
                                    ELSE UNCHANGED <<token, stored, ui, crossed>>
  /\ Return(k)

Clears(k) == k \in {"load", "refresh", "logout"}

\* An error that is thrown into task k.
Throw(k) ==
  /\ IF Clears(k) THEN Clear /\ Crossing(k) ELSE UNCHANGED <<token, stored, ui, crossed>>
  /\ Return(k)

\* Neither network nor retries are left: the error is thrown, or a read answered with its copy.
Fail(k) ==
  \/ Throw(k) /\ UNCHANGED timer
  \/ task[k].what \in {"me", "fetch"} /\ Continue(k) /\ UNCHANGED crossed

Receive(k) ==
  /\ task[k].at = "replied"
  /\ IF task[k].ok THEN Continue(k)
     ELSE \* 401: onUnauthorized, then the error is thrown
       Clear /\ timer' = FALSE /\ Return(k)
  /\ IF k \in {"login", "logout"} \/ ~task[k].ok THEN Crossing(k) ELSE UNCHANGED crossed
  /\ UNCHANGED <<late, valid, issued, faults>>

-----------------------------------------------------------------------------
(* Failures. *)

Fault == faults < MaxFaults /\ faults' = faults + 1

GivenUp(k) == IF task[k].at = "sent" THEN {[what |-> task[k].what, bearer |-> task[k].bearer]}
                                     ELSE {}

\* A bug: A retry is counted by the attempt that failed and again by the one it starts.
LoseAttemptTwice(k) ==
  /\ task[k].at # "idle"
  /\ Fault
  /\ late' = late \cup GivenUp(k)
  /\ IF task[k].tries < MaxRetries
     THEN /\ task' = [task EXCEPT ![k] = [task[k] EXCEPT !.at = "sent", !.bearer = token,
                                                         !.tries = @ + 2, !.ok = FALSE]]
          /\ UNCHANGED <<client, crossed>>
     ELSE Fail(k)
  /\ UNCHANGED <<valid, issued>>

\* An attempt, or its answer, is lost.  The next attempt carries the token of its moment.
LoseAttempt(k) ==
  /\ task[k].at # "idle"
  /\ Fault
  /\ late' = late \cup GivenUp(k)
  /\ IF task[k].tries < MaxRetries
     THEN /\ task' = [task EXCEPT ![k] = [task[k] EXCEPT !.at = "sent", !.bearer = token,
                                                         !.tries = @ + 1, !.ok = FALSE]]
          /\ UNCHANGED <<client, crossed>>
     ELSE Fail(k)
  /\ UNCHANGED <<valid, issued>>

\* The device is offline when an attempt is due.  A login waits in the queue instead, for
\* ever (ApiClient).
Offline(k) ==
  /\ task[k].at = "sent" /\ k # "login"
  /\ Fault
  /\ Fail(k)
  /\ UNCHANGED <<late, valid, issued>>

\* The process is killed and the app started again.
Restart ==
  /\ ~ui.isLoading
  /\ Fault
  /\ late' = late \cup UNION {GivenUp(k) : k \in Tasks}
  /\ task' = [k \in Tasks |-> Idle]
  /\ token' = None /\ ui' = Loading /\ timer' = FALSE
  /\ UNCHANGED <<stored, valid, issued, crossed>>

\* The backend expires a token after seven days.
Expire(t) ==
  /\ t \in valid
  /\ Fault
  /\ valid' = valid \ {t}
  /\ UNCHANGED <<client, task, late, issued, crossed>>

-----------------------------------------------------------------------------
Next ==
  \/ LoadStoredAuth \/ Login \/ Fetch \/ Logout \/ Refresh \/ Restart
  \/ \E k \in Tasks : Serve(k) \/ Receive(k) \/ LoseAttempt(k) \/ Offline(k)
  \/ \E c \in late : ServeLate(c)
  \/ \E t \in Tokens : Expire(t)

\* The app loads, and a call ends: with an answer, or by API_TIMEOUT.
Fairness == /\ WF_vars(LoadStoredAuth)
            /\ \A k \in Tasks : WF_vars(Serve(k) \/ LoseAttempt(k)) /\ WF_vars(Receive(k))

Spec == Init /\ [][Next]_vars /\ Fairness

-----------------------------------------------------------------------------
AtRest == \A k \in Tasks : task[k] = Idle

\* A signed-in app at rest lives on: it has a token, the backend accepts it unless something
\* failed, and the refresh timer is armed.
SignedInLives ==
  AtRest /\ ui.isAuthenticated => token # None /\ timer /\ (token \in valid \/ faults > 0)

\* At rest the storage holds the token in use, so that a restart goes on where the app was, and
\* a signed-in app has one, whatever overlapped.  The screen agrees with both, unless the
\* session began or ended elsewhere while a refresh was under way.
SessionAgrees ==
  AtRest /\ ~ui.isLoading =>
    /\ stored = token
    /\ ui.isAuthenticated => token # None
    /\ ~crossed => (token # None => ui.isAuthenticated) /\ ui.token = token

\* The splash screen ends, whatever the network does.
LoadingEnds == ui.isLoading ~> ~ui.isLoading

\* CHANGELOG.md: the refresh before expiry prevents mid-session auth failures.  Where nothing
\* fails, only its user ends a session.
OnlyLogoutEnds ==
  [][ui.isAuthenticated /\ ~ui'.isAuthenticated /\ faults' = 0 => task["logout"] # Idle]_vars
=============================================================================
