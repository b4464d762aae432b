# EasyRyde: models, checks and proofs

This directory holds TLA+ models of the parts of EasyRyde in which several
actors change the same state at different times: on the backend the life of a
ride, the money of a ride, and the wallets and payouts of drivers; on the socket
server the claim by which drivers compete for a ride; in the mobile apps the
API client with its offline queue, the session, the socket of each screen, and
what the two screens of a ride show of it. TLC checks the models on small
instances; TLAPS proves their invariants, and two refinements, for instances of
any size. All paths below are relative to `src/`.

## 1. The system

EasyRyde is a Laravel backend (`backend/`), a Node socket server
(`socket-server/`), three React Native applications (`mobile/apps/rider`,
`driver` and `admin`) over shared packages (`mobile/packages/`: `shared` has the
API client, the hooks and the stores), and two web sites (`web/`, `admin/`). The
backend keeps its state in Postgres at READ COMMITTED
(`backend/.env.example:24`), with Redis as cache and queue (`:87`, `:136`). The
scheduler (`backend/routes/console.php`) starts commands and queued jobs beside
the web workers. The socket server has no database: it keeps short-lived keys in
the same Redis and asks the backend's API for every decision. Nothing serialises
two requests about one ride except the row locks each handler chooses to take.
The apps see the backend through one API client and one socket per mounted
screen. `.opencode/` is vendored tooling and not part of the product.

### Inventory

| Component | State | Operations | Meets | What is hard | What makes it correct |
|---|---|---|---|---|---|
| Ride lifecycle (`RideService`, `Ride`, `RideMatchingService`, `CleanupStaleRidesJob`) | `rides.status`, `rides.driver_id`, `users.current_ride_id`, `is_online`, a cache key per rider | request, accept, en route, arrived, start, complete, cancel, no-show, expire, clean up | socket server, payments, deliveries and food (same `current_ride_id`) | status written from an old copy; the pointer of the driver written in its own statement; jobs beside requests; a worker that dies between two writes | one driver per ride for ever, a ride under way has one, pointers are true, a search ends, terminal statuses are final |
| Ride payments (`PaymentService`, `EscrowService`, `RefundService`, `PaymentController`, `Admin/RideController`) | `payments`, `disputes`, `wallets.pending_balance`, earnings | pay (wallet, cash, gateway), webhooks, release sweep, dispute, refund, hold and resolve | wallets, rides, gateways | all payments of a driver share one balance; lists overtaken by other requests; repeated and late webhooks | one active payment a ride, released once, refunded or released but not both, ledger and payments agree, drivers get paid |
| Socket dispatch (`handlers/ride.js`, `redis/redis.js`) | keys `pending`, `claim`, hash `ride:info` | book, accept, arrived, start, complete, cancel | backend API, both apps | a claim that expires under its accept; awaits between claim, hash and API; errors swallowed; a process that dies | the rider is told of the right driver, one claimer at a time, the hash lets the right driver act |
| Wallets and payouts (`WalletService`, `PayoutService`, `ProcessPayoutJob`, `Admin/WalletController`) | `wallets`, `wallet_transactions`, `driver_payouts`, queued jobs | credit, charge, withdraw, top up, webhook, batch, job, decide, retry, reconcile | escrow (earnings, `pending_balance`), gateways | jobs handed out again; decisions over old reads; two batches; a recomputed balance written late | a payout is debited once, paid outside or debited but not both, balance equals ledger, never negative |
| API client (`shared/src/api/client.ts`, `offlineQueue.ts`) | `_isOnline`, `queue`, `flushing`, the cache | request, retry, abort, queue, flush | backend, NetInfo, every screen | an aborted attempt may still be served; the flush runs inside an event of the network | a call settles once, its servings are bounded, a queued mutation is held once and sent |
| Session (`hooks/useAuth.tsx`, `AuthController`) | `_token`, the SecureStore, `AuthState`, the refresh timer, tokens of the backend | load, sign in, sign out, refresh, refusal | API client, every screen | a refresh overlaps with requests, with a sign-out and with a restart | who is signed in can go on; screen, client and storage agree; the splash screen ends |
| Socket hook and connections (`hooks/useSocket.ts`, `socket-server/src/index.js`, `middleware/auth.js`) | socket, queue and timer per screen; `connectedSockets` | mount, renew, emit, flush, reconnect, leave; handshake, evict, disconnect | every screen with a socket | both sides learn of a connection's end at different times; one entry per user, several sockets | no socket without a screen, the entry names a live socket, an event goes out once or never, links come back |
| Ride screens (`rider/.../RideTrackingScreen.tsx`, `driver/.../ActiveRideScreen.tsx`) | status and modal, phase and announcements | poll, hear, cancel; accept, press, leave | API client, socket hook, socket server | answers and events out of order, a phase shown ahead of the answer, rooms that the wrong socket joined | what is shown is, or becomes, what the ride is |
| Driver's dashboard, the other screens, packages for maps, links and theme | forms, lists, a trip in a store | - | API client, socket hook | the dashboard has a request card, a location watcher and food orders of its own | - |
| Settlement (`SettlementService`) | none that lasts | settle | wallets | fails half-way, see section 7 | all or nothing |
| Scheduled rides | `scheduled_rides` | schedule, cancel, publish | ride lifecycle | publication fails, see section 7 | a cancelled booking yields no ride, a booking at most one |
| Deliveries, food orders | own rows, `users.current_ride_id` | accept, move on, cancel | rides (same driver) | three services write one pointer | a driver has one job |
| Pool rides, promo codes, referrals | seats, usage counts | join, leave, redeem | rides, wallets | limits under concurrent use | limits hold |
| Fraud guard, fleet mode | strikes, suspension | cancellations, fines | rides, wallets | counters read before they are written | suspended drivers get no ride |
| Matching, locations, fares, surge, ratings, reports | positions, amounts, averages | compute | rides | rounding and clamps | bounds on the result |
| Other socket handlers, token cache, limits, filter of duplicates | presence keys, rooms | relay, join, leave | everything | keys that expire, limits per socket | messages reach members only |
| Ride state service, second payment stack, payment retry | - | - | - | never called or dispatched in production | - |
| KYC, safety, notifications, privacy, partner API, accounts | one row each | review, send, erase | users | little | - |
| Web sites, deployment | - | requests | API | - | - |

`PROJECT.json` lists the components with their sources and the hazards with the
lines at which they bite.

### How the parts interact

```
  rider's and driver's screens
     |  useAuth --token--> ApiClient (cache, offline queue) --REST--+
     |                        ^                  ^                  |
     |                     NetInfo           SecureStore            |
     +-- useSocket (one socket and one queue per screen)            |
             |  events                    rooms ^                   |
             v                                  | relayed broadcasts|
       socket server --REST--> RideService <----+-------------------+
             |                   |    ^
  Redis: pending, claim,   rides, users |
         ride:info                      +-- scheduler: expire-stale, CleanupStaleRidesJob

  pay, dispute --> PaymentController --> payments, disputes, wallets.pending_balance
                        ^                        ^
  gateway webhooks -----+     scheduler: release sweep
                                                 |
                              earnings -> wallets.balance, wallet_transactions
                                                 ^
  withdrawals, top-ups --> WalletService --------+---- PayoutService, ProcessPayoutJob
                                                       Admin/WalletController
```

## 2. Modules

| Module | Models | Kind |
|---|---|---|
| `RideStatuses` | status names and the backend's lists of them | definitions |
| `RideStatusMachine` | what the status table and acceptance promise of a ride | abstract specification |
| `RideLifecycle` | handlers, commands and jobs on rides and drivers | detailed specification; implements the former when handlers do not overlap |
| `RideEscrow` | payments of rides, the drivers' pending balance, disputes, refunds | specification |
| `SocketDispatch` | the events of one ride in the socket server | specification |
| `WalletPayouts` | wallets, top-ups, payouts, the payout job, reconciliation | specification |
| `ApiContract` | what a screen may rely on when it awaits a call | abstract specification |
| `ApiClient` | the API client and its offline queue | detailed specification; implements `ApiContract` |
| `AuthSession` | the session of a user: app, storage, backend's tokens | specification, on top of what `ApiContract` promises |
| `SocketLink` | what a screen may rely on when it emits | abstract specification |
| `SocketHook` | the hooks of one user's screens and the server's connections | detailed specification; implements `SocketLink` |
| `RideScreens` | a ride as its two screens see it, composed of screens, sockets, socket server and API | specification, on top of `RideStatuses` |
| `MC...` | constants and symmetry for TLC | instances |
| `...Proofs` | theorems | proofs |

The definitions whose comment begins "A bug:" are variants of the definition
below them with a mistake such code easily has. They belong to no next-state
relation; each property fails as soon as one of them takes the place of its
original, which is how we know the property depends on that piece of code.

### The unit of a step

A step is one access to shared state (a statement, a cache or Redis call, an
API call) with the computation in memory after it and up to the next access. A
transaction that begins by locking the rows it goes on to read and write is one
step, because no other handler sees its inside. A handler between two steps
keeps what it has read: in `req[w]` (rides, escrow) or `handler[h]` (sockets,
wallets). Several workers run such handlers at once, and a crash makes one
forget where it was and leaves the rows as they are. Status history, audit
rows, broadcasts, notifications and amounts of fares and fees are left out: no
modelled guard reads them.

### RideLifecycle

`status`, `rider` and `driver` are columns of `rides`; `currentRide` and
`online` of `users`; `createLock` is the cache key of a ride request; `aged`
holds the searches older than 60 s; `req` says what each worker is doing. A ride
that is "absent" has no row yet.

| Action | Code |
|---|---|
| `RequestRide`, `PutCreateLock`, `CheckNoActiveRide`, `InsertRide`, `ForgetCreateLock`, `CreateLockExpires` | `RideService::requestRide`, each access its own step |
| `RequestAccept`, `AcceptRide` | `acceptRide`: what the controller and the service read before the transaction; then the transaction that locks the ride |
| `RequestArrived`, `DriverEnRoute`, `DriverArrived`, `RequestStart`, `StartRide`, `RequestComplete`, `CompleteRide` | the driver's requests; `transitionTo` writes by id the status it found allowed in the copy bound at routing |
| `RequestCancel`, `CancelRide`, `RequestNoShow`, `MarkNoShow`, `FreeDriver` | cancellation and no-show; the driver is freed by a later statement |
| `ExpireStaleRides` | `rides:expire-stale`, one conditional update |
| `StartCleanup` ... `EndCleanup` | `CleanupStaleRidesJob`: lists, then one ride after the other from the list |
| `Crash`, `Age`, `ToggleOnline` | a worker dies; time passes; a driver goes on- or offline |

`waiting_for_rider`, `driver_assigned`, `near_drop_off` and
`cancellation_requested` occur in the tables of the code and are never written
by production code, so no row has them.

### RideEscrow

`pay[p]` is a row of `payments`, with the administrator's hold and the release
flag; `disputed` the payments with a row in `disputes`; `pending[d]` the
driver's `wallets.pending_balance`; `earnings`, `charges`, `refunds` count the
ledger rows of each ride; `old` holds the rides completed 24 h ago
(`HOLD_DURATION` and `DISPUTE_WINDOW` are both 24 h); `req[w]` is the `Task` of a
worker, with what it has read.
`RequestPay` with `HoldPayment`, `ProcessCashPayment` and
`ProcessGatewayPayment` are the three ways to pay; `ReceiveWebhook` with
`CompleteGatewayPayment` and `FailPayment` the webhooks; `StartSweep` and
`ReleasePayment` the sweep of `EscrowService::releaseCompletedRides`;
`RequestDispute`, `InsertDispute`, `HoldPendingFundsForDispute` a dispute;
`RequestRefund`, `ProcessRefund`, `ReverseDriverEscrow`, `CommitRefund` a refund,
a transaction of three steps because it reads and writes the driver's balance
without locking it, with its payment's row locked from the first to the last
(`Locking`, `Unlocked`); `FlagRide`, `RequestResolve`, `ResolveDispute`,
`MarkResolved`, `MarkRefunded` the administrator. `Requested` says which of
disputes, refunds and administrators a run includes. The unique index on
active payments is the guard of `Insert`.

### SocketDispatch

`row[r]` is what the backend knows of the ride: the API call is abstracted to
its effect on status and driver, and may always refuse an accept (the driver may
be suspended, busy or not approved). Accepting and completing are one step, under
the lock of the row; `ApiReads` is the check of the others, which write later by
what they read (`Serves`, `ApiAccepts`), as `Ride.php:183` does. The two statuses
of an arrival are one here. `isParticipant` reads the hash (`CheckParticipant`),
and, if it does not know the rider, the keys (`LookUpParticipant`); an error
between the `hset` of `updateRideInfo` and its `expire` leaves the hash written
(`UpdateHash` in `RedisThrows`). `pending`, `claim` and `info` are the Redis
keys; `handler[h]` an event between two awaits. `announced[r]` (history)
records whom the rider was told of, and `upset[r]` (history) what disturbed the
accepts of a ride: an expiry under an accept, a late claim, a claim overtaken by
a clean-up, a fault. `EndOverRest` is what the REST API and the jobs do to the
ride behind the socket server's back. `LoseRequest` and `LoseAnswer` are the
two halves of a failed call, `Crash` drops all handlers and may leave one call
served. A ride shares no key with another, so one is enough. Locations, rooms,
chat, the 10 s event filter and the 24 h expiry of `ride:info` are left out.

Late accepts are part of the model: the driver's app removes an offer when its
15 s are over (`RideRequestsScreen.tsx:39-48`), but an accept may wait in the
queue of the socket hook until the socket is back (`useSocket.ts:117`), and an
event may be delivered late.

### WalletPayouts

`balance[w]` and `ledger[w]` are `wallets.balance` and the sum of
`wallet_transactions` (without the pending top-ups); `pending[w]` is the
top-ups' part of `pending_balance`; `payout[p]` a row of `driver_payouts`;
`debits[p]` the debit rows that reference it; `job[p]` its queued job and the
attempts made. `Credit`, `Charge` stand for all callers of `credit` and `debit`;
`RequestWithdrawal` reads the balance before `Debit`'s transaction;
`InitiateTopUp`, `ReceiveTopUp`, `ConfirmTopUp` are deposits and their webhooks;
`ListWallet`, `CheckOpen`, `CreatePayout`, `DispatchPayout` a batch;
`RunPayout`, `PayoutThrows`, `WorkerDies`, `FailPayout` the job with its
attempts; `ReadPayout`, `WriteDecision`, `BulkApprove` the administrator;
`ReadBalance`, `SumLedger`, `CorrectBalance` the reconciliation. The histories
`raced`, `crowded`, `overtaken` and `decided` record overlaps, so that a
property can say exactly when it holds. No production code transfers between
wallets, so one wallet is enough. `processing` is written only inside the job's
transaction and is never seen by anyone else.

### ApiClient and ApiContract

`step[c]` is where the call `c` of a screen is awaited inside `request()`:
`Request` enters it, and `Route` decides by `_isOnline` whether it is sent, looked
up in the cache, queued or thrown back. `Receive` is an answer, good or bad;
`LoseAttempt` a `TypeError` or the abort after `API_TIMEOUT`, after which the
attempt is in `late[c]` and may be served at any time (`ServeLate`); `Retry` and
`RetryOffline` the timer of the retry, `Lookup` and `CopyExpires` the cache.
`NetInfo` is the listener of the network; going online it calls `Flush` before
`_isOnline` is assigned, exactly as `client.ts:24-26` does. The flush awaits its
items one after the other: `Settle` continues it. `served[c]` (history) counts
what the backend has done. `ApiContract` has only the outcome a screen sees and
`served`: a call is open, settles once, was served if a mutation was answered,
and is never served more than `1 + MAX_RETRIES` times.

### AuthSession

`token` is `ApiClient._token`, `stored` the SecureStore, `ui` the state of the
provider, `timer` the armed refresh, `task[k]` the five functions that may be
under way (`loadStoredAuth`, `login`, `logout`, the refresh, a request of some
screen), each with the call it awaits; `valid` the tokens the backend accepts.
`LoadStoredAuth`, `Login`, `Logout`, `Refresh`, `Fetch` are the first halves of
those functions; `Serve` the backend; `Receive` an answer with what the function
does next (`AfterLoad` ... `AfterFetch`), a 401 being `onUnauthorized`.
`LoseAttempt`, `ServeLate`, `Offline`, `Restart`, `Expire` are the failures; when
the last try is lost or there is no network, the call throws, or a GET is answered
with its cached copy (`Fail`). Each
attempt carries the token of its moment, which is why the retry of a refresh
that was served is refused. `refreshToken()` of `useAuth.tsx` (131-149) has no
caller and is left out.

### SocketHook and SocketLink

`hook[h]` is the hook of one mounted screen: `socketRef`, `isConnected`, the
reconnect timer, the queue, and whether the screen's listeners are on the current
socket. `sock[s]` is a connection with the state either side has it in and what
is written to it and not handled; `entry` the user's entry in
`connectedSockets`. `Mount`, `Renew`, `Unmount`, `Reconnect` are the effect of the
hook, its cleanup and the timer; `Opened`, `Lost`, `Refused` the callbacks;
`Emit` the emission, into the socket or the queue; `Handshake`, `Hear`, `Evict`,
`Notice`, `Restart` the server. `Refused` contains the dead end of an expired
token: `handleTokenExpired` disconnects a socket that is not connected, so neither
event nor timer follows. `SocketLink` has only whether each link is up, what
waits, what is on its way and what was heard: an event goes out once, is heard
once or never, and what waits goes with its screen.

### RideScreens

`row` is the ride on the backend with whether it is this driver's and whether it
was ever completed; `event[e]` the four events of the driver, queued by his hook,
sent, checked or half written by the API, served by it, or over;
`tracking`, `reads` and `cancel` the rider's screen with its reads under way;
`active` and `load` the driver's; `linked`, `room`, `inbox` the sockets of the two
screens, the members of the ride's room, and what was told and not yet heard. A
handler of the socket server is `Serve` (the API) and `Announce`
(rooms and broadcasts); handlers run side by side, so events may be served out
of order. The API takes an accept and a completion under the lock of the row, and
an arrival, a start and a cancellation in several steps: it looks at the row
(`Check`, `CheckCancel`) and writes by what it saw (`Write`, `ServeCancel`), so a
ride may be started after it was cancelled, or cancelled after it was completed.
The broadcast of an arrival or a start only makes the rider's screen load the
ride, as a poll does, and is not kept in `inbox`; the driver's screen listens to
`ride:started` too, on a socket to which it is never sent. `room`
has the member "requests" because the socket that joins is that
of `RideRequestsScreen`, not of the screen it opens. Both screens are composed
with the link of their hooks (`LinkUp`, `LinkDown`, `Emit`), not with the
detailed hook: `SocketLink` is what they use of it.

## 3. What is checked

Every passing run explores its instance to the end. Rows without a count stop at
the trace to the violation.

| Run | Instance | Distinct states | Properties | What it shows |
|---|---|---|---|---|
| `RideConcurrent` | 1 rider, 2 drivers, 2 rides, 2 workers, crashes, symmetry | 1,072,508 | `TypeOK`, `PointerBacked`, `DriverChosenOnce`, `DriverlessCancelIsFinal` | what holds of rides and drivers however handlers and jobs overlap or die |
| `RideSerial` | 2 riders, 1 driver, 2 rides, 1 worker, crashes, fairness | 87,056 | `OneActiveRidePerRider`, `OneActiveRidePerDriver`, `FollowsStatusMachine`, `SearchEnds` | what the guards guarantee while handlers do not overlap; the service implements the status machine; a search ends |
| `EscrowConcurrent` | 1 driver, 2 rides, 2 payments, 2 workers, wallet and gateway, disputes, refunds, administrator, symmetry | 819,624 | `TypeOK`, `OneActivePayment`, `LedgerMatchesPayments`, `RefundedNotReleased` | what the row locks and the unique index guarantee |
| `EscrowSerial` | the same with cash, payouts of 2 and 1, 1 worker, fairness | 197,564 | `PendingNonNegative`, `DisputeStopsRelease`, `EarningsArrive` | what holds without overlap; drivers are paid as long as nothing drains the escrow |
| `SocketClaims` | 1 ride, 2 drivers, 2 handlers, 4 events, 1 fault, symmetry | 1,047,305 | `TypeOK`, `AnnouncedIsTheDriver`, `OneClaimer`, `ParticipantAgrees` | who holds the claim, is announced and may act |
| `WalletsAndPayouts` | 1 wallet, 2 payouts, 1 top-up, 2 handlers, 5 events, 3 faults, amounts 1 and 2, 3 attempts, symmetry | 276,923 | `TypeOK`, `DebitedOnce`, `SettledOneWay`, `NeverOverdrawn`, `PendingIsUnconfirmed` | what is debited, how often, that nothing is taken that is not there, and that a deposit is confirmed once |
| `ApiClientCalls` | a read, two mutations with a body, one without; 3 calls, 1 retry, fairness | 118,710 | `TypeOK`, `QueuedOnce`, `ImplementsContract`, `SentSettles` | the client keeps its contract, queues a mutation once, and settles what it sent |
| `ApiClientOffline` | the same | - | `QueueIsFlushed` violated | the queue is flushed into a client that takes itself for offline |
| `AuthSessions` | 1 retry, 3 tokens, 1 fault, fairness | 154,652 | `TypeOK`, `SignedInLives`, `SessionAgrees`, `LoadingEnds` | what screen, client, storage and backend hold of a session |
| `SocketScreens` | 2 screens, 3 sockets, 1 event, 2 faults, fairness | 45,993 | `TypeOK`, `NoStraySocket`, `Reconnects`, `ImplementsLink` | sockets belong to screens, links come back, events go out once |
| `RideOnScreens` | 2 reads at a time, 1 fault, fairness | 459,339 | `TypeOK`, `ModalIsReal`, `PhaseIsReached`, `ViewSettles` | what the two screens of a ride show of it |
| `RideCancelUnheard` | 2 reads at a time, no fault | - | `CancelReachesDriver` violated | the driver's screen does not hear that the rider cancelled |

### Bounds, and why they are enough

- **Two of each.** The races of the backend are between two handlers, over one
  row or two rows of one driver. Two workers (handlers), two rides and two
  drivers are the least that show each of them; a third only repeats one. The
  theorems of section 5 cover any number.
- `Rides`, `Payments`, `Payouts`, `TopUps` bound the rows that may be created.
  Two payments let a failed or refunded one be followed by another and let two
  rides share a pending balance; two payouts let a second one be created beside
  the first.
- `MaxEvents` counts the requests, webhooks and scheduled starts received; it
  is 4 for the sockets (book, two accepts, a move) and 5 for the wallets
  (credit, batch, decision, retry, reconciliation). The wallets were also run
  once with 6 (2.8 M states, no error).
- `MaxFaults` counts exceptions, lost answers, dying processes, failures of the
  network, expired tokens, evictions and restarts. Three for the payouts let a
  job use up all `MaxTries = 3` attempts of `ProcessPayoutJob`; two for the
  sockets let a link break while it recovers; one for the session and the
  screens, where a second one only repeats the way to the error the first one
  shows. The theorems hold for any number.
- Payouts of 2 and 1 (`MixedPayout`) make the pending balance cover one payment
  and not the other, which equal payouts cannot.
- `MaxRetries` is 2 in the code and 1 in the runs: one retry has all transitions
  of a retry, and the last attempt differs from the one before it. `MaxCalls = 3`
  puts two items into the queue and a third call beside them.
- `MaxTokens = 3` is a token from an earlier session, its refresh, and one of a
  new sign-in or of a second refresh.
- `MaxSockets = 3` is one more than there are screens: a new socket exists while
  the server has not noticed the end of the old one.
- `MaxReads = 2` is two polls under way, the least whose answers can come out of
  order. `RideScreens` has one ride and one pair of screens; nothing in it is
  shared with another ride.
- Symmetry is used only in runs without liveness, over values no definition
  tells apart. `CHECK_DEADLOCK FALSE` is used only where a system legitimately
  rests: when the bounds are reached, everything is paid out, every call has
  settled, or the screens are left.

### Fairness

- `SearchEnds` assumes that the scheduler keeps running `rides:expire-stale`
  (`console.php:24`, every 30 s; the command is one conditional update, so it
  cannot be half done) and that time passes (`Age`). Nothing is assumed of web
  workers: they may hang for ever in the middle of an accept.
- `EarningsArrive` assumes that requests end (`Continue`), that time passes, and
  strong fairness for the sweep: `console.php:21` starts it every minute in a
  process of its own, so it is not kept out by requests that happen to be served
  whenever it could start. Its condition `OnlyCaptures` leaves out behaviours
  with a refund or a cash ride, because both drain the shared balance
  (section 6).
- `SentSettles` and `LoadingEnds` assume that `API_TIMEOUT` ends an attempt, that
  timers fire and that storage answers (and, in the session, that an answer that
  has come is handled and the app mounts). Nothing is assumed of the network
  or of the backend.
- `Reconnects` assumes that a handshake that is open is served, that both sides
  learn of the end of a connection, and that the reconnect timer fires. The
  fairness of the timer is strong only because of `MaxSockets`: the model has no
  free socket until the server notices the end of an old one. The property
  excludes the dead end of an expired token.
- `ViewSettles` assumes that the poll interval fires, that calls and handlers
  end, and that sockets reconnect (`Work` is all of the server's and the sockets'
  part at once: a ride gives it only so much to do). What people do is assumed in no way: a driver
  may never press a button, a rider may stay on the screen for ever.

### Reading the conditional properties

`OneClaimer`, `ParticipantAgrees`, `SettledOneWay` and `NeverOverdrawn` hold
except after an overlap the code does not guard against; so do `PhaseIsReached`
(unless events overtook each other or were dropped with a screen) and what
`SessionAgrees` says of the screen (unless the session began or ended while a
refresh was under way; of the client and the storage it speaks without
condition). The exception is exact: a history variable records the very
overlap (a claim that expired under its accept, a reconciliation that wrote over
a newer movement, ...), and each property holds in every state before it.
Section 6 says what happens in the exceptions. A hazard that is itself such an
exception is therefore caught by none of these properties, and `PROJECT.json`
lists it with a note instead of a property; so are the overlaps that one worker
leaves out of `RideSerial` and `EscrowSerial`.

## 4. Refinement

- `RideStatusMachine` has the status of each ride, and allows the transitions of
  `Ride::VALID_TRANSITIONS`, the creation of a searching ride, its acceptance
  (which `RideService` writes by hand) and the bulk expiry. It also has the
  driver, who is chosen at acceptance only. `FollowsStatusMachine` checks
  `Abstract!Spec` under the identity mapping of `status` and `driver` in
  `RideSerial`: with one worker, the service's own lists of statuses, the
  conditional updates of the expiry command and the job never leave the table.
  With two workers they do (section 6), which is the meaning of the stale write
  in `transitionTo`. Checked for one worker, and proved for any number whose
  requests are about different rides and users (`ServiceFollowsStatusMachine`).
  The other two models that keep a row of the ride, `SocketDispatch` and
  `RideScreens`, have the stale write and do not implement this table either.
- `ImplementsContract`: `ApiClient` implements `ApiContract`, mapping each place
  inside `request()` to "open". Checked, and proved for any calls and any
  `MAX_RETRIES`. `AuthSession` uses the client as the contract describes it:
  several attempts, and attempts given up that are served later.
- `ImplementsLink`: `SocketHook` implements `SocketLink`; a link is up while the
  hook says `isConnected`, and the events on their way are those on any wire.
  Checked, and proved for any number of screens, sockets and events.
  `RideScreens` uses the hook as `SocketLink` describes it.

## 5. What is proved

All theorems hold for any number of riders, drivers, rides, workers, handlers,
wallets, payouts, deposits, calls, screens, sockets and events, and any bounds,
under the assumptions of the modules alone (the "no one" values are not users;
reads and calls with a body are different calls; bounds are naturals; the set of
deposits is finite). None of the invariants below
is inductive; each proof names the one that is. Every safety property of a
passing run is proved.

Some promises of the backend hold only while certain requests do not overlap.
Their theorems have the form `Spec /\ []Apart => ...`, where `Apart` is a
predicate on what requests are under way together, and says nothing of crashes,
of the scheduler's updates, of time, or of requests about anything else, all of
which still fall between any two steps:

| Hypothesis | What must not overlap | Why the code needs it |
|---|---|---|
| `RequestsApart` | two requests or jobs about one ride, or of one user | the stale status of `Ride.php:182`, the cache lock of `RideService.php:62`, the unlocked look at `current_ride_id` (`:235`) |
| `PaysApart` | two pay requests for one ride | the look for an earlier payment comes before the transaction, and inside it only an active one is looked for |
| `RefundsApart` | a refund between its read of the driver's wallet and its commit, and another request about to take from the same wallet | `RefundService.php:83` reads without a lock and decrements by what it read |
| `DisputesApart` | the insertion of a dispute for a payment, and a sweep that has listed the payment and not reached it | `EscrowService.php:111` does not look at disputes under its lock |

One worker is the smallest case of each (`OneWorkerIsApart` in both modules),
and is what `RideSerial` and `EscrowSerial` explore; that the promises do break
in the overlap is in section 6.

**RideLifecycleProofs**: `TypeCorrect`, `RideAlwaysHasDriver`,
`PointerAlwaysBacked`, `DriverIsChosenOnce`, `DriverlessCancelStays`; under
`RequestsApart`, `RiderHasOneRide`, `DriverHasOneRide`,
`ServiceFollowsStatusMachine` and `ApartTerminalIsFinal`. `RideHasDriver` alone
fails for a state in which a request to start remembers a ride without a driver.
The invariant `IInv` adds `RequestsBacked` (a request in flight remembers a ride
that had a driver when it was read; acceptance made that permanent) and
`FreshRideHasNoDriver` (a ride that is absent or searching has none, so the
accept overwrites nobody). The two action properties follow from it step by
step. `SerialInv` is the invariant of the second group: the driver of a ride
under way points to it (`BusyDriverIsMarked`, the converse of `PointerBacked`),
and what each request checked when it read the rows still holds, but for
searching rides that have expired meanwhile (`RequestsFit`). A step changes only
the rides and the user of its own request (`Local`), so the other requests,
which are about others, still fit. It follows that the status read at route
binding is the one that is overwritten: the refinement, and that an ended ride
stays ended.

**RideEscrowProofs**: `TypeCorrect`, `PaymentsAreSingle`, `RefundStopsRelease`,
`ReleaseIsForGood`, `LedgerIsBacked`, `NobodyIsChargedTwice`,
`EscrowWithoutRefunds`; under `PaysApart`, `MoneyMovesOnce`; under
`RefundsApart`, `EscrowIsNotOverdrawn`; under `DisputesApart`,
`DisputesStopReleases`. `Types` adds that what requests remember are real rows; `Owned`
that a webhook works on a gateway payment and that an open refund transaction
keeps its payment completed and to itself; `Books` that the ledger counts the
released, refunded and charged payments of each ride. Every step is one of a few
kinds (`KindsOfSteps`): it rewrites the status of one row, inserts one, or
leaves them. `NobodyIsChargedTwice` counts: the charges of a ride are its captured wallet
payments, at most one row of a ride is outside the refunded (and failed) ones, so
each further charge has a refund. It cannot be `charges <= 1`: a second
pay request that looked before the first one committed may insert its payment
after the first was refunded, and `EscrowConcurrent` finds that trace.
`FirstPayment` excludes it under `PaysApart`: who pays has found no row, and no
ride has two. `Solvent` says that a refund about to commit takes no more than is
there; where nobody refunds, `RefundsApart` holds by itself.

**SocketDispatchProofs**: `TypeCorrect`, `OnlyTheDriverIsAnnounced`,
`ClaimExcludes`, `ClaimsAreHeld`, `ParticipantsAgree`, `OneDriverIsAnnounced`.
`Safe(hs, r, d, c, i, a, u)`
collects what holds of a ride in terms of its handlers and keys: whoever is
about to be announced is the driver; until it expires a claim is in the key and
has one holder; on an undisturbed ride accepts come one after the other and keep
row and hash in step. Most actions leave these arguments alone (`Unseen`); the
rest is one lemma per action of an accept, for the expiry and for the crash.
The row keeps its driver once it has one (`DriverStays`), whatever becomes of its
status, and only he is announced: so the rider is never told of a second driver.

**WalletPayoutsProofs**: `TypeCorrect`, `NoPayoutDebitedTwice`,
`CompletionNeedsDebit`, `DecisionExcludesDebit`, `PayoutsAreSingle`,
`LedgersAgree`, `NoWalletOverdrawn`, `DepositsConfirmedOnce`,
`UndisturbedStatusIsTrue`, `FinishedIsLeftAlone`. Five invariants,
`Types` and four that are each inductive beside it: `Types` (what a task in flight has read, and
that a queued job has an attempt left), `Booked` (balance equals ledger and is
not negative), `Sound` (how status, debits and decision of a payout fit
together; the debit makes it completed in the same transaction, and only an
overtaken payout leaves a decision), `Single` (one batch at most is about to
insert, then none is open), `Counted` (the pending balance is the number of
unconfirmed deposits). From `Sound` also follows the converse of
`CompletedIsDebited` for a payout nothing overtook: what its driver is shown is
what became of the money. That a finished payout is changed by administrators
only is a case analysis of the steps, with no invariant but the types.

**ApiClientProofs**: `TypeCorrect`, `QueueHoldsOnce`, `ContractHolds`,
`CallSettlesOnce`, `AnswersStand`, `QueuedIsNeverSent`, `FlushHangs`. `Counted`
relates the attempts given up and served to the retries made, without which
`served` has no bound; `Held` says that queue and flush hold queued calls only,
`Placed` that reads are looked up and calls with a body queued. A flushed call
starts with `tries` 0 and may be queued again: the bound holds because it was not
sent before. The last two theorems are the finding of `ApiClientOffline` for
every number of calls and any behaviour of the network: one lemma (`StepStays`)
shows that no step moves a queued call or the item a flush awaits.

**AuthSessionProofs**: `TypeCorrect`, `SignedInLivesOn`, `SessionStaysAgreed`,
`SessionEndsHaveCause`.
`Kinds` says which call each task awaits, `Starting` that nothing else happens
while the app loads, `Armed` that who is signed in has a timer, a refresh or a
sign-out under way, `HasToken` and `Issued` that tokens are issued ones, `Live`
that without a failure the token in the answer of a refresh is accepted and
nobody carries it yet (`Kept`). `Agreed` says how far a refresh may be ahead of
the screen. `RefusedForGood` says that a token refused once stays refused, since
the backend newly accepts only tokens it had not issued before; with `Live` it leaves
two ends of a session where nothing fails: the user signs out, or a call made
before the token was replaced is refused. The second is the row of
`OnlyLogoutEnds` in section 6, and the theorem says that there is no third.

**SocketHookProofs**: `TypeCorrect`, `SocketsAreOwned`, `EntryNamesLive`,
`LinkHolds`, `EventsAreHandledOnce`, `ConnectedScreensHear`,
`DeafScreensStayDeaf`. `Sound` says that the current socket of a hook and a socket that
lives on the client are each other's (`Paired`) and that what a hook says of its
socket is true (`Honest`); `Apart` that an event is on one wire or in one queue,
which the refinement needs where a socket opens and its queue goes out. That an
event which was heard is in no queue and on no wire (`HeardIsGone`) is shown of
the steps of `SocketLink`, which the refinement has made of the hook's. The last
two are the two sides of `ListenersResume` (section 6): it holds of the screens
whose effect depends on the connection, and of the others it fails for good.

**RideScreensProofs**: `TypeCorrect`, `CompletionIsReal`, `PhaseCatchesUp`.
For the second, every report of a completion under
way (`Reported`) is true, and a ride that was completed stays so whatever a late
cancellation makes of its status. For the third,
`InStep`: as long as nothing has failed, events are pressed in order
(`Ordered`), the row is where the events that ran have brought it (`RowIs`), the
phase is where the events pressed have brought it (`PhaseIs`), and the first
answer came before any of them (`LoadIs`).

`RideHasDriver`, `ClaimIsHeld`, `CompletedIsDebited`, `OneOpenPayout`,
`LedgerAgrees` and `EntryIsLive` are proved and not in a run's list;
neither are the properties that the proof modules state themselves (`MovedOnce`,
`StatusIsTrue`, `AnnouncedForGood`, ...). TLC agreed with each on an instance of
its component before it was proved.

### What is only model-checked

Liveness (`SearchEnds`, `EarningsArrive`, `SentSettles`, `LoadingEnds`,
`ViewSettles`, `Reconnects`): the provers used here have no rule for fairness, nor
for ENABLED. And that the hypotheses of the table above cannot be dropped, which
is a matter of counterexamples. What the sum of all charges or the number of
calls of a whole behaviour amounts to is not stated: it would take induction over
data, which the provers cannot use; the counters of the models
(`charges`, `served`, `debits`) are per ride, call and payout for that reason.

## 6. Where code and documentation differ

Two differences have a run with a trace:

- `ApiClientOffline`: `client.ts:24` flushes the queue before `_isOnline` is
  assigned (`:26`). The first item is requested by a client that takes itself for
  offline and goes back into the queue; the flush awaits it, `flushing` stays
  true, and nothing is flushed any more until the app is started again, when the
  queue, which is kept in memory, is gone.
  `Absolute/03-WORKFLOWS/RIDER-FLOWS.md:55` says that mutations are queued and
  flushed on reconnect.
- `RideCancelUnheard`: the rider's cancellation is relayed to the room of the ride
  (`laravel.js:98`), which the socket of `RideRequestsScreen` joined
  (`ride.js:229`) and the socket of `ActiveRideScreen` never does.
  `docs/flow/02-driver/driver-user-flow.md:245` says that the event raises an
  alert and takes the driver back.

More are stated in the modules and shown by adding the property to a
configuration:

| Property | Configuration | What happens |
|---|---|---|
| `TerminalIsFinal` | `RideConcurrent` | `Ride.php:182` writes a status computed from a copy, over a terminal one |
| `OneActiveRidePerRider` | `RideConcurrent` | `RideService.php:62` reads the cache before it writes it, and the look for an active ride takes no lock; a rider gets two rides |
| `OneActiveRidePerDriver` | `RideConcurrent` | `RideService.php:235` reads `current_ride_id` before the transaction, and the row of the user is not locked; a driver gets two rides |
| `DisputeStopsRelease` | `EscrowConcurrent` | `EscrowService.php:111` does not look at disputes under its lock |
| `PendingNonNegative` | `EscrowConcurrent` | `RefundService.php:83` decrements by what it read before the sweep took it |
| `CashIsNotReleased` | `EscrowSerial` | `EscrowService.php:168` releases cash payments as if they were in escrow |
| `InfoTracksDriver` | `SocketClaims` | `ride.js:212` clears a hash it does not own any more |
| `OnlyLogoutEnds` | `AuthSessions` | a request sent with the token a refresh replaces is refused, and the refusal signs the user out; `CHANGELOG.md` promises that the refresh prevents failures in mid-session (`SessionEndsHaveCause`: the only such case) |
| `ListenersResume` | `SocketScreens` | after a reconnection the listeners of `RideRequestsScreen.tsx:62-78`, whose effect depends on `on` alone, stay on the old socket; `realtime-communication-flow.md:141` says that listeners resume |

Others were met while modelling. The models contain the behaviour unless said
otherwise; the runs' properties are stated so as to be true beside it.

*Rides.* The lock against double requests is a read and a write of the cache
(`RideService.php:62`), so two requests of one rider may both pass. The cleanup
job never frees the driver of a ride it cancels (`CleanupStaleRidesJob.php:68`),
nor does any other step after a crash between the two writes of a cancellation.
No ride ever becomes a no-show: `markNoShow` (`RideService.php:781`) lets accepted,
arrived and waiting rides through, `VALID_TRANSITIONS` only waiting ones (and
assigned ones), and nothing writes those statuses.

*Payments.* A refund decrements the pending balance by what it read without a
lock (`RefundService.php:84`), so together with a sweep it may leave it
negative; and a refund takes up to the whole payout from the escrow of other
rides when its own was paid out before (`:83`), after which those drivers wait.
The list of the sweep (`EscrowService.php:169`) leaves disputed payments out and
not held ones, so the administrator's hold stops nothing. A failure webhook read
before the success may mark a captured payment failed
(`PaymentController.php:364`). Two disputes of one payment freeze its funds
twice (no unique key). Refunds of gateway payments always roll back:
`refundPayment` (`RefundService.php:93`) refuses a payment already marked
refunded.

*Sockets.* start, complete and cancel write the status in the hash before the
API is asked and never undo it (`ride.js:345`, `:411`, `:481`). No mobile
application emits `rider:book-ride`, so `ride:info` often lacks the rider, and
authorisation falls back to the 30 s claim. A repeated booking sets the status
back to pending while the driver stays. The refusal path deletes the claim
before it clears the hash (`:211`), so it can clear the next driver's entry.

*Payouts.* Two overlapping batches both pass `hasOpen` (`PayoutService.php:80`).
The administrator's decision is written over the status it read
(`Admin/WalletController.php:183`), so a payout may be paid outside after its job
debited it. `retryPayout` (`AdminController.php:354`) reopens a payout from any
status and dispatches no job; the open payout then blocks the driver's further
payouts. A batch that dies between insertion and dispatch, or a worker that dies
at the last attempt, leaves the same. The reconciliation writes a sum over
newer movements (`WalletService.php:543`). Abandoned top-ups stay pending.

*Session.* A user who signs out while a refresh is under way is signed out on
the screen, and the answer of the refresh then stores a live token
(`useAuth.tsx:64`), with which the next start of the app signs in again. A
refresh whose answer is lost is retried with the token it replaced and refused
(`client.ts:224`). A mutation that was aborted after `API_TIMEOUT` may be served
all the same, up to `1 + MAX_RETRIES` times, without an idempotency key.

*Socket hook.* A handshake refused because its token expired leaves the hook
without a link until the token changes (`useSocket.ts:124`). Queued events are
dropped without notice when their screen is left. The user's entry of
`connectedSockets` is deleted when any of his sockets closes (`index.js:159`),
also when another one is open, so it may be missing though it never names a
dead socket. The filter of duplicates passes `next` on as data
(`eventDedup`), and equal events within 5 s are dropped (`useSocket.ts:301`);
neither is modelled.

*Screens.* "Cancel Ride" on the driver's screen only goes back
(`ActiveRideScreen.tsx:243`; `driver-user-flow.md:230` says that it cancels). A
driver who accepts is sent to a screen whose first request may be refused with
403 because the accept has not been served yet; only "Retry" leads on. The
rider's screen joins with `join:ride:<id>` while the server handles `join:ride`,
so it hears of a ride through the rider's own room only. On the driver's
dashboard, which is not modelled, a new request replaces the trip under way
(`DashboardScreen.tsx:181`), a watcher of positions that is started (`:213`) may
never be stopped, and its `ride:cancel` (`:542`) lacks the other user and is
refused. No application emits `driver:toggle-online`.

## 7. What is not modelled, and why

- `SettlementService::settle` inserts columns `driver_payouts` does not have
  (`:85`) and no tenant, so its transaction always rolls back: there is no state
  to speak of.
- `DataRetentionService.php:93` clears `driver_id` of past rides on erasure, long
  after any handler of the ride; `RideLifecycle` leaves it out and
  `DriverChosenOnce` does not speak of it.
- Scheduled rides: `PublishScheduledRides` passes null for `surge_multiplier`,
  which the table does not allow, so no publication succeeds.
- Deliveries and food orders write `current_ride_id` too. `OneActiveRidePerRider`
  and `OneActiveRidePerDriver` are claims about rides requested and accepted
  through `RideService` only, and `PointerBacked` of pointers it sets.
- Jobs and services no production code reaches: `RideStateService` and its
  timeouts, the second payment stack, payment retry, `ReleaseEscrowJob`,
  `ProcessPaymentJob`, `deduct`, `transfer`, `confirmTopUpByUser`.
- External gateways: their webhooks are events that may come late, twice, or
  never.
- Of the mobile apps: the driver's dashboard, forms and lists (one call and what
  it shows), maps, deep links, themes, the administrator's app; in the hooks, what
  has no caller (`refreshToken()`, `useActiveRide`, `onTokenRefresh`).
- Pure output (notifications, reports, metrics), arithmetic on fares, positions,
  and the web sites, whose requests are the events of the models.
- Tooling that is vendored in `.opencode/` and belongs to no component.

## 8. What remains

In the order in which it would add most:

1. `DriverAssignment`: rides, deliveries and food orders that write one
   `current_ride_id`, with a theorem on what the pointer of a driver means.
2. `SocketDispatch` against `RideLifecycle`: its `row` as an abstraction of the
   detailed ride. So far the two agree on how a row is checked and written only by
   being translated from the same code.
3. Composition of `RideEscrow` and `WalletPayouts` over one wallet (earnings,
   pending balance shared by escrow and top-ups).
4. The driver's dashboard beside `RideScreens`: two sources of one trip.
5. Pool seats, promo and referral limits, strikes; clamp of the final fare and
   the cancellation fee as functions against a reference.
