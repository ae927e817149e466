# ChargeMate: TLA+ specification

A specification of the ChargeMate backend (`src/src/chargemate`): bookings of
charge points, their payment through Razorpay, cancellation and refunds, charging
sessions, and the maintenance jobs. Beside these, three parts that touch them little or
not at all: the locks of the transactions above, the station catalogue with its search
cache, and the login sessions with their refresh tokens, seen from the database and from
the browser. TLC checks all of it on small instances, and the TLA+ proof system proves
every safety property that holds there (each invariant, each action property and each
refinement) for every value of the constants.

Paths below are relative to `src/src/chargemate/` unless they say otherwise.

## 1. The system

A Flask API over one PostgreSQL database (READ COMMITTED), Redis for the station
search cache and the job queue, an RQ worker, Razorpay as payment provider, and a
React client. Handlers share nothing but the database. They interlock by `SELECT
... FOR UPDATE`, and detect stale clients by a `version` column. No handler keeps a
transaction open while it calls Razorpay: it writes, commits, calls, and records the
answer in a second transaction. What happens between the two is what this
specification is mostly about.

| Component | State | Operations | What makes it correct |
|---|---|---|---|
| Station catalogue (`stations/service.py`) | stations, charge points, versions | create, edit station, edit charge point, search | a point is not closed while a car charges; a station becomes active only with a bookable point |
| Booking holds (`bookings/service.py`) | `bookings` | create hold, list and get (both expire stale holds) | a point is promised once per moment; a hold ends; a version names one status |
| Payment attempts (`payments/service.py`) | `payments` | begin, finalize or compensate order, verify Checkout | one open attempt per booking, the booking waits exactly while one is open |
| Webhooks (`payments/webhooks.py`) | `payment_webhook_events` | three payment events, two refund events | repeated, late, reordered or foreign events do no harm; captured money is in use, on its way back or flagged |
| Cancellation (`bookings/cancellation.py`) | `refunds` | cancel, refund call, record answer or failure | payment, refund and booking agree with each other and with Razorpay |
| Maintenance (`maintenance/`) | none of its own | expire holds, reconcile refunds | stale holds and pending refunds come to an end |
| Charging sessions (`charging_sessions/service.py`) | `charging_sessions` | start, complete | one session per point; session and booking at the same stage |
| Authentication (`auth/`) | `auth_sessions`, `users` | register, login, refresh, logout, change password | a token is exchanged once; a family that is over stays over; a password change ends the sessions there are; lockout counts failures |
| Station cache (`stations/cache.py`) | Redis keys and a version | read, store, invalidate | an edit is seen by searches that begin after it was announced; what is outdated vanishes |
| Rate limit (`security/`) | Redis counters | count a request | no more than the limit in a window |
| Client (`src/frontend/src`) | access token, refresh under way, panels | call, refresh, login, logout, reload; search, checkout, cancel | calls that fail together share one refresh; every call ends; the shown answer is that of the last question |

The components meet in the database. A payment failure webhook releases a booking
that the expiry job, the owner's list request, another customer's hold or a
cancellation may be about to change; a refund row is written by the cancellation
handler, by webhooks and by the reconciliation job; the charge point row connects
holds, sessions and operators' edits.

### What is hard

- **Interleaving across an external call.** A booking can be cancelled while its
  order is being made; a refund can be settled by a webhook while the handler waits
  for the answer that says "pending".
- **Webhooks**: at least once, in any order, possibly never, and about charges and
  refunds the application does not know of (a late capture of a failed charge, a
  refund made after the request timed out, a refund made by staff).
- **Crashes** between the two transactions. There is no record of an unfinished
  handler other than a row left in `INITIATED` or `REQUESTED`.
- **Stale clocks**: handlers read the clock before they wait for a lock.
- **Statements**: transactions lock several rows, in orders that differ; an `UPDATE`
  chooses its rows when it begins, waits for them, and does not see the row inserted
  while it waits.
- **Caches and pages**: a search stores what it read before an edit; Redis forgets; a
  page acts on an answer that comes after the next request, or never.
- **Time**: holds run out at any point of the payment, and three handlers, two
  requests and a job may be the one that notices.

`PROJECT.json` lists the hazards with their lines and the properties that cover
each of them.

## 2. Modules

| Module | Models | Main definitions |
|---|---|---|
| `Stations` | which stations and points accept bookings | `UpdateStation`, `UpdateChargePoint` |
| `BookingHolds` | bookings, holds, expiry, the clock | `CreateHold`, `ReadBookings`, `ExpireBatch` |
| `Payments` | attempts, Checkout, payment webhooks, Razorpay's charges | `BeginPaymentAttempt`, `FinalizeOrder`, `AbandonOrder`, `CompensateOrderFailure`, `VerifyCheckout`, `Apply...` |
| `Cancellations` | refunds, refund webhooks, reconciliation, Razorpay's refunds | `CancelUnpaid`, `CancelConfirmed`, `FinalizeRefund`, `RecordRefundFailure`, `FetchRefund`, `ApplyFetchedRefund` |
| `ChargingSessions` | use of a charge point | `StartSession`, `CompleteSession` |
| `ChargeMate` | all of them together | `Next`, `Spec`, `FairSpec`, every property |
| `SlotReservation` | abstract: what the backend promises about slots | `Reserve`, `Pay`, `Use`, `Finish`, `Release` |
| `PaymentLedger` | abstract: what a booking and the money paid for it say together | `Ask`, `Fail`, `Take`, `CancelPaid`, `Refuse`, `Return` |
| `PaymentLedger_proofs` | theorems and proofs about any ledger | |
| `MCChargeMate` | the scenarios TLC runs | |
| `ChargeMate_proofs`, `PaidBookings_proofs` | theorems and proofs about `ChargeMate` | |
| `RowLocks` | the same handlers and jobs, by statement and row lock | `LockNext`, `StartUpdate`, `VisitRow`, `SelectBatch`, `CheckOverlap`, `CommitHold`, `CommitWrites`, `GiveUp` |
| `RowLocks_proofs` | theorems and proofs | |
| `StationEdits` | creating and editing the catalogue, by row lock | `FillIn`, `PrepareStation`, `LockStation`, `PreparePoint`, `CommitEdit` |
| `StationSearch` | the public search and its cache, beside these edits | `ReadVersion`, `Hit`, `QueryStations`, `LoadPoints`, `Store`, `Invalidate`, `Expire`, `RestartRedis` |
| `StationSearch_proofs` | theorems and proofs | |
| `AuthSessions` | login sessions, at the grain of SQL statements and locks | `Authenticate`, `Login`, `StartRotation`, `FinishRotation`, `DetectReuse`, `Logout`, `LogoutAll`, `ChangePassword`, `VisitRow`, `CommitRevocation`, `RollBack` |
| `AuthSessions_proofs` | theorems and proofs | |
| `TokenFamilies` | abstract: what login sessions promise | `Begin`, `Renew`, `End` |
| `BrowserLogin` | the pages of a browser that stay logged in | `StartCall`, `ServeCall`, `ServeLate`, `AwaitRefresh`, `Rotate`, `RefuseRefresh`, `ReceiveTokens`, `LoseRefresh`, `ServeStray`, `Reload`, `Expire` |
| `BrowserLogin_proofs` | theorems and proofs | |
| `MCRowLocks`, `MCStationSearch`, `MCBrowserLogin` | the instances TLC runs | |

`Stations <- BookingHolds <- Payments <- Cancellations` and `BookingHolds <-
ChargingSessions` extend each other in that order; `ChargeMate` extends the last of
both and composes their actions. Each component's module declares its variables, its
type invariant, its initial state and one action per transaction of its handlers;
`ChargeMate` adds what an action leaves unchanged in the other components.
`StationEdits` extends `Stations` and implements its actions; `StationSearch` extends
`StationEdits`. `RowLocks` and `ChargeMate` are two views of the same handlers and share
the abstract `SlotReservation` and `PaymentLedger`; `AuthSessions` and `BrowserLogin` are two views of the same
sessions and share `TokenFamilies`.

### How the state corresponds to the code

- A member of `Bookings` is one request for a hold; its point and interval are
  constants. `bookingStatus`, `bookingVersion` and `holdExpiresAt` are columns. A
  status of `"absent"` means that no row exists.
- A member of `Attempts` is an idempotency key. `paymentStatus`, `chargeOf` and
  `lastError` are the columns `status`, `provider_payment_id`, `last_error_code`.
- A refund row is named by its payment (`refunds.payment_id` is unique).
  `refundCreated` is the rank of its `created_at`. Its `last_error_code` is left out:
  nothing in the code reads it.
- `refundCall` and `fetched` are local variables of a handler and of the job that
  live across a call to Razorpay. An order call has no variable: an `"initiated"`
  attempt is one whose handler is waiting.
- `sent` and `madeRefunds` are Razorpay's. A webhook is a record of its type and its
  charge or refund; `seen` is the `payment_webhook_events` table.
- `stationOpen` and `pointOpen` start with any values: operators have set the catalogue
  up before, and only edit it here. No booking, payment or refund exists at the start.
- `now` is the clock. A handler acts on a moment of `Readings`, up to `MaxLag` old.
- A charge or refund in `Mispriced` has another amount or currency than the row.

### What one step is

One transaction. Every transaction of the modelled handlers locks the rows it decides
on before it reads them, so two transactions on the same rows follow each other, and
a transaction that raises is rolled back and changes nothing. A request that is
refused is not a step. That this is right is what `RowLocks` and `StationEdits` check.

Handlers with an external call are split there. A crash is a handler that takes no
further step; no action is forced, except where section 4 says so.

Razorpay is modelled from how the code uses it: a charge is authorized before it is
captured, an order has one successful charge, a charge that failed may still be
authorized later, and it can be refunded in full once, or again after that refund failed.

Definitions commented `Fault:` are the code with one plausible mistake. No
specification uses them. Each stands before the operator it would replace, and
`PROJECT.json` says which property finds it out.

### Login sessions

`AuthSessions` stands alone: the rest of the backend asks of it only whether the bearer
of a token may go on. A login is two transactions, of which the first (`Authenticate`) reads
the password and the second inserts the session. It is finer than the other modules, because here what matters
happens between the statements of concurrent transactions. `rowLock` and `userLock`
are PostgreSQL's `FOR UPDATE` locks. `pending` is what the `UPDATE` of a revocation has
still to visit: the rows it saw when it began (READ COMMITTED). The key-share lock that
the foreign key `auth_sessions.user_id` takes on the user
(`src/migrations/versions/49f82644800a_create_auth_sessions_table.py:34`) is the guard
of `InsertSession`; it is held to the commit, which follows without further waiting and
is the same step. A session is named by the request that inserts it, a family by its
first session. All sessions belong to one user, since no statement touches those of two.

### Row locks

`RowLocks` opens the transactions up: a worker begins an operation and reads the clock,
locks its rows one after the other (`Plan` has the order of the code, `Continues` what it
must find to go on), and applies its writes when it commits; it may give up at any point.
`lockedBy` is the lock table. What is read without a lock is a step of its own: the rows
that an `UPDATE ... WHERE status = 'held'` sees when it begins (`StartUpdate`), which it
then visits one by one and looks at again (`Expires`), the unlocked search for overlapping
bookings (`CheckOverlap`), and the batch of the job that skips locked rows
(`SelectBatch`). In return the data are coarser than in `ChargeMate`: all bookings are of one charge point
and belong to one user, `Conflicts` says whose slots overlap, each has at most one attempt, versions are left out,
and Razorpay is what may be reported of a payment (`MayBegin`). The exclusion constraint
of `src/migrations/versions/c2b1ba3c8886_create_bookings_table.py:50` is left out on
purpose: the slots are safe without it. Also left out are key-share locks of foreign keys,
waits for unique indexes, and the order in which PostgreSQL serves those who wait.

### Catalogue edits and searches

A member of `Edits` is a request of an operator. `form` is what the operator filled in:
the row, the effect (open, close, or something else), the version it was shown, and, for
`NoEditIsLost`, whether it was open then. Requests lock, check and commit in separate
steps beside sessions that start and end. A row does not exist while its `rowVersion` is 0.

A search is a sequence of steps of one member of `Searches`: it reads the cache's version,
then the entry, then the stations, then their points, then stores. An answer is
represented by the versions of the rows it was made from (`found`), so "older" means just
that. `entries` holds the cached answers to one question, one for each version in a key.
An invalidation may fail, an operator's request may die before it, Redis may fail at any
call, drop an entry when its time is over, and restart empty once.

### The browser

`BrowserLogin` takes the backend's requests for one step each and is detailed about the
pages instead: `call` is a `requestJson` on its way (sent, answered, waiting for a refresh,
retried), `refresh` the `refreshPromise` of a page with the token it sent or will receive,
`access` its access token. All tabs share `cookie`; it is sent as it is when a request is
sent and changes when an answer arrives.

`age` says which tokens of a session have expired: none, the access token, or both. A
refresh with an expired token revokes its session and is refused
(`auth/service.py:188`); one with a token that was exchanged before ends the family.
A token of a revoked session is refused whatever its age.

A connection may fail at any time, and a page may be reloaded at any time. The request is
then answered to nobody, but it may still be served, before or after what the page sends
next: a refresh is kept in `stray` until it is served (`ServeStray`), another call in state
`"lost"` (`ServeLate`). Of refreshes with the same token, one is kept. A read that nobody
waits for is dropped. An answer may also break off after its headers, so that the cookie
is set and the page knows nothing of it (`BreakOff`, `LoseRefresh`).

`unlucky` is a history variable: a refresh under way has lost its connection or its page,
or two tabs have refreshed at once.

## 3. Properties and runs

Runs `tokens` and `reuse_race` use module `AuthSessions`, `station_search`, `row_locks`
and `browser_login` the module `MC...` of that name, the others `MCChargeMate`. Deadlock is
not checked: requests, charges, edits, calls and the clock are bounded, so a run ends when
they are used up.

| Run | Instance | Properties |
|---|---|---|
| `settlement` | 1 booking, 2 attempts, 2 charges, 1 refund, clock 0..3, lag 1; station and point are edited | `TypeOK`, `AttemptsFollowBooking`, `LoneCaptureIsAccountedFor`, `RefundsAgree`, `VersionIdentifiesStatus`, `KeepsLedger` |
| `refunds` | 1 attempt, 3 charges (1 mispriced), 3 refunds of one charge (1 partial) | `ConfirmedIsPaid`, `RefundsAgree`, `ReportedCapturesLeaveATrace`, `NothingIsUndone` |
| `slots` | 3 bookings of a point, 1 within another and 1 right after both, 2 of them paid and used; lag 1, batch 1 | `NoDoubleBooking`, `SessionsAgree`, `ReservesSlots`, `StaleHoldsExpire` |
| `jobs` | 2 bookings with a refund each, batch 1 | `PendingRefundsSettle` |
| `double_capture` | as `settlement`, without lag | `CaptureIsAccountedFor` (violated) |
| `abandoned_checkout` | 1 booking, 1 attempt, no charge | `AbandonedCheckoutsEnd` (violated) |
| `stranded_refund` | 1 booking, attempt, charge and refund | `RequestedRefundsSettle` (violated) |
| `tokens` | 4 requests of one user | `TypeOK`, `OneLiveGeneration`, `KeepsFamilies`, `PasswordChangeEndsSessions`, `TransactionsEnd` |
| `reuse_race` | 4 requests | `ReuseEndsFamily` (violated) |
| `station_search` | 1 station, 1 point, 2 edits, 1 search after another | `TypeOK`, `SearchesSeePublishedEdits`, `EditsAreAtomic`, `NoEditIsLost`, `OutdatedAnswersVanish` |
| `row_locks` | 3 workers (symmetric), 2 rival bookings, 1 paid | `TypeOK`, `AttemptsFollowBooking`, `RefundsAgree`, `PaymentsAreNotDeadlocked`, `ReservesSlots`, `KeepsLedger` |
| `browser_login` | 2 tabs, 3 sessions; a login, a read, a logout or password change | `TypeOK`, `KeepsFamilies`, `LoginsSurvive`, `CallsEnd` |

**Slots.** `NoDoubleBooking` is stated over moments of a slot, not over the interval
test of the code. `ReservesSlots` says that the backend implements
`SlotReservation`: a slot is granted to one booking at a time, used only after
payment, and a slot given back is not used. The mapping takes both `held` and
`payment_pending` to "reserved", so that a failed payment returning a booking to its
hold is a stutter and expiry, whoever does it, a release. `StaleHoldsExpire` says that the
expiry job, which takes one hold at a time here, leaves none for ever, although new ones
run out meanwhile.

**Money.** `AttemptsFollowBooking` says that a booking waits for payment exactly
while one attempt is open, and never more than one: it is what makes the release of a
booking by a failing attempt safe, and it needs the deduplication of webhooks: a
second delivery of an old failure would release the booking under the attempt that
followed. `ConfirmedIsPaid` ties the booking to Razorpay's own record of a capture of
the right amount. `RefundsAgree` relates booking, payment, refund and Razorpay.
`LoneCaptureIsAccountedFor` says that if one attempt of a booking brings in money,
the money is in use, being given back or flagged. `ReportedCapturesLeaveATrace` is about
the events that are taken and then ignored (a second charge of an order, a wrong amount):
whatever a capture event said, the attempt is recorded as paid or carries an error code
for staff, for good.

`KeepsLedger` says that the backend implements `PaymentLedger`, in which a booking has a
stage and an attempt has money that is asked for, failed, taken, owed, refused or returned.
An abstract step moves what belongs together at once: a booking waits from the moment
its attempt is asked for money, leaves the waiting when that attempt fails or brings in
money, and is cancelled in the step in which its money becomes owed. Money is taken
once and is owed only after it was taken. The mapping reads the stage off the booking's
status, the money off the statuses of payment and refund (`HasRefund` and a captured
payment: owed, or refused while the last refund failed). A second delivery of an
old failure, which releases a booking that waits for another attempt, has no abstract step.

**Login sessions.** `KeepsFamilies` says that the sessions implement `TokenFamilies`: a
login starts a family, one generation of its token holds it at a time, only the holder
hands it on, and once over it stays over. `OneLiveGeneration` is what makes the mapping
("the live session of the family") meaningful. `PasswordChangeEndsSessions` is about the
moment a password change commits: no session is live, and no rotation is under way that
could still replace one. It holds for a reason that no single line states: the
change locks the user's row before its `UPDATE` begins, and every insert of a session
needs that row. It does not say that whoever is logged in later knew the new password: a
login between `authenticate_user`, which read the old one, and `create_auth_session`
inserts its session as soon as the change has committed. A rotation that already holds a session then waits for the change, which
waits for the session; the database ends one of them, and `TransactionsEnd` says that
nobody is left waiting.

**Locks.** `row_locks` justifies the grain of `ChargeMate`. `ReservesSlots` and `KeepsLedger`
are the same properties, here with every statement a step of its own: what a commit does to
slots, or to the rows of booking, payment and refund, is one step of the same abstract
specification that the atomic steps of `ChargeMate` implement. `AttemptsFollowBooking` would break
if an expiry that waited for a booking did not look at it again; `RefundsAgree`, if the
handlers that lock refund and payment in opposite orders did not check the refund's status
under their locks. `PaymentsAreNotDeadlocked` looks at every ring of transactions that wait
for each other, and lists who may be in one. Holds, list requests, edits of a point and
starts and ends of sessions may: a hold locks the point before the station, an edit the station
before the point. So may the four handlers of refunds. The database then ends one of them,
and they may be repeated, except a cancellation that loses while it records Razorpay's
answer, whose refund stays `requested` as in `stranded_refund`. A capture
webhook and a cancellation lock payment and booking in opposite orders too, but a
cancellation goes on to the payment only for a confirmed booking, when the capture is over;
that only one delivery of an event is applied is needed for it. The end of a session is in
the list for a ring of three transactions that the instance of the run, whose bookings share
one slot, does not have: it waits for the point, a hold of the point waits for a stale booking
of another slot, and the owner's list request has that booking and waits for the one in use,
which it saw as a stale hold when its `UPDATE` began. It came to light in the proof.

**Catalogue.** `EditsAreAtomic` says that the locked, many-step edits implement the actions
`UpdateStation` and `UpdateChargePoint` that `ChargeMate` relies on: no station is activated
on the strength of a point that is being closed, no point is closed while a session is being
started. `NoEditIsLost` is what the versions are for. `SearchesSeePublishedEdits` says what
the cache's version is for: it is read before the rows are, so that an answer from before
an edit is never stored under the key of after it. It holds while Redis keeps its memory.
For the time after that, and after an invalidation that failed,
`OutdatedAnswersVanish` says that the lifetime of entries cleans up.

**Pages.** `KeepsFamilies` is the promise of `AuthSessions`, shared by this coarser
view of the backend. `LoginsSurvive` says that a live session is replaced by the
next one of its family, or ends by a request of its user, or has expired: since a refresh
token that is presented twice ends its family, all calls of a page that find their access
token expired must share one refresh (`refreshPromise`). Nothing is claimed any more once a
refresh has lost its connection or its page, or two tabs have refreshed at once. Then the
new tokens may be lost, or a refresh may be served after the one that followed it, with
the same token: a quick second reload can log a user out.
`CallsEnd` says that no call waits for a refresh that is over, and none retries for ever.
`BrowserLogin` also has three behaviours of which the code promises nothing: a logout is not
retried after a 401, so that with an expired access token the page shows nobody logged in
while session and cookie live on (`api/auth.ts:53`); a refresh that was under way at a
logout may give the anonymous page an access token again (`api/client.ts:54`); and a 401 that
arrives after a refresh has finished starts another, which revokes the session that a retry
under way carries, so that the retry fails (`api/client.ts:85`).

**What the four violated runs show.**

- `double_capture`: attempt A fails, attempt B is begun, A's charge is captured late
  and confirms the booking, B's charge is captured. The booking is confirmed, so B's
  attempt is not flagged (`payments/webhooks.py:210`). A cancellation refunds one
  captured payment (`bookings/cancellation.py:128-137`); the other keeps its money
  with no refund and no error. `LoneCaptureIsAccountedFor`, which passes, shows that
  two captures of one booking are the only way to get there.
- `abandoned_checkout`: nothing ends `payment_pending` but a webhook or the owner. The
  job that is said to expire "abandoned unpaid booking holds" takes `held` rows only
  (`maintenance/service.py:41`).
- `stranded_refund`: the reconciliation job takes `pending` rows only
  (`maintenance/service.py:111`), so a row that its handler left `requested` stays so.
- `reuse_race`: a second rotation of a family is under way when the first token comes
  back. The `UPDATE` of `_revoke_token_family` waits for the session being rotated, finds
  it revoked, and never sees its replacement, which stays live. `revoke_all_auth_sessions`
  has the same shape. `KeepsFamilies` and `PasswordChangeEndsSessions`, which pass, bound
  what may be left: one live generation, and no old one when a password change commits.

### Bounds, and why they are enough

`MaxTime` (last clock value), `MaxVersion` (largest version a client quotes) and
`Managed` (what operators edit) are the bounds. Slots lie at 1 to 5 and holds last 1
or 2, so that within the clock a hold runs out, may be paid before and after it did,
and, in `slots`, every slot begins and the first ends. A booking's longest life
(hold, pay, fail, pay, confirm, cancel) is seven versions, fewer where there is one
attempt. Two attempts are enough for a failure of one to meet the success of the
other; three charges, for an ignored one between two that matter; three refunds, for
a failed one, its successor and a partial one. `jobs` stops the clock, which is
irrelevant to refunds. In `slots`, two of the three bookings can be paid and used, one
right after the other, so that the first may overrun into the slot of the second; clocks
lag by one in `settlement` and `slots`, and the proof of `NoDoubleBooking` covers any lag. The
expiry job takes one hold at a time in `slots`, where two may be stale at once. Symmetry is
not used there: bookings, attempts, charges and refunds differ by their constant functions.

Four requests of `AuthSessions` allow a login, a rotation and two more transactions at
once; the proofs cover any number. In `row_locks`, two bookings are enough for rivals and
for an `UPDATE` that waits for one row while it has locked another; three workers, for a
ring of three, and for two that race while a third holds what they wait for. All bookings of the run are for the same slot; the proofs cover
any overlaps. `Priced`
limits payments to one of the bookings: payments and refunds of different bookings share no
row. Workers differ by name only, and no liveness is checked, so symmetry is sound. In
`station_search`, two edits can work on the same row or on a point and its station, one
of them before, one during a search; `Searches` has one member that serves one search after
another, and the cache carries what one leaves to the next. The theorems cover any number
of both. In `browser_login`, one tab makes three calls (`Kinds`): a login; a read; and a logout
or a password change, of which the latter may share a refresh with the read and with the
page's own call. A logout from all devices is like a logout to the page, and like a password
change to the backend. The other tab is
reloaded, so that the two race; three sessions allow a login and two rotations. When all
are used up no more rotations are served, and requests for them fail. The proofs cover any calls
of any tabs.

## 4. Fairness

Nothing is assumed of customers, operators, request handlers and webhooks: each may
stop or be lost at any time. `FairSpec` assumes:

- the two jobs run again and again (`src/README.md:116`: "a scheduler or cron service
  should invoke this command at the desired interval"; `maintenance/cli.py:18` enqueues
  both), and the first takes some batch while there is a stale hold: no handler keeps a row
  locked for ever (`skip_locked`). Nothing is assumed of which holds are in the batch:
  each batch expires what it takes, so that the rest shrinks;
- each refund in the oldest batch is asked about, and its answer applied
  (`maintenance/service.py:85` goes through the whole batch);
- Razorpay settles a refund it made. Were a whole batch of old refunds to stay pending at
  Razorpay, the younger would not be asked about.

Under these, `StaleHoldsExpire` and `PendingRefundsSettle` hold, the latter with
every webhook lost.

For `AuthSessions`, `FairSpec` assumes that a transaction that can go on does, and that
the database ends one of those that wait for each other in a ring (PostgreSQL's deadlock
detection). `RollBack` itself, a failure or crash at any point, is not assumed to happen.

In `StationSearch`, `FairSpec` assumes of Redis that an entry whose lifetime (`setex`) is
over goes away, whichever version it has. Nothing is assumed of searches and edits.

In `BrowserLogin`, a call that was sent is served or fails, and its answer is processed,
one day; so with the refresh of a page. `CallStep` and `RefreshStep` include the loss of
either, as a browser reports it to `fetch`; that any given request succeeds is not assumed.
No fairness is assumed of reloads, of new calls, of the expiry of tokens, or of requests
nobody waits for, which may be served late or never.

## 5. Proofs

`ChargeMate_proofs` proves, for all values of the constants that satisfy the named
assumptions (`SiteAssumption`, `BookingAssumption`, `PaymentAssumption`,
`RefundAssumption`, `SessionAssumption`, `VersionAssumption`):

| Theorem | Says |
|---|---|
| `TypeCorrect` | `Spec => []TypeOK` |
| `ChargePointsAreNotDoubleBooked` | `Spec => []NoDoubleBooking` |
| `VersionsIdentifyStatus` | `Spec => VersionIdentifiesStatus` |
| `SessionsAgreeWithBookings` | `Spec => []SessionsAgree` |
| `NothingSettledIsUndone` | `Spec => NothingIsUndone` |
| `RefundsAreTruthful` | `Spec => []RefundsAgree` |
| `SlotsAreReserved` | `Spec => ReservesSlots`, the refinement of `SlotReservation` |
| `CapturesLeaveATrace` | `Spec => []ReportedCapturesLeaveATrace` |

The assumptions say only that the constant functions have their domains and ranges,
that a slot ends after it starts (`ends_at > starts_at` is a check constraint), that
the set of attempts is finite (`refundCreated` counts them), and that the values
standing for NULL are no ids.

*Argument.* Type correctness has one lemma per component. For the rest, the lemma
`StepsMoveBookings` reduces the 34 actions to four things that can happen to the
bookings: nothing; one booking makes a move listed in `PaymentMove` or `SessionMove`;
some held bookings expire; a hold is created. `NoDoubleBooking` is then inductive
given the types: a move never makes a booking blocking that was not, an expiry never
does, and `CreatedHoldIsAlone` handles the last case, with `ConflictIsOverlap`
linking shared moments to the code's interval test. Versions need one strengthening,
`AbsentUnversioned` (no row, no version), because `CreateHold` sets the version to 1
rather than adding 1. `SessionsAgree` is inductive because no payment, cancellation
or expiry touches an active or completed booking (`OtherStepsKeepUse`). The
refinement takes the same four cases to `Pay`/`Use`/`Finish`/`Release` or a stutter,
`Release`, and `Reserve`.

`NothingIsUndone` needs one invariant besides the types, `UnansweredHasNoId`: a
refund row that is absent or `requested` carries no Razorpay id, so that
`FinalizeRefund` overwrites none. `RefundsAgree` says only where a refund ends; it is
inductive as part of `RefundsInv`, which adds to every attempt (`RefundTrail`) what is
known on the way there: the answer a cancellation handler waits for, and the id in the
row, name a refund that Razorpay made in full for this very charge; what the
reconciliation job was told was true when it was told, and stays true; and
(`RefundEventsAreReal`) Razorpay reports only refunds it made. A step that leaves the
refund alone keeps the trail by `TrailSurvives`, which uses the invariance of
bookings and charges proved for `NothingIsUndone`; the other steps have a lemma each.
`CapturesLeaveATrace` joins three facts about a step: recorded money is kept
(`MoneyIsKept`, from `NothingIsUndone`), a flag stays (`FlagsAreKept`), and a capture event
that is newly taken records money or sets a flag (`NewsLeaveATrace`).

`AuthSessions_proofs` proves, under `RequestAssumption` (the value standing for "no lock"
is no request):

| Theorem | Says |
|---|---|
| `TokenTypes` | `Spec => []TypeOK` |
| `PasswordChangesEndSessions` | `Spec => PasswordChangeEndsSessions` |
| `TokensAreExchangedOnce` | `Spec => []OneLiveGeneration` |
| `SessionsKeepFamilies` | `Spec => KeepsFamilies`, the refinement of `TokenFamilies` |

*Argument.* `LocksInv` says what holds between statements: a rotation holds the lock of a
live session (`RotatesLive`); a password change holds the user, and every live session is
one it has locked or has still to visit (`ChangeCoversLive`); only sessions that exist
are locked or logged out (`HandlesIssued`); a request that made a session is done, and a
family has its first session (`IssuedByDone`). At the commit of a password change nothing
is left to visit, so by `ChangeCoversLive` no session stays live, and by `RotatesLive` no
rotation is under way. `StepsMoveSessions` reduces
the actions to four effects on sessions: nothing, a login, a finished rotation, some
revocations. These keep `OneLiveGeneration`, and map to a stutter, `Begin`, `Renew`
and `End`.

`StationSearch_proofs` proves, under `SiteAssumption`, `EditAssumption` (stations and
points are different things, and no edit or row is the value standing for none) and
`KeyAssumption`:

| Theorem | Says |
|---|---|
| `SearchTypesCorrect` | `Spec => []TypeOK` |
| `EditsAreNotLost` | `Spec => NoEditIsLost` |
| `EditsTakeOneStep` | `Spec => EditsAreAtomic`, the refinement of the edits of `Stations` |
| `PublishedEditsAreSeen` | `Spec => []SearchesSeePublishedEdits` |

*Argument.* `EditsInv` says what holds while an edit is under way. Stations and points are
created together (`CreatedTogether`); a form that quotes the current version of a row was
filled in from the row as it is (`FormsQuoteRows`); an edit holds the locks of the rows it
has checked, a point's station included (`EditsHoldLocks`); and therefore what it checked
is still true (`ChecksStand`): the version, that a station to be activated has a bookable
point, that a point to be closed is not in use. The last is the crux: an edit of a point
must hold the station for an activation to be safe, and the start of a session must hold the
point. `CommitEdit` is then a step of `Stations`, and every other step is a stutter. Searches
need `SearchParts`, as long as Redis has not restarted: a key is never ahead of the cache's
version (`KeysAreCurrent`), and whatever was read, stored or announced under a version is no
older than what had been announced when that version was current (`EntriesAreCurrent`,
`RowsAreCurrent`, `PastEditions`). Row versions only grow (`VersionsGrow`), so that holds of
a row read later as well.

`PaidBookings_proofs` continues `ChargeMate_proofs`, under the same assumptions:

| Theorem | Says |
|---|---|
| `BookingsWaitForOneAttempt` | `Spec => []AttemptsFollowBooking` |
| `ConfirmedBookingsArePaid` | `Spec => []ConfirmedIsPaid` |
| `LoneCapturesAreAccountedFor` | `Spec => []LoneCaptureIsAccountedFor` |
| `LedgerIsKept` | `Spec => KeepsLedger`, the refinement of `PaymentLedger` |
| `BackendBooksAgree` | `Spec => []Ledger!BooksAgree`, by `LedgersAgree` below |

*Argument.* Bookings and attempts alone do not tell why a late failure never releases a
booking that waits for another attempt: `FailureTaken` and `NoNews` do. `AttemptsInv` is
`OneAttempt` (at most one open attempt, and one if the booking waits) and `CheckoutTrail`:
of an attempt without an order Razorpay has said nothing, and a failed attempt either had no
charge or has had its failure event taken, and no event is taken twice. So an attempt that
fails now is open, hence the one the booking waits for. TLC checked `AttemptsInv` as an
invariant of `settlement` and `refunds` first. `ConfirmedIsPaid` is inductive with the
types and `RefundsInv`: only a capture of the right amount confirms, and a cancellation
leaves the confirmed state in the same step in which it asks for the refund.
`LoneCaptureIsAccountedFor` follows two ways: new money is accounted for in the step that
records it (`NewMoneyIsAccountedFor`: the capture confirms the booking, finds it confirmed, or
sets the flag), and stays so (`AccountLasts`): flags and refund rows are never removed, and
a booking ceases to be paid for only by a cancellation, which refunds a captured payment
of it; by the premise there is one.

For `KeepsLedger`, a capture must find its attempt without money, and a refund must be of money
that came in. The first is the deduplication of webhooks and Razorpay's order of events:
`LedgerInv` says that the capture event of recorded money has been taken, that a refund row
belongs to recorded money, and that a charge was authorized before it was captured. TLC checked
it on the instances of `settlement`, `refunds` and `double_capture` first. With it each action
maps to one step of the ledger or to a stutter: late captures and captures to `Take`, both
failures of an order and `payment.failed` to `Fail`, every way in which a refund ends to
`Refuse` or `Return` (`RefundSteps` gathers them: the handler's answer, webhooks and the
reconciliation job).

`RowLocks_proofs` proves, under `WorkerAssumption` (nobody is no worker and no booking)
and `ConflictAssumption` (overlapping is symmetric, and of two bookings):

| Theorem | Says |
|---|---|
| `LocksAreReleased` | `Spec => []TypeOK` |
| `AttemptsFollowBookingUnderLocks` | `Spec => []AttemptsFollowBooking` |
| `RefundsAgreeUnderLocks` | `Spec => []RefundsAgree` |
| `LocksReserveSlots` | `Spec => ReservesSlots`, the refinement of `SlotReservation` |
| `LocksKeepLedger` | `Spec => KeepsLedger`, the refinement of `PaymentLedger` |
| `BooksAgreeUnderLocks` | `Spec => []Ledger!BooksAgree`, by `LedgersAgree` below |
| `PaymentsNeverDeadlock` | `Spec => []PaymentsAreNotDeadlocked` |

*Argument.* `LocksInv` says what is known of a worker in the middle of its transaction: it
has the rows of its plan up to where it is, and besides them only bookings it expires
(`LockInv`); the reason for which its request was taken up stands (`KnownInv`); what it found
under its first lock still holds under its second (`FoundInv`); and once a hold has checked
for overlaps, no booking of an overlapping slot appears until it commits (`OverlapInv`),
because whoever could make one needs the point. Some events happen once (`OnceInv`): one
hold, one capture, one answer to an order. `RowsInv` says what the three rows of a booking
say together. The crux is `May`: whatever a commit does to one booking is one of seven
moves, each with the locks it needs, so that a commit of one worker keeps what the others
know, who hold locks of their own. A move then maps to a step of `SlotReservation` and to one
of `PaymentLedger`, or to a stutter. For `PaymentsNeverDeadlock`, a member of a ring waits
for a row that another member has, and this one waits too. What has both rows of its plan
waits for nothing (unless it expires bookings), so a payment could only meet one that has
taken the other row first: a cancellation that has gone on to the payment has found the
booking confirmed, and then the payment's events are over. Rings may have any length: the
argument takes a worker, the one it waits for and, where needed, the next.

`PaymentLedger_proofs` proves `LedgersAgree`: every behaviour of `PaymentLedger` keeps
`BooksAgree`, under `Assigned` (every attempt is for a booking), which both instances satisfy.
A booking waits exactly while one attempt is asked for money; one that is confirmed, in use
or used has an attempt whose money was taken and is not owed; money is owed or given back for
cancelled bookings only. The argument needs nothing of webhooks, refund rows or locks, so
`BackendBooksAgree` and `BooksAgreeUnderLocks` carry it to both views of the handlers.

`BrowserLogin_proofs` proves, under `BrowserAssumption` (calls belong to tabs, are no tabs,
and the value standing for no token is no session):

| Theorem | Says |
|---|---|
| `PagesKeepTheirTypes` | `Spec => []TypeOK` |
| `PagesKeepFamilies` | `Spec => KeepsFamilies`, the refinement of `TokenFamilies` |
| `LoginsAreKept` | `Spec => LoginsSurvive` |

*Argument.* `ServerSteps` reduces the actions to four effects on the sessions, as in
`AuthSessions_proofs`; `FamiliesInv` (a family is named for its first session and has one
live session at most) makes them steps of `TokenFamilies`. `LoginsSurvive` is about what pages
present: `Good(s)` says that presenting the token of `s` hurts no other session, since `s` is
live (if it has expired, that session alone is revoked) or its whole family is over. Unless `unlucky`, no request nobody waits for carries a
token, every token under way to the backend is good
(`RefreshesInv`), one refresh with a token is under way at most (`OneRefresh`), and the cookie
is good or about to be replaced by the answer that has the next token of its family
(`CookieInv`). The token of a login that has not arrived yet is known to nobody else
(`ArrivingInv`), so that its arrival, which overwrites the cookie at any time, sets a good
one. `StepsOfPages` reduces the steps to a login, a rotation, and those that begin no
session; a rotation makes its own token bad and no other that is under way. A refusal
then revokes a session that has expired, or a family that is over anyway. TLC checked
`LoginsInv` on a smaller instance of `browser_login` first.

*Only model-checked:* liveness (`StaleHoldsExpire`, `PendingRefundsSettle`,
`TransactionsEnd`, `OutdatedAnswersVanish`, `CallsEnd`), which is out of the prover's reach,
and the four properties that are violated.

## 6. Not modelled

- The exclusion constraint, unique-index waits and foreign-key locks of bookings,
  payments and refunds; the order in which waiting transactions are served.
- Registration and the lockout counter of logins, which counts failures with no
  lock and touches nothing else.
- Rate limiting: it only refuses requests, which every module allows at any time.
- The client's panels: search (`src/frontend/src/App.tsx`), checkout and bookings.
- What a search asks for: different questions have different keys and do not meet.
- `cancel_user_booking` (`bookings/service.py:173`), which nothing calls, and the
  session status `INTERRUPTED`, which nothing sets.
- Amounts, energy and distances: what matters of an amount is whether it matches.
- Time limits of jobs and HTTP calls: a call may fail or be answered at any time.
- Credentials, token claims and signatures, and `users.is_active`, which nothing sets. A password change is not refused because of
  another one meanwhile: the user was loaded with the access check, and the locking
  `SELECT` does not refresh what is loaded (`auth/service.py:275`).
- External station data, health checks, configuration: no state of their own.

## 7. Plan

Done: the core (holds, payments, webhooks, refunds, jobs, sessions), login sessions, row
locks, the catalogue with its searches, and the browser's login, with the proofs of section
5, and the ledger that `ChargeMate` and `RowLocks` both implement. Left, in this order:

1. The safety part of what liveness rests on: that a stale hold and a pending refund stay
   where the jobs look for them until a job, or someone else, has dealt with them; that
   a call which waits has a refresh to wait for.
2. The lockout counter next to `AuthSessions`; the checkout panel, whose idempotency key and
   version are fixed when it is mounted.
