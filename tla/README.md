# Verification of the skill-workshop-management backend

TLA+ modules, TLC configurations and TLAPS proofs about the program in `src/`
(Express, MongoDB through Mongoose, Redis, BullMQ, the SSLCommerz payment
gateway).  Paths below are relative to `src/src/app/modules/` (those that begin
with `utils`, `middlewares`, `config` or `jobs`: to `src/src/app/`) unless they say
otherwise.  The model has five groups of modules, one for each part of the system
whose state the others do not touch:

* **booking**: enrolling in a workshop, paying for it, and everything that touches
  its seats and statuses;
* **identity**: users, sessions, revoked tokens, the lockout and one-time passwords;
* **catalogue**: categories, levels, workshops with images, reviews, the cached
  lists, the deletion of a user with its cascade;
* **platform**: processes that start and shut down, the mail queue and its worker;
* **back office**: statistics with their caches, and the list of contact messages.

## 1. Inventory of the system

| Component | State it keeps | Operations that change it | What is hard |
|---|---|---|---|
| enrollment | enrollment documents (user, workshop, status, isDeleted) | createEnrollment, cancelEnrollment, updateEnrollmentStatus | reservation outside the transaction, unique partial index, seat released by several parties |
| payment | payment documents (status, gateway data, invoice URL) | initPayment, successPayment, failPayment, cancelPayment, handleIPN, refundPayment | duplicated, late and reordered callbacks; refund at the gateway before the local update |
| sslCommerz | the Redis lock of a validation; the gateway's own state | sslPaymentInit, validatePayment, sslRefundPayment | a lock with an expiry, calls that fail or are answered late |
| workshop, level | workshops (maxSeats, currentEnrollments), levels, the cached lists in Redis | create, update, delete | counter against documents, unique slugs, delete while in use, stale cache |
| user | user documents (role, isActive, isVerified, isDeleted) | createUser, updateUser, deleteUser | the cascade of a deletion to enrollments and reviews |
| refresh tokens (`utils/userTokens.ts`) | one Redis key per session | login, rotation, logout, revoke all | rotation is get, set, delete; reuse detection; a revocation scans and then deletes key by key |
| token blacklist (`utils/tokenBlacklist.ts`) | Redis keys and a map in each process | invalidate, look-up, synchronise | Redis outage, several instances, restarts |
| auth | failed-login counters, OAuth states and codes in Redis, passwords | login, logout, Google sign-in, change, set, forget, reset a password | counters read before the check and written after it; INCR and EXPIRE are two commands |
| otp | OTP, cooldown and attempts keys in Redis, isVerified | sendOtp, verifyOtp | two stores, several keys that expire each in its time |
| review | reviews | create, update, moderate, delete | one per user and workshop; cascade |
| category | categories | create, update, delete | delete while workshops refer to it |
| mail queue, worker (`jobs/`) | BullMQ jobs | add, process, retry | three attempts, stalled jobs, lost replies, direct fallback |
| audit | audit log | written by plugin and logger | errors are swallowed; the entry of a deletion is a write of its own |
| stats | figures and a dashboard cached in Redis | five sections, dashboard | a cache of caches |
| contact, query builder (`utils/queryBuilder.ts`) | messages | create, list by pages, mark, delete | pages and totals read while messages come and go, an order with ties or one that changes |
| health, metrics | nothing | read-only | |
| request pipeline, rate limiter | counters in Redis | per request | passOnStoreError |
| server lifecycle (`src/src/server.ts`, `utils/seedSuperAdmin.ts`) | connections, the super admin | start, seed, shut down | a signal during the start, order of closing, a forced exit, processes that start together |
| serverless entry point (`src/api/index.ts`) | a connection | first request | two first requests of one instance |

**Interactions.**  Every HTTP request runs its handler as an asynchronous
function in one Node process, of which several may run (Railway, Vercel), so
requests interleave at every `await`.  They share MongoDB documents, Redis keys
and nothing else that booking depends on.  `createEnrollment` reserves a seat
on the workshop with a conditional `$inc`, creates enrollment and payment in a
snapshot transaction and then opens a session at the gateway.  The customer pays
at the gateway, which calls back through the browser (success, fail, cancel)
and directly (IPN), each several times, in any order and late.  The callback
handlers move payment and enrollment in one transaction, guarded by the
payment's status, and then decrement the workshop's counter.  Administrators
refund, change statuses, change `maxSeats` and delete workshops and users.

Sessions work without documents: an access and a refresh token share a jti, Redis has
one key per refresh token that may still be used, and `checkAuth` asks the
blacklist, which is in Redis and, for what could not be written there, in the memory of
the process.  Workshop lists are cached under one Redis key per query string; each
write of a workshop scans for these keys and deletes them.  Mails go to the queue,
where any process with `RUN_WORKER=true` takes them, or directly to the mail server.

**What makes it correct.**  *Booking*: a workshop is not oversold; a seat is taken and
given back once; a user has one active enrollment per workshop; payment and
enrollment tell the same story; a payment is settled and refunded once; two
callbacks do not validate one payment together; what is begun ends.  *Identity*: a
client that rotates its token is never stranded; no session outlives a changed password
but for reasons that can be named (the first of them, keys that share a page of a scan, needs no
race); an invalidated token is refused; attempts at a password and at an OTP are bounded, and a
lockout ends; an OTP verifies once.
*Catalogue*: deleted documents stay as they are and leave no trace but the audit log's;
nothing refers to a deleted category, no two workshops have one title, no list in the cache is
stale and no destroyed image is shown, each but by an overlap that can be named or because
a body named an image that was known before.
*Platform*: a mail arrives once unless a reply was lost, every job is settled, connections
outlive the work that needs them and a deployment comes up.  *Back
office*: figures are recent, and who reads page by page sees what stays in its place.

`PROJECT.json` lists the hazards, each at its line.

## 2. Modules

| Module | Models |
|---|---|
| `BookingStore` | the shared state of booking: documents, Redis lock, gateway, requests in flight; the atomic queries on them; `TypeOK`, `Init` |
| `SSLCommerz` | `sslCommerz/sslCommerz.service.ts`, the gateway and the customer |
| `EnrollmentService` | `enrollment/enrollment.service.ts` and `.repository.ts` |
| `PaymentService` | `payment/payment.service.ts` and `.repository.ts` |
| `Booking` | composes them, with workshop and user administration and crashes: `Next`, `Spec`, `FairSpec`, the properties, the refinement mapping |
| `SeatLedger` | the abstract specification: what booking promises about seats |
| `IdentityStore` | users, tokens, Redis keys, each instance's memory, requests in flight |
| `TokenService` | `utils/userTokens.ts`, `utils/tokenBlacklist.ts`, `middlewares/checkAuth.ts`, `checkResetToken.ts` |
| `AuthService` | `auth/auth.controller.ts`, `auth.service.ts`, the Google routes of `auth.route.ts`, `config/passport.ts` |
| `OtpService` | `otp/otp.service.ts` |
| `UserService` | registration and administration in `user/user.service.ts` |
| `Identity` | composes the four, with outages of Redis, restarts, requests that die |
| `CatalogStore` | categories, levels, workshops, reviews, cached lists, images, audit entries |
| `WorkshopService` | `workshop/workshop.service.ts` with levels, slugs, images, cache and audit entries |
| `CategoryService` | `category/category.service.ts` and the deletion of levels |
| `ReviewService` | `review/review.service.ts` and `.repository.ts`, the cascade of `user/user.model.ts` |
| `Catalog` | composes the three, with outages, requests that die and a failing audit log |
| `PlatformStore` | processes, the super admin, mails, jobs |
| `MailQueue` | `utils/sendEmailDirect.ts`, `jobs/mail.queue.ts`, `jobs/mail.worker.ts` |
| `Server` | `src/src/server.ts`, `utils/seedSuperAdmin.ts` |
| `Platform` | composes the two: `Spec`, `FairSpec`, the properties |
| `BackOfficeStore` | the age of figures and of cached entries; messages and their places in the orders of a list |
| `StatsService` | `stats/stats.service.ts` |
| `ContactService` | `contact/contact.service.ts` and the parts of `utils/queryBuilder.ts` it uses |
| `BackOffice` | composes the two |
| `MCBooking`, `MCIdentity`, `MCCatalog`, `MCPlatform`, `MCBackOffice` | small instances for TLC |
| `BookingTypes`, `BookingProofs`, `SeatProofs`, `LedgerProofs`, `PlatformProofs`, `BackOfficeProofs`, `IdentityProofs`, `CatalogProofs` | theorems and proofs |

Definitions that begin with `MUTANT of` in their comment are plausible mistakes in the
code they name; no specification uses them.  Each property has one that breaks it.

### Booking: state and code

| Variable | Code |
|---|---|
| `maxSeats`, `currentEnrollments`, `deletedWorkshops` | `workshop.model.ts:36-42`, `isDeleted` of the soft-delete plugin |
| `deletedUsers` | `isDeleted` of the user |
| `enrollmentStatus`, `deletedEnrollments` | the enrollment document; `"NONE"` before it exists |
| `paymentStatus`, `paymentGatewayData`, `invoiceUrl` | the payment document; an enrollment has exactly one, so both go by one id |
| `valLock` | the Redis key `lock:payment:val_id:<val_id>` |
| `gatewaySession`, `charged`, `refunds` | what the gateway knows of an order |
| `request` | the local variables and the `await` at which a handler stands |

A request occupies a slot of `Requests` from its first state change, or from the
first read it relies on later, to its last `await`; slots are reused, so any
number of requests happens and only their concurrency is bounded.  A request
that ends at its first reads changes nothing and is not represented.

**Steps.**  One database or Redis operation is one step.  A transaction is the
read of its snapshot (`CheckSnapshot`) and a commit that takes effect at once or an
abort; a transaction that begins with its first write is one step
(`SettlePayment`, `ClosePayment`, `CommitRefund`) or `AbortTransaction`, which is
always possible because a write conflict is.  The soft-delete plugin's filter is in
every query (`Found`, `ReserveSeat`, `ReleaseSeat`, `UpdateEnrollment`).  The
unique partial index guards every write of a status, the administrator's
included (`IndexAllows`).  The read of the enrollment and the decrement that
follows it are one step: nothing another request does in between changes
what the decrement does.

**Environment.**  A callback of success exists only for a charged order and a
callback of failure only for an order with a session; afterwards they may come any
number of times.  A session may be opened, and an order charged, after an earlier
failure.  The amount reported by the gateway either matches or does not
(`Amounts`).  The faults are constants, so that a run says which it includes:
`crash` (the process dies with a request), `init` (the gateway does not open a
session), `gateway` (validation, refund or upload fails; a refund also with its
answer lost), `slow` (the answer to a validation takes more than the lock's 30
seconds).

### Identity

| Variable | Code |
|---|---|
| `account` | the user documents: isActive, isVerified, isDeleted; passwords are numbered, 0 is none |
| `issued` | what a token with this jti was signed for: a session (its user, the first token of its line of rotations, the password it began with) or a password reset |
| `refreshSession` | `refresh_token:<user>:<jti>` (`userTokens.ts:9`) |
| `oauthState`, `authCode` | `oauth_state:<state>`, `auth_code:<code>` |
| `blacklist`, `localBlacklist`, `syncing` | `blacklist:<hash>` in Redis, the `Map` of each process, a running `syncLocalToRedis` |
| `failedLogin`, `failedTtl` | `failed_login:<email>` and whether it has a time to live |
| `otp`, `otpAttempts`, `attemptsTtl`, `cooldown` | `otp:`, `otp_attempts:` and `otp_sent:<email>`; OTPs are numbered |
| `history` | what the properties remember of the past; no action's guard reads it |

One Redis command or one query is one step, so that a rotation is three, a login up
to five, and a revocation a scan and as many deletions as it found.  The client of Redis hands out
the keys of a scan page by page, as arrays (`redis` ^6.1.0, `src/package.json:84`; `workshop.service.ts:31`
provides for it), and `String(key)` in `userTokens.ts:30` makes one key of a page: a scan therefore
finds the keys that are alone on their page, and how keys fall on pages is up to Redis
(`joined` in `ScanSessions`).  A key may expire at any
time its command allows, a token and the key about it at once; what has expired is left
out of the state.  The faults are an outage of Redis, with which every command fails
(a request ends with an error where it stands, `RedisRefuses`, except where the code
catches it), a restart of an instance, which empties its memory, and a request that dies.

### Catalogue

`group` holds categories and levels, `workshop`, `review` and `registered` the other
documents.  Of a cached list the model keeps which workshops were written since it was read
(`missing`) and which of those no purge was bound to see (`excused`: the list was
stored after the purge's scan, or the purge died or met an outage); of an image
whether it was destroyed, and whether an update added it when it was known already (`reused`); of an
audit entry that it exists.  A request keeps in
`since` the documents that others wrote since the query on which it decides: this is how
"but for an overlap" is said.  Each request is served once, so that their number
is a bound on the behaviour and not only on its concurrency.  `SlugOf` maps titles
to slugs, two titles to the same in the run, and `suffix` is the number that
`generateUniqueSlug` appends.  An update's body says which images to add and to drop; those to
add are uploads or any URLs the body names (`workshop.validation.ts:146`, spread into the update by
`workshop.controller.ts:137`), so any image at all, and a body that mentions a list, be it an empty
one, writes back the images that were read (`lists`, `workshop.service.ts:408`).  Uploads have
random names and so are new; those of `createWorkshop` are all uploads.  Duplicates of a title are
looked for unless it is the title that was read (`workshop.service.ts:293`), and
`createWorkshop` looks for neither category nor level (`workshop.service.ts:168-184`).  `Matching` are the images whose URL
`deleteImageFromCloudinary` recognises.

### Platform

`phase` is how far `main` has come, `shutdown` how far `gracefulShutdown`, which
runs beside it: a signal may come at any point of the start.  `open` are the
connections of each process.  `call` are calls of `sendEmailDirect`, `job` the jobs
of the queue, `copies` what the mail server took and `doubts` how often a sender could not
know what became of a mail.  BullMQ's rules (attempts, backoff, stalled jobs,
`maxStalledCount`) are modelled from how `jobs/` configures and uses it.

### Back office

Of figures the model keeps when the first of their queries ran, and an entry stays for `TTL`
ticks of a clock.  The queries of a section run in any order; two stand for them all.  What
they compute is left out, and that totals and groups agree is not claimed: besides the writes
in between, the groupings by level and category drop workshops whose level or category is not
there (`$lookup` and `$unwind`, `stats.service.ts:110-121` and `143-154`).  A request takes at most `Lag`
ticks.

A message has a place in every order by which a list may be sorted (`Sorts`), and several may have
the same: the code sorts by the fields that the query names, by `-createdAt` if it names none, with
nothing to break a tie (`queryBuilder.ts:67-75`), so that `FirstOnes` allows every order in
which the database may return them.  A field that no operation changes (`createdAt`, `name`, `email`)
is `Steady`; the place in the order by any other (`isRead`, `updatedAt`) may change when a message is
marked.  A walk through the messages asks for page after page as long as `totalPage` says
there is one; page and total are two parallel queries, and the history variables of the walk
say which messages it owes its client.  The code's page sizes, ten by default and a hundred at
most, are the constants `DefaultLimit` and `MaxLimit`.  The two halves share nothing; `office` lets
each behaviour exercise one of them, and the requests that may read messages are `Readers`.

## 3. Runs

`CHECK_DEADLOCK FALSE` appears where the system may come to rest: a workshop or all users
deleted, every request served, all tokens signed, or writes, signals and the
clock at their bounds.

| Configuration | Instance | Shows |
|---|---|---|
| `Seats` | 1 seat, 2 users with an order each, 2 concurrent requests, crashes, deletion of users and of the workshop (443 188 states) | `SeatsCoverActive`, `NoOversell`, `ImplementsLedger` |
| `Conservation` | 2 users, every callback and refunds, the limit may be raised from 1 to 2, no crash | `SeatConservation`: the counter is exact |
| `Uniqueness` | one user with two orders for a priced workshop without a limit and one for a free workshop with one seat; cancellations, late callbacks, the administrator's writes (947 206 states) | `UniqueActive` |
| `Orders` | one order, 2 concurrent requests under fairness: callbacks, refunds, amounts that do not match, new sessions, crashes, sessions and validations that fail, deletion of the user (230 742 states) | `TypeOK`, `PaymentLifecycle`, `StatusesAgree`, `ValidationExclusive`, `LockIsFreed`, `ClaimsEnd` |
| `Sessions` | one user, 3 tokens, 2 concurrent requests: login with a lockout after one failure, rotation and reuse, change of the password, keys that share a page, a request that dies (903 298 states) | `OutdatedIsSpared`, `LineSurvives`, `FailuresBounded`, `LockoutIsTimed` |
| `Blacklist` | two instances with a request each, 2 tokens, an outage of Redis and restarts; Google sign-in, logout, setting and resetting a password (1 708 854 states) | `SpentIsRefused`, `InvalidationIsKept` |
| `Guesses` | one user who registers, 3 OTPs, 2 concurrent requests that may die, expiring keys, deletion and blocking (246 483 states) | `TypeOK`, `GuessesBounded`, `SendsBounded`, `UsedOtpIsGone`, `RightOtpVerifies` |
| `Catalog` | one category, level and workshop, a category and a workshop that may be created, 2 titles with one slug, 2 reviews of one user, one cached list, 2 images, one of which bodies may add and add again, and drop; 3 requests, an outage, a request that dies, a failing audit log (476 802 states) | `TypeOK`, `StaleOnlyByOverlap`, `DeletionSparesLinked`, `TitlesClashOnlyByOverlap`, `DeletedIsFinal`, `DeletionIsAudited`, `DestroyedIsNotShown`, `ReviewsGoWithUser` |
| `Platform` | two processes, one with a worker, one mail of any kind, one signal, two faults, fairness (213 829 states) | `TypeOK`, `CopiesAreExplained`, `ConnectionsOutliveWork`, `JobsAreSettled`, `AllComeUp` |
| `BackOffice` | two sections, a TTL of two ticks and five ticks of time, 2 requests; four messages, two of them created in the same millisecond, two orders, page sizes of one, of two by default, and one above the cap of three, one reader, 3 writes (3.6 million states) | `StatsAreRecent`, `EverythingIsListed` |
| `LateSuccess` | 1 seat, 2 users, cancellation and late callbacks | violation of `SoldWithinSeats`, see below |
| `AllDevices` | one user, 2 tokens, one request at a time, no faults: logins and a change of the password | violation of `NoOutdatedSession`, see below |

**What the properties exempt.**  Several state what holds *but for* a race or another cause, because
the plain statement is false of the code; the exemption names the cause, so that
nothing else may go wrong.

* `OutdatedIsSpared`: a session with an old password belongs to a line whose key shared a page of
  the scan with another key, or that a request in flight renewed, or stored, while the sessions were revoked, or whose revocation failed half
  way, or that was open, or about to be, when `setPassword` saved: it takes the password for
  the user's first and revokes nothing.  Two of them that overlap both read "no password"
  (`auth.service.ts:75`), and the second replaces what the first has set.
* `StaleOnlyByOverlap`: a cached list that misses a change is being purged, or it was read before
  the change and stored after it, or its purge died or met an outage.
* `TitlesClashOnlyByOverlap`, `DeletionSparesLinked`: the other workshop was written between the
  query that looked for it and the write that relied on it.  A title also clashes when an update
  carries the title it has read, for which it does not look, and the workshop was renamed
  since: then it gets back a title that another may have had all along.
* `DestroyedIsNotShown`: two updates of the workshop's images overlapped, or an update added the
  image when it was destroyed, shown or about to be shown already (`reused`): the body may name any URL,
  and whoever sends the URL of a destroyed image gets it shown, with no overlap.
* `ReviewsGoWithUser`: the review was not being written during the deletion.
* `EverythingIsListed`: a message left the list or changed its place in the order that the client
  named (say `isRead`, with a `markAsRead` between two pages); a page ended between two messages that
  tie, two of the same millisecond for instance, so that each query could put another of them first;
  a message came between the two queries of a page; or the client asked for more than `MaxLimit`,
  above which `getMeta` divides by a page size that `paginate` does not use (`queryBuilder.ts:128`).
* `ConnectionsOutliveWork`: requests may be without MongoDB in a process that began to listen
  after its shutdown had skipped the server (`server.ts:77`).
* `GuessesBounded`: the counter may have expired once during the life of an OTP; guesses
  in flight are not counted yet, and those whose request died are counted apart
  (`uncounted`).  `SendsBounded`: requests in flight read the cooldown before one of them sets
  it, and a request that dies sets none (`uncooled`).

**Bounds.**  No step of booking reads or writes two workshops, so one is enough; `Uniqueness`
has two to have a free one as well.  One seat and two users are enough for two to
compete for the last seat, and for a seat to be given up by one and taken by the
other.  Two orders of one user are enough for one to become active behind the other's
back.  Two concurrent requests are enough for a check in one to be outrun by a write
in the other; the safety properties of `Orders` are proved for any number of them.  `MaxRefunds` bounds the refunds of
the gateway, `MaxUnderflow` how far below 0 a cancellation may start (the decrements
are unbounded in the code).  In identity no key is shared by two users, so one is enough;
three tokens are a line of two rotations, or one rotation and a second
login; `MaxPassword` 2 has one change, `MaxOtp` 3 an OTP overwritten twice; requests have slots that
are reused, so only their concurrency is bounded.  `MaxFailures` bounds faults
to one in these runs.  With a lockout after one failure and one request that may die,
`LockoutIsTimed` excuses the account as soon as a request died between INCR and EXPIRE: the run
shows the rest, and that fewer deaths than the limit leave no account locked is what the theorem says.
In the catalogue three requests are enough for one to overtake
another and for a third to see the result (a purge and a stale list, two
writers of one title and their index).  Users enroll in no further workshop there: of the
enrollments the reviews need only that there is one when they are begun.  In platform two processes race for the
super admin; two faults allow a mail to be sent twice and then be lost sight of.
`MaxClock` 5 is more than twice the TTL, so that figures of a cached dashboard reach the age that
the bound allows; two sections are enough for one to come from its cache and the other from the
database.  Of the page sizes in `BackOffice` one leaves four pages, the default
two pages that a tie may or may not split, and the one above the cap a last page that
`totalPage` does not announce.  One reader suffices because readers do not see each other.  Request slots are interchangeable, and so are tokens and instances
where the run's operations treat them alike; they are symmetry sets, except in the runs about
liveness.

**Fairness.**  Booking and identity: `WF(Resume(r))`: a handler whose operation is
answered goes on; Node's event loop starves no continuation, MongoDB and Redis answer or
fail, and the gateway calls have a timeout of 30 seconds, except the validation call, which
is assumed to be answered.  `WF(LockExpires(e))`: Redis drops an expired key.  Nothing
is assumed of customers, administrators, guessers or the gateway's callbacks.
Platform: the container runtime starts a process that ended, `main` goes on
(`WF(Boot(i) \/ Start(i))`), the timer of a shutdown runs out (`WF(ForceExit(i))`) and workers go
on with a job (`WF(Work(m))`).  Nothing is assumed of the graceful closings,
which may hang, nor of requests: that a process told to stop comes up again rests on the timer of
its shutdown, not on the work it waits for.

### What the code does otherwise

Two runs expect a violation; `PROJECT.json` quotes the lines.  `LateSuccess`: an enrollment is
cancelled without closing its payment, and the late IPN completes it again without a seat, although
`src/README.md:52` promises that workshops are not oversold.  `AllDevices`: of two sessions whose keys
share a page of the scan, `revokeAllRefreshTokens` ("Revoke every active refresh session for a user (all
devices).", `utils/userTokens.ts:22`) deletes neither, so that both survive a change of the
password.  Nothing overlaps and nothing fails.  The tests do not see it because their scan
yields single keys (`src/tests/security/refresh-session.test.ts:66-67`).  Eight more
configurations are kept beside it, to be run by hand; each ends in a counterexample to a
statement that a document, a comment or a test makes:

| Configuration | Module | Property | What happens |
|---|---|---|---|
| `InitFailure` | `MCBooking` | `SoldWithinSeats` | the session fails to open after the commit: the seat is released, the enrollment stays and is paid later |
| `StaleUpdate` | `MCBooking` | an enrollment never regresses | the administrator's write by id lands after the IPN's |
| `FreeRefund` | `MCBooking` | `SeatsCoverActive` | at a free workshop the enrollment is cancelled, which gives its seat back, and the payment, which is still PAID, is then refunded without the gateway (`payment.service.ts:727-801`), which gives it back again |
| `DoubleRefund` | `MCBooking` | no double refund | the gateway is called before the conditional update |
| `LockMiss` | `MCBooking` | a payment is validated before it is PAID | who misses the lock settles, and the validation in progress fails |
| `UserCascade` | `MCBooking` | the user's enrollments are deleted too | an enrollment is committed between the cascade and the user's save |
| `NoInvoice` | `MCBooking` | payments have an invoice | the IPN is first, and the redirect stops at PAID (under `FairSpec`) |
| `StaleSession` | `MCIdentity` | `NoOutdatedSession`: a changed password invalidates all sessions | where no keys share a page (`LonelyScans`): a rotation in flight stores its new session after the scan |

Two more mechanisms of the code are in the model without a configuration of their own, because
they only delimit what the other runs show.  With the fault `slow` the validation
call, which has no timeout (`sslCommerz.service.ts:99`), outlives the lock's 30
seconds and `ValidationExclusive` is false.  With `cancelEnrollment` at a priced
workshop the cancellation and the failed payment's callback both decrement the
counter, as cancellation and refund do at a free one (`FreeRefund`), and `SeatsCoverActive` is
false (the counter even leaves its declared `min: 0`, `workshop.model.ts:41`).  Both are easily seen by adding the fault or the operation to
`Orders` or `Seats`.

## 4. Proofs

All modules named here are checked by TLAPS to the last leaf, for every value of the
constants that satisfies the assumptions of the group's store: `StoreAssumption`,
`PlatformAssumption`, `BackOfficeAssumption`, `IdentityAssumption`, `AccountsAssumption`,
`CatalogAssumption` and `DistinctIds`.  They say what the code's
constants are: attempts and a worker's concurrency are positive, a page has at least one
message, the default page size is no larger than the largest; ids of different collections
differ.

| Theorem | States | Assumes besides |
|---|---|---|
| `BookingTypes!TypeCorrect` | `Spec => []TypeOK` | |
| `BookingProofs!PaymentsSettleOnce` | `Spec => PaymentLifecycle` | |
| `BookingProofs!OneActivePerUser` | `Spec => []UniqueActive` | |
| `BookingProofs!StatusesMoveTogether` | `Spec => []StatusesAgree` | `NoManualStatus` |
| `BookingProofs!OneValidationAtATime` | `Spec => []ValidationExclusive` | `"slow" \notin Faults` |
| `SeatProofs!CounterCoversSeats` | `Spec => []SeatsCoverActive` | `SingleRelease` |
| `SeatProofs!NeverOversold` | `Spec => []NoOversell` | `SingleRelease` |
| `SeatProofs!SeatsAreUsed` | `Spec => []NoSeatLost` | `NothingVanishes` |
| `SeatProofs!SeatsConserved` | `Spec => []SeatConservation` | `SingleRelease`, `NothingVanishes` |
| `LedgerProofs!BookingImplementsLedger` | `Spec => ImplementsLedger` | `SingleRelease` |
| `PlatformProofs!PlatformTypes` | `Spec => []TypeOK` | |
| `PlatformProofs!CopiesTheorem` | `Spec => []CopiesAreExplained` | |
| `PlatformProofs!ConnectionsTheorem` | `Spec => []ConnectionsOutliveWork` | |
| `BackOfficeProofs!BackOfficeTypes` | `Spec => []TypeOK` | |
| `BackOfficeProofs!StatsTheorem` | `Spec => []StatsAreRecent` | |
| `BackOfficeProofs!ListTheorem` | `Spec => []EverythingIsListed` | |
| `IdentityProofs!IdentityTypes` | `Spec => []TypeOK` | |
| `IdentityProofs!SpentTheorem` | `Spec => SpentIsRefused` | |
| `IdentityProofs!KeptTheorem` | `Spec => InvalidationIsKept` | |
| `IdentityProofs!UsedOtpTheorem` | `Spec => []UsedOtpIsGone` | |
| `IdentityProofs!LineTheorem` | `Spec => []LineSurvives` | |
| `IdentityProofs!FailuresTheorem` | `Spec => []FailuresBounded` | |
| `IdentityProofs!LockoutTheorem` | `Spec => []LockoutIsTimed` | |
| `IdentityProofs!GuessesTheorem` | `Spec => []GuessesBounded` | |
| `IdentityProofs!SendsTheorem` | `Spec => []SendsBounded` | |
| `IdentityProofs!OutdatedTheorem` | `Spec => []OutdatedIsSpared` | |
| `CatalogProofs!CatalogTypes` | `Spec => []TypeOK` | |
| `CatalogProofs!FinalTheorem` | `Spec => DeletedIsFinal` | |
| `CatalogProofs!AuditTheorem` | `Spec => []DeletionIsAudited` | |
| `CatalogProofs!SparesTheorem` | `Spec => DeletionSparesLinked` | |
| `CatalogProofs!TitlesTheorem` | `Spec => TitlesClashOnlyByOverlap` | |
| `CatalogProofs!StaleTheorem` | `Spec => []StaleOnlyByOverlap` | |
| `CatalogProofs!ReviewsTheorem` | `Spec => []ReviewsGoWithUser` | |
| `CatalogProofs!DestroyedTheorem` | `Spec => []DestroyedIsNotShown` | |

`NoManualStatus`: neither `cancelEnrollment` nor `updateEnrollmentStatus` is among
the operations, the two that write an enrollment's status without the payment's.
`SingleRelease`: that, and `sslPaymentInit` does not fail.  The assumptions are not
for convenience: the runs `LateSuccess`, `InitFailure` and
`StaleUpdate` show that with either of them dropped the statements are false of this
code.  `NothingVanishes`: no request dies, and neither an enrollment's status nor a deletion of
its user or workshop takes a seat's owner away without the counter.  In the code nothing
gives such a seat back: a request that dies between `reserveSeat` and its commit has lost its
seat for good.

**Argument, booking.**

* `TypeInv` strengthens `TypeOK` by what every request carries at each label
  (`RequestOK`): a request at `commit` has a user and a workshop, one at `settle` an
  enrollment.  Without it no step that indexes a function by `request[r].enr` keeps
  its type.  Each action has a lemma; `StepCases` collects them.
* `CreatedTogether`: an enrollment exists exactly when its payment does.  It turns
  the conditional update of a payment into a fact about the enrollment.
* `WritersOfStatus` says which actions write statuses at all, so that the
  invariants about statuses need six cases and not thirty.
* `LockProtects`: a request between lock and unlock has its key in Redis, and only
  one such request exists for an order.  It is inductive because the key cannot
  expire under it; the fault `slow` is the case left out.
* `SeatInv`, the inductive invariant of the seats: for every workshop with a limit,
  active enrollments and claims are together at most the counter, and the counter is at
  most a limit the workshop had.  A *claim* is a reservation that is not an enrollment
  yet, or a closed enrollment whose seat is still to be given back: a request
  passes its seat on to a document or takes it over from one, and each step is
  shown to move one element between two finite sets.  It also needs
  `ClosedBefore`: the order whose seat a request at `decrement` gives back exists already,
  so that the enrollment a commit creates is never one whose seat is being given back.
* `NoSeatLost` is the converse inequality: the counter is at most the active enrollments plus
  the claims.  A step leaves the claims of all other requests alone (`OthersClaim`) and
  passes on one seat of its own: from the counter to a claim (`UseTaken`), from a claim to an
  enrollment and back (`UseEnrolled`, `UseClosed`), or back to the counter
  (`UseGivenBack`).  That nothing is deleted is part of the induction.  The two inequalities are
  proved from different assumptions; `SeatsConserved` joins them.
* `LedgerStep`: every step is a step of the ledger or leaves `Stage` unchanged.  The
  commit of an enrollment finds room because its request still holds a claim
  (`SeatInv`) and its user no other seat there because of the unique index.

**Argument, platform.**

* Types rest on three facts: a call that has not reached the queue has no job
  (`JobIsNew`), a job that has not failed has attempts left (`AttemptsLeft`), and the process of
  a pending call is known (`CallerKnown`).
* `CopiesBounded` adds to the copies of a mail those that its call and its job are still
  free to send (`ToSend`): what one step takes from the one it gives to the other or adds to
  `doubts`.
* `ConnectionsOutliveWork` is inductive with how far the start must have come for each
  connection to be open (`OpenedSoFar`), when a worker is open (`WorkerOpen`), and that closing
  waits for jobs (`JobsHeld`) and calls (`CallsHeld`).

**Argument, back office.**

* `InTime`: what a request has read is no older than the request and the TTL of the
  entry it hit; `Tick` takes no request past its `Lag` and no entry past its time.
* `WalkInv`: whatever is due and not seen lies behind the pages read so far (`Rank`, the number
  of messages that are before it in every order the database may take, is at least their product
  with the page size).  A page that splits no tie holds every message whose rank is below its end
  (`FirstHaveLowRanks`), so it moves the boundary by one page; a message that leaves the list or
  changes its place sets `moved`; the total counts all that lie behind, so that `totalPage` leads to a
  next page.  The one arithmetical lemma is that a message at rank n is on a page whose number is at
  most `totalPage`.

**Argument, identity.**

* Types rest on what was signed for a user or a session (`TokensKnown`) and on what a request
  in flight knows of its user and its token (`RequestsKnown`).
* `SpentIsKnown`: what an instance has invalidated is in Redis or in its own memory, which
  is where `IsTokenBlacklisted` looks; a sync moves an entry only once Redis took it, and a
  restart forgets the memory together with what the instance owes it.  Only
  `Authenticate` takes an idle request to `"handle"` (`ArriveFacts`).
* `OtpsAreOld`: OTPs are numbered, no number is larger than the last one made, and from the
  moment a request has consumed an OTP (`Consumed`) the key holds another number or none.
* `LineKept`: it is not enough that a line has a session; it has one that no request at
  `"dropOld"` is about to delete (`Dropping`), and what a revocation still has to delete
  belongs to lines that have ended (`DoomedHaveEnded`).
* `FewFailures` adds to the counter the logins that are past its check (`Trying`);
  `FailuresTimed` explains a counter without a time to live by the logins that have yet to
  send EXPIRE (`Expiring`) and those that died before it.
* `GuessesCounted`: the wrong guesses at an OTP are at most those still to be counted
  (`Guessing`), those the counter has seen (`Counted`), and those that died in between.
  As long as the counter may still expire during the life of the OTP, `Counted` has one limit to
  spare; once it has, the counter outlives the OTP.  `SendsCounted` says the same of the OTPs
  sent and the cooldown.
* `OutdatedDue`: an outdated session is spared, or a revocation in flight is going to delete it
  (`WillDelete`: its search is still to come, or has found the session).  A request that is past
  its check of the password, or is renewing an outdated session, is known to be racing, or a search
  is still to come (`ToScan`) that finds what it will store.  Deleting one session of a
  search that found several leaves the promise about the others, a search turns `ToScan` into
  `WillDelete` for the keys that were alone on their page and spares the lines of the others, and a revocation that dies or fails spares the lines it has not deleted.  Each action
  disturbs the sessions of one user only (`DueKept`), and has a lemma.

**Argument, catalogue.**

* Types rest on `Shapes`: what kind of document a request at each label is about, and that
  what it deletes has been created.  Each action has a lemma; `StepCases` says of a step that it is one
  request's, and `GroupWritten`, `WorkshopWritten` and `ReviewWritten` say who may write a
  document at all and how the other requests learn of it (`since`).
* `NewIsAlone`: an id that is being inserted is no other request's target.  Together with the
  filter of the soft-delete plugin it makes the deleted final.
* `AuditedFirst`: between audit entry and deletion the entry stays in the log or is
  known to be lost.  `LinkedIsNew` and `SameTitleIsNew`: between a query
  and the write that relies on it, whatever contradicts the query was written since; an update that
  carries the title it has read has no query to rely on, but then its workshop has that title
  still, or was itself written since (`TitleIsRead`).
* `WillPurge`: whatever a cached list misses and nothing excuses, some request is still to drop
  it from the cache.  Nobody but that request can end this (`StillOwes`), and when it does the list
  is gone, or its death or the outage is the excuse.
* `CascadeReaches`: a user being deleted has no enrollment left that counts, so that nobody starts
  a review any more (`NoEnrollments`), and the reviews that are left were, or are being, written by a
  request that the cascade overtook (`AuthorsOvertaken`, `HiddenReviews`).
* `OwnedOnce`: but for the images that updates added when they were known already, an image
  belongs to one workshop (`Pics`) or is about to be added by one request (`Added`), and is read
  only by updates of its workshop (`Seen`).  `reused` only grows, so what is not in it now was
  never added twice.  `DestroyedIsKnown`: such an image, once destroyed, is neither shown nor about to be,
  but for requests and workshops whose updates overlapped.  The deletion of images comes after
  the write, so the proof has to follow what each concurrent update read, adds and is about to
  destroy (`Doomed`).

A proof attempt corrected the model in three places: `generateUniqueSlug` throws
after a hundred taken slugs, where the model had a `CHOOSE` without a value; a document that was
not created yet could have been typed as deleted; and documents deleted at the start count as
audited.  In identity it
corrected three properties, whose runs were too small to refute them: one outage of Redis kills
any number of requests, so the faults do not bound the guesses and sends that go uncounted; and
a session opened with the password of one `setPassword` is outdated by another that overlapped
it, without any revocation.

**Only model-checked.**  All liveness properties (`LockIsFreed`, `ClaimsEnd`,
`RightOtpVerifies`, `JobsAreSettled`, `AllComeUp`), because TLAPS does not handle
fairness, and the two statements the code violates.  Every other property of the passing runs
is a theorem, those of the seats under the assumptions named above.

## 5. Not modelled, and the plan

*Booking*: wording, mails, audit entries (their errors are swallowed and
they change no other state), the amounts themselves, profile completeness and
`studentCount` checks (each is an abort of the transaction, which may happen anyway),
ownership checks of reads, the signature check of the IPN (every IPN is genuine), and
a session the gateway opened although its answer was lost (its page's URL is lost too).
A commit whose answer is lost is not a step of its own; it leads where
`InitFailure` leads.

*Identity*: how tokens are signed and hashed, cookies and CSRF, roles (each route's check
is a comparison with what the token says), the expiry of access tokens (a token and the
key about it go together), profile updates and pictures.

*Catalogue*: the query builder's search and fields, what a list's query string asks for (a list
counts as stale if any workshop changed since it was read), and a change of
`currentEnrollments` by booking, which invalidates no list: seat numbers in a cached list
are up to 60 seconds old by design.  The average rating and other read-only queries.

*Platform*: templates, PDF layout, what the mail server does with a mail it
took; how ioredis queues commands while Redis is away (with `maxRetriesPerRequest` null a
call of `mailQueue.add` then waits; in the model it may stay where it is for ever); a job that BullMQ
takes for stalled although its worker lives, because an outage kept it from renewing the job's lock
(a job stalls in the model only with the process of its worker).  That a shutdown ends is not
stated: it holds by its timer alone (`server.ts`), whatever the other steps do.

*Back office*: what MongoDB's aggregations compute, the search in messages, and the texts.

Components that are left out altogether:

| Component | Reason |
|---|---|
| serverless entry point (`src/api/index.ts`) | a second host of the same application without shutdown, worker and seeding; its race between two first requests is listed as a hazard |
| health, metrics and logging | read-only, observability |
| rate limiting | the counting is `express-rate-limit`'s; the repository chooses windows and keys |
| request pipeline | validation, error mapping and wiring keep no state |
| seed script | sample data, run by hand on an empty database |
| audit plugin | nothing reads its entries to decide; the entries of deletions are modelled |

Planned: the serverless entry point's connection; the seats' theorems under assumptions
about single enrollments instead of whole operations.
