# sirenorder-server in TLA+

`sirenorder-server` is the NestJS backend of a mobile ordering service. Buyers
pay at PortOne, the payment webhook turns the payment into an order, the
merchant's app hears of it over socket.io and accepts, refuses or finishes it,
and the buyer follows along over server-sent events. State lives in two places,
Postgres (through Prisma) and Redis (whole arrays under a few keys), and the
process itself keeps a list of listeners. There is one Node process; everything
that races does so because a handler waits.

This directory holds TLA+ models of the parts of the server that carry state,
the TLC configurations that check them, and TLAPS proofs about them. Paths
below are relative to `src/src/`.

    tlc -config OrderDesk_races.cfg MCOrderDesk     a model-checking run
    tlapm OrderDeskProofs.tla                       the proofs of a component

`PROJECT.json` maps every definition to the lines it stands for, names a mutant
for every property (a plausible bug that the property catches), and lists the
hazards by line.

## 1. Inventory

| component | state | operations | module |
|---|---|---|---|
| **Order desk**: `store.service.ts` (webhook, `useCoupon`), `common/socket/socket.gateway.ts` (accept, refuse, finish), `common/methods/portone.method.ts`, `repositories/store/store.repository.ts` | Redis key `order_uid` (cached order); tables `order`, `sales`, `storewallet`, `user.order_history` | payment webhook, accept, refuse, finish, background refusal, start-up delete; orders paid with a coupon, gifts | `OrderDesk`, `OrderBook`, `Counter` |
| **Store registry**: `common/socket/event.handler.ts`, the gateway, `services/merchant.service.ts`, `store.service.ts` | Redis key `stores`: `isOpen` and `socketId` of every store | connection, login, disconnect, registration, deletion, load at start; the reads an order makes on its way to a socket | `StoreRegistry`, `Shop` |
| **Notify hub**: `services/sse.service.ts`, `controllers/sse.controller.ts` | array `notifiers` in the process; live streams in the framework | listen, conflict, close, push, end of the process | `NotifyHub`, `Front` |
| **Coupons and gifts**: `services/coupon.service.ts`, `repositories/coupon/coupon.repository.ts` | tables `coupon`, `gift`; `user.coupons`; stars of `userwallet` | publish, register, stamp coupon, wrap a gift, use, recall, clean-up | `CouponLedger` |
| **Users array**: `services/user.service.ts`, `coupon.service.ts`, `repositories/user/user.repository.ts` | Redis key `users`, a copy of user rows | `_upsertCache` and what precedes it, two patches of `CouponService`, load at start | `UserCache` |
| **Registration by mail**: `services/user.service.ts`, `services/mail.service.ts`, `UserRepository.create` | Redis keys with a time to live, one under the code and one under the address; table `user` | send a code, verify it, create the account; expiry | `Registration`, `Signup` |
| **Request log**: `common/interceptors/logging.interceptor.ts`, `common/filesystem` | folder `logs` with one file, jobs of the thread pool | append, make the folder | `Front` |
| **Error catalogue**: `common/type/response.type.ts` | shared mutable error objects | `substatus = ...; throw`, answer | `Front` |
| **Sessions**: guards, `auth.service.ts` | access and refresh tokens in the rows, in `users` and with the client | login by password or token, refresh | `UserCache`, `Front`, without the client's side |
| Menus | tables that nothing here writes | reads | left out |
| Wiring, DTOs, Swagger, build files | none | none | left out |

### How they interact

    PortOne --webhook--> StoreService --order event--> merchant's app
                 |             |                            |
                 |        "stores" array              accept/refuse/finish
                 |             ^                            v
                 |     SocketEventHandler <--login-- SocketGateWay
                 v                                          |
           cached order  <------- PortOneMethod <-----------+
                                       |
                       order, sales, storewallet (Postgres)
                                       |
                     SSEService (streams) --> buyer

The order desk reads the registry to find the socket of a store (`Shop`); coupon
orders and gifts are prepared by other branches of the same service and then
share the desk, its cache and the process (`Counter`); the gateway, the order
desk and the coupon service push notices into the hub, and everything the hub
passes on goes through the interceptor that logs it (`Front`).

### Which behaviours are hard, and what makes the parts correct

* **Order desk.** Handlers of one order interleave at every `await`. The cached
  order is read first and used in a transaction later. Webhooks are repeated by
  PortOne, the merchant's app may send any message twice, a failed acceptance
  removes the order, the catch of one handler undoes what another did, a start
  of the server deletes rows that handlers are working on, and a background
  refusal that fails, or a delete from Redis that is refused, ends the process.
  Correct: tables in step, money equal to
  the sales on record, an order settled once, an answer to the buyer.
* **Store registry.** Read, wait, write back, without a lock; a disconnect whose
  read fails is logged and forgotten. Correct: an order
  never goes to another merchant's app; a merchant that is logged in is open; a
  dead connection is closed; a registered store is listed.
* **Notify hub.** The handler for the end of a request is registered before the
  request can be refused. Correct: nobody is locked out, nobody misses notices.
* **Coupons.** Validation, granting and deletion are separate transactions,
  some of them with a read that a later write depends on. Correct: a code is
  spent once, stamps are paid for, the box agrees with the table.
* **Coupon orders and gifts.** A coupon is found valid in one step and deleted
  in another, before the order is cached and sent, and nobody gives it back; a
  gift is published, wrapped and announced in three. Correct: a coupon buys one
  order, and its buyer hears of it; a gift is paid for and announced.
* **Registration.** An application is kept under two keys that expire, the
  writes that move it are not awaited, several applications of one address are
  on their way at once, and the key under the address is read before an `await`
  and deleted after it. Correct: one account per address, made from an
  application that was mailed to it and confirmed, the last one if nothing
  overlapped, and no application that serves twice.
* **Request log and errors.** The folder and the line are handed to the thread
  pool together, and a failing callback ends the process. An error object is
  shared by all requests, filled in at the `throw` and read when the answer is
  written. Correct: logging is safe once the folder is there; a failure is
  answered with its own substatus.
* **Users array.** Nine operations change a row and then, without being waited
  for, rewrite the array from a read. The array answers sign-ins and supplies
  the refresh token that is verified. Correct: it differs from the rows only
  where an update was lost, and is never ahead of them.

`PROJECT.json` lists each hazard at its line with the properties that cover it.
Four have none, and say why: the notice of a finished coupon order that
computes with a string, points that go below zero, the cached list in which a
gift's coupon is put, and the start that marks all gifts of a user as used. The
models contain the last three steps, but no text of the repository says what
they should do instead. Where a property excuses what a hazard does, because the
code does it (a lost update, a crash between two writes), the hazard has a note
that says what the property shows all the same.

## 2. Conventions shared by the models

**Tasks.** A handler in flight is a task in one of a few slots. An action is
everything the handler does from one `await` to the next, together with the
database or cache operation it then waits for. Nothing else runs meanwhile;
between two actions anything may.

**Prisma.** An interactive transaction commits completely or not at all.
Where its outcome only depends on rows it changes itself (`createOrder`,
`deleteOrder`) it is one step. Where a later write depends on an earlier read
(`registerCoupon`, `deleteCoupon`, `loadUsers`) it is a reading and a writing
step, because Postgres runs it READ COMMITTED, and the row a transaction has
deleted is locked until its end. Deleting a missing row fails (P2025), creating
an existing one too (P2002).

**Redis.** One connection, answered in order: a read is settled when it is
issued and used after the `await`; a write takes effect when it is issued, which
matters because most callers do not await it.

**Failure.** The database, Redis and PortOne can refuse any request, so every
`await` has a failing alternative (`...Fails`) next to the one that succeeds.
Where the code's `catch` leads to the same state from several causes, they share
one action. The process may die at any time. It also dies when a
promise nobody handles is rejected, which is what Node does since version 15
(`_refuseOrder`, `_initialized`, the writes of `verifyCode`), and when a
callback of the thread pool throws (`FileSystem.append`).

`RedisService` passes every failure on, so a command that is issued without an
`await` and refused is such a rejection, at a time when its caller has gone on.
Two cases differ in what they leave behind:

* the delete of a settled order (`removeOrderById`), which leaves an entry for
  good. `DeleteRefused` of `OrderDesk` is the alternative to `Uncache`; its
  caller goes on and may still tell the buyer, other tasks may run, and
  `RejectionUnhandled` ends the process.
* a write of a whole array (`users`, `stores`) or of an application. Refusing it
  changes nothing in Redis. Replies come in the order of the commands, so no
  handler that read the array after the refused write has the reply before the
  process learns of the refusal and ends: to all that is left, the process died
  in place of the write. This is `Crash` before the writing step.

A rejection that somebody does catch has an action of its own where it leaves
something behind: `DisconnectFails` of `StoreRegistry` (logged by
`handleDisconnect`, and then nothing closes the store), `RetireUnlisted` of
`CouponLedger` (an error of the list update that `deleteCoupon` swallows).

**History variables** (`past`, `calls`, `logins`, `spent`, ...) record what the
properties need about earlier steps. No guard of a modelled operation depends on
them, except for the named bounds, for random values (`published`, `drawn`,
`owner`, `used` in `StoreRegistry`) that are never drawn twice, and for `kept`
in `OrderDesk`, which also stands for the rejection on its way.

**Mutations.** Definitions marked "Mutation" are not part of a specification.
They are plausible wrong versions of a definition, used to see that a property
fails when the code is wrong.

## 3. The modules

### OrderDesk, OrderBook

| action | code |
|---|---|
| `WebhookArrives`, `LookupFails`, `LookupMismatch`, `LookupDone` | `store.service.ts`, `paymentFactory` |
| `RejectOrder`, `AbandonOrder`, `CacheOrder`, `SendOrder` | `sendOrder`, `_refuseOrder`; `socket.gateway.ts`, `sendOrder` |
| `AcceptOrder`, `CreateOrderCommits`, `AcceptFails`, `AcceptDone` | `handleAccpetOrder`, `acceptOrder`, `StoreRepository.createOrder` |
| `RefuseOrder`, `FinishOrder`, `DeleteOrderCommits`, `RemovalFails`, `RemovalDone` with `Uncache` or `DeleteRefused` | `handleRefuseOrder`, `handleFinishOrder`, `removeOrderById`, `StoreRepository.deleteOrder` |
| `HistoryCommits`, `HistoryFails`, `FinishDone` | `finishOrder`, `UserRepository.addOrderHistory` |
| `StartupDeletes`, `StartupFails`, `Kill`, `Restart`, `RejectionUnhandled` | `StoreService._initialized`, the process |

A cached order is reduced to its `sales_uid`: the n-th webhook of an order draws
the number n, 0 means there is none. There is one store. Whether it is open and
whether the event arrives is nondeterministic, since that depends on the
registry (see `Shop`), and `emit` returns true either way. `InFlight` and `cut`
tell the properties whether somebody still works on an order and whether a crash
ended that. `kept` is the run of the process (they are numbered) in which Redis
refused to delete a settled order. `RemovedOrderLeavesCache` says what then
becomes of it: the entry goes, or that run of the process ends, or a crash came
between the commit and the delete (`cut`). The last is a defect the property
cannot deny; what a second acceptance of the entry does to the tables after the
restart is the subject of `SalesMatchOrders` and its neighbours.

`OrderBook` is what the desk promises of its books: new, open, closed, in this
direction, with the price moving in the same step. The refinement reads the
stage of an order off table `order` and the history of bookings. It holds
when the app accepts an order once. With two accept messages it does not: the
second fails on the primary key and its catch removes the order that the first
one booked, so the order can be accepted again. `SalesMatchOrders`,
`HistoryBacked` and `WalletIsSumOfSales` hold even then.

### Counter

| action | code |
|---|---|
| `UseCoupon`, `StoreIsOpen`, `CouponIsValid`, `CouponOrderFails` | `StoreService.useCoupon`, `_getStore`, `CouponService.checkValidateAndUpdateCoupon`, `_validate` |
| `SpendCoupon` | the delete of the coupon, the new order and `redis.set` of it |
| `WithdrawCoupon` | `CouponController.deleteCoupon`; expiry |
| `GiftPaid`, `GiftFails`, `RejectGift`, `RefusalFails` | `paymentFactory`, `sendGift` of `StoreService`, `_refuseOrder` |
| `PublishGiftCoupon`, `WrapGift`, `AnnounceGift` | `sendGift` of `CouponService`, `updateGift`, `pushGiftMessage` |
| `AtDesk` | all of `OrderDesk` |

`Counter` extends `OrderDesk` and shares its variables. A slot is at the till or
at the desk: `SpendCoupon` turns a request about a coupon into the desk's task
of a coupon order, which is about to be cached and from then on goes the way of
every order, with a price of 0 and no points. PortOne sends no webhook for it.
A gift never becomes an order: its webhook ends at the till, and where the code
refuses it in the background (`RejectGift`), there is no cached order to refuse,
and the rejection ends the process for everybody (`RefusalFails`).

Only the row of a coupon matters here; whose list it is in is in `CouponLedger`.
With the coupon orders in it, the desk still implements `OrderBook`, on the same
condition as before (one accept message per order).

### StoreRegistry

An entry is `Absent`, `Closed` or the socket id on which it is open: the code
sets `isOpen` and `socketId` together. A duplicate entry of one store behaves
like one entry (`find` and `map` treat both alike), and an empty key like an
empty array. `Login` covers what the merchant's app sends; `Drop` is the end of
a connection from outside, `CloseStores` also covers `client.disconnect()`,
which triggers `handleDisconnect` for a client that was still there.
`DisconnectFails` is a disconnect that cannot read the array: nothing is written
and `client.disconnect()` is not reached. In `handleDisconnect` the failure is
logged; in the catch of the login handler it is Nest's, and the client stays
connected, with nothing of its own in the array. `missed` records the sockets
that such a failure left in the array. A failing
database in `Register` changes nothing and has no action of its own.

`stale` becomes true when a write was computed from an array that has changed
since it was read, or opened a store on a connection that had ended. Once it is
true the registry may be wrong until the next start. The properties with
`~stale` say that, apart from a store left open on a `missed` socket, this is the
ONLY way it goes wrong, and `SocketLoggedInForStore` that even then no
entry names a socket of a wrong merchant. `LoggedInStoreIsOpen` needs no excuse
for the missed: a merchant that logs in again is open on the new socket.

### Shop

`Shop` extends `StoreRegistry` with the reader the registry exists for.
`OrderArrives` is the read of the array in `_getStore`, `TurnAway` and `Choose`
are its conditions, `GiveUp` anything that fails before the order can be sent,
`SendOrder` is `sendOrder` of the gateway. All the awaits between the read and
the emit are one wait: none of them changes the registry. `Registry` is any step
of `StoreRegistry`; a crash ends the orders under way. An errand remembers
whether the socket was connected at the read, and whether the array was then
known to lag: a write had been lost, the load at the start was not done, or the
disconnect of this very socket was under way (`Departing`) or had failed
(`missed`).

`LostOrderIsExplained` is why the array is kept at all: an order that nobody
received, although its buyer was told to wait, was either read from a lagging
array or its merchant left after the read. What becomes of the order is in
`OrderDesk`, where it may stay cached and unanswered by a merchant forever.

### NotifyHub

The service is synchronous and `listenSSE` and the subscription happen in one
step of the event loop, so every call is one action. The controller returns the
`Conflict` as an ordinary answer, with the close handler already registered:
`ListenConflicts` leaves a request in state "answered" whose `Close` removes the
user's only entry. `Push` only records whether a live stream passed the notice
on. Broadcasts to everybody have no sender in the code.

### Front

| action | code |
|---|---|
| `Arrive`, `Admit`, `GuardRefuses` | the guards |
| `Succeed`, `Fail`, `Answer` | a handler, the controller's catch, the interceptor's `tap` |
| `CatchError` | `catchError` of the interceptor |
| `FailElsewhere` | the same error objects thrown from a socket message or in the background |
| `StreamOpens`, `StreamTurned`, `StreamCloses`, `Notice` | `NotifyHub`'s calls, logged |
| `FolderMade`, `LineWritten`, `LoggingThrows` | `FileSystem.append` in the thread pool; `_handleException` |
| `Kill`, `Restart` | the process |

`Front` extends `NotifyHub`. The interceptor logs every value that leaves a
handler: one per answer, and one per stream for each notice that is passed on.
An append looks for the folder and then hands both jobs to the thread pool in
one turn; each job may be done first. A callback that finds an error throws where
nobody can catch it (`thrown`), and the process ends, streams and all. What a
line says is left out, as is the order of lines. That the disk can also be full
or the folder unwritable is left out too: it would end the process in the same
way, and `Kill` is possible at any time.

A failure is a pair of an error of the catalogue and a substatus, or `Plain`
where the code throws the object as it is. `overtaken` records that somebody set
a substatus of the same object after this request failed: the two may then be
confused, and the property is about all other failures.

### Registration, Signup

| action | code |
|---|---|
| `PublishCode`, `CodeStored`, `MailArrives`, `MailSent`, `PublishFails` | `publishCode`, `MailService.sendMail` |
| `VerifyCode`, `CodeNotFound`, `CodeFound`, `ConfirmFails` | `verifyCode` |
| `RegistUser`, `CreateUser`, `RegistFails`, `RegistDone` | `registUser`, `UserRepository.create` |
| `CodeExpires`, `PendingExpires` | the time to live of the two keys |
| `Crash`, `Restart` | the process |

An application (salt and hash of the password, nickname) is named by the code
that was drawn for it. It is kept under the code until that is typed in, then
under the address until the account is made. The time to live is a step that may
come at any moment after the key was set: ten minutes are long for the server
and short for a user. A mail may arrive although sending it was reported to have
failed, and the code is then deleted, but may have been typed in first.

`Signup` is what all this promises: an address gets one account, and the account
is made from an application whose code was mailed to this address and typed in.
The refinement reads the recipient of a code off the mails that arrived.
`AccountIsLastVerified` and `ApplicationServesOnce` say more, and only for users
whose calls do not overlap (the others are `crowded`).

### CouponLedger

| action | code |
|---|---|
| `PublishCoupon`, `PublishStampCoupon`, `PublishGiftCoupon`, `WrapGift`, `WrapFails` | `publishCoupon`, `publishAndRegisterStampCoupon`, `sendGift` |
| `RegisterCoupon`, `UseCoupon`, `WithdrawCoupon`, `CheckDone`, `CheckFails` | the service methods up to and with `_validate` |
| `GrantCoupon`, `StampsSuffice`, `GrantStampCoupon`, `GrantFails` | `CouponRepository.registerCoupon` and the service's catch |
| `RetireReads`, `RetireCommits`, `RetireUnlisted`, `RetireFails` | `CouponRepository.deleteCoupon` |
| `EarnStar`, `Expire` | `addOrderHistory`; the clock |
| `PurgeExpired`, `LoadReads`, `LoadWrites`, `Crash`, `Restart` | `deleteExpiredCoupon` and `loadUsers` at the start |

A user's coupon list is a set: `registerCoupon` does not look for a duplicate,
but what the list is used for (finding and filtering by code) does not tell one
entry from two. Users are not deleted, and a recall names a user there is. The
`users` array, which the same methods rewrite, is the subject of `UserCache`.

`deleteCoupon` catches a `PrismaClientKnownRequestError` of the list update
inside the transaction and goes on. If the transaction can still commit, the row
is gone and the entry of the box stays, with a success reported
(`RetireUnlisted`); if Postgres has given the transaction up, nothing is changed
and the caller may be told either way (`RetireFails`). `BoxIsTrue` excuses the
codes of the first kind (`unlisted`). `Counter`, where only the row matters,
covers the first by its ordinary delete and leaves the second out, an order that
is made although its coupon stays.

Opening a gift is left out. `StoreService.useGift` has no caller, and with it
`useGiftCoupon`, `deleteGiftCoupon`, `_deleteGift` and `_removeGiftFromUser`.
They take the code of a coupon and the identifier of a gift and do not compare
the two, so a caller would have to be there to say which pairs occur. A gift
is in the model from its wrapping to the start that marks it.

### UserCache

| action | code |
|---|---|
| `SignIn`, `LookUp`, `SignedIn`, `SignInFails` | `_findUser`, `loginByPass`, `checkRefresh`, `updateBy` |
| `Register`, `SpendPoint`, `EarnPoint` | `registUser`, `decreaseUserPoint`, `addOrderHistory`, up to the row |
| `UpsertReads`, `UpsertWrites` | `_upsertCache` |
| `GrantCoupon`, `RemoveCoupon`, `SendGift` | `registerCoupon`, `_deleteCoupon`, `sendGift`, up to the row |
| `PatchReads`, `PatchWrites` | `_updateCouponFromUser`, `_removeCouponFromUser` |
| `InitReads`, `InitWrites`, `Crash`, `Restart` | `UserService._initialized`, the process |

Rows are in Postgres, `users` is the array. Access and refresh token are issued
and recorded together, so a number stands for the pair: 0 for none, n for the
n-th. Lists are sets of codes, an order moves one point, and an array that is
not there is an empty one (`_upsertCache` and the patches treat both alike). An
array that cannot be read or written makes a promise reject that nobody
handles, which is `Crash`; a failing database changes nothing and needs an
action only where a request is already under way (`SignInFails`).

Two oddities of the code are in the model as they are. `loginByPass` caches
and answers the entry it found, with the tokens of an earlier sign-in.
`_updateCouponFromUser` puts a gift's coupon in the cached list of coupons,
where the row has none, and replaces the cached wallet by one without points
(`Gone`). `UserShownIsCurrent` is about coupons other than gifts' and about
points that are there.

The properties need to tell lost updates from wrong writers. `stale` holds the
users whose entry a writer has put back as it was before, and whose own row has
not been cached since; `crowded` the users of whom two requests overlapped, or
one overlapped the load at the start; `behind` those whose entry was last
written by a password login. For all others (`Settled`) the array has to be
right, and `NeverAheadOfRows` has to hold for everybody.

What is left out: the list of gifts, which only the row of a user and the
opening of a gift change; which coupon may be registered or used, and what a start does
to expired ones, is in `CouponLedger`; the branch of `checkRefresh` for a forged
token cannot be reached, since the cached token is one the server signed for
this mail address; `deleteUser` and `_removeGiftFromUser` have no caller;
`loginByEmail` and `getOrderHistory` only read. What is typed into `verifyCode`
is taken to be a code: the handler accepts any key of Redis of up to six
characters, and the names of the two arrays are among these.

## 4. The runs

| run | instance | states | shows |
|---|---|---|---|
| `races` | `OrderDesk`: 1 order, 2 tasks, 2 webhooks, 2 accepts, 2 removals, 1 restart, with fairness | 180 196 | `TypeOK`, `SalesMatchOrders`, `WalletIsSumOfSales`, `HistoryBacked`, `AcceptedOrderIsSettleable`, `VanishedOrderIsExplained`; `CachedOrderIsAnswered`, `BookedOrderIsAnnounced`, `RemovedOrderLeavesCache` |
| `book` | `Counter`: 1 paid order, 2 coupon orders, 2 coupons, 2 calls of `useCoupon`, 1 gift with 2 webhooks, 2 tasks | 2 251 746 | `CounterTypeOK`, `CouponBuysOneOrder`, `SpentCouponIsAnswered`, `GiftsArePaidFor`, `WrappedGiftIsAnnounced`; `OrderDesk` with `Counter` implements `OrderBook` |
| `cancel` | `OrderDesk`: 1 order | | finding 1 |
| `streams` | `Front`: 2 users, 3 streams, 2 requests, 2 appends under way, 1 restart | 1 361 828 | `FrontTypeOK`, `NobodyLockedOut`, `UndisturbedUserIsNotified`, `SteadyLog`, `OwnSubstatusIsAnswered` |
| `conflict` | `NotifyHub`: 2 users, 4 streams | | finding 2 |
| `log` | `Front`: 1 user, 2 streams | | finding 4 |
| `logins` | `Shop`: 2 stores, 2 sockets, 2 tasks, 1 errand, 2 logins or 1 and a restart | 2 626 976 | `ShopTypeOK`, `SocketLoggedInForStore`, `LoggedInStoreIsOpen`, `RegisteredStoreIsListed`, `OrderGoesToItsMerchant`, `LostOrderIsExplained` |
| `departure` | `StoreRegistry`: 1 store, 2 sockets, with fairness | 102 382 | `DeadSocketIsForgotten` |
| `codes` | `CouponLedger`: 2 codes, 2 users, 2 tasks, 3 requests or 2 and a restart | 2 929 192 | `TypeOK`, `SpentOnce`, `BoxIsTrue`, `StampsPaidFor` |
| `stamps` | `CouponLedger`: 2 codes, 1 user | | finding 3 |
| `users` | `UserCache`: 2 users, 2 codes, 2 tasks, 3 requests, 1 restart | 1 160 003 | `TypeOK`, `UserShownIsCurrent`, `CachedSessionIsOnRecord`, `NeverAheadOfRows` |
| `registration` | `Registration`: 2 addresses, 3 codes, 3 tasks, 4 calls, 1 restart | 572 436 | `TypeOK`, `AccountIsLastVerified`, `ApplicationServesOnce`; `Registration` implements `Signup` |

### Why the bounds are enough

* *Tasks.* The conflicts of the order desk involve two handlers of one order.
  With a third slot, for the webhook that overwrites the cache meanwhile, the
  safety properties of `races` hold too (218 440 states up to symmetry), and so
  do the liveness properties (1 113 299 states, too slow to keep). They also
  hold for two orders of different prices that are both accepted twice (one
  webhook each and no restart, 483 130 states up to symmetry). In the registry
  two tasks are what a lost update takes, the load at the start being a third
  writer of its own; an errand only reads, so that one is enough. In `users` two
  slots are what a lost update takes, and the second user is the one whose entry
  gets lost; two codes tell a rewritten list from a patched one, and three
  requests allow a row to change once more after an update was lost. In
  `registration` three slots hold a mail on its way, a `verifyCode` and a
  `registUser` of one address.
* *Logins.* Two logins are an earlier and a later connection of one merchant, or
  two merchants on one. A restart leaves entries behind whether one socket or
  two were in the array. `FewEvents` cuts the run accordingly; all its
  properties also hold without the cut (two logins and a restart, 5.6 M states).
* *Coupons.* In `book` two requests can find one coupon valid, with another
  coupon drawn for a gift meanwhile, and two order numbers are there for them.
  In `codes` two codes are there because a list that is rewritten must have
  something to lose, and two users because both may claim one. The run is
  cut by `FewEvents`: three requests, or two and a restart, since a crash
  already stops the requests before it. The coupon properties and `TypeOK` also
  hold without the cut (three requests and a restart, 6.6 M states).
* *Codes of an application.* With three, an address can have an old and a
  new application on their way and the other address one; four calls are a
  verification of each and two registrations, or a code typed in twice.
* *Messages.* Two webhooks and two accepts are the smallest number in which
  "again" happens, two removals cover finish against finish and finish against
  refuse.
* *Restarts.* One restart gives a start from the states the first life left
  behind. The first life begins with a start, too. `book` has crashes
  (rejections nobody handles) but no restart: what a start does to orders is in `races`, and it does nothing to
  coupons that `Counter` models.
* *Stars.* In `codes` a stamp coupon costs two stars, one user can pay for one
  at once and the other lacks a star. The price is a constant of the module (6
  in the code, and in the run of finding 3), and the proof is for every price.
* *Appends.* With two under way a second append can look for the folder while
  the first one makes it, which is where the two disturb each other. The
  failures of `streams` are two substatuses of one object, the same object
  without one, and another object.

Deadlock is not checked: messages, requests and connections are bounded, so the
models do come to rest, and a process that died may stay down.

### Fairness

`FairSpec` of `OrderDesk` and `StoreRegistry` has weak fairness of `Proceed(t)`
for every task (and of the load at the start): an `await` of a running process
is answered, with success or failure, and the event loop then runs what
follows. That is what the timeouts of the clients and of the HTTP request to
PortOne give. Fairness chooses nothing between success and failure.
`RejectionUnhandled` is weakly fair too: Node does end a process on a rejection
nobody handles, after the turn in which it learns of it. Nothing
obliges PortOne to call, a merchant to act, a client to leave or a
dead process to be started, and the properties have an escape (`cut`, `~Up`)
for a task that a crash cut short. What fails and is not repeated has one too
(`kept`, which only excuses a run of the process that has ended, and `missed`).

## 5. Findings

1. **A refused order stays cached** (`cancel`). The comment in
   `services/store.service.ts:178-179` says that the cancel routine deletes the
   cached data only. `_refuseOrder` deletes the database rows first, which fails
   for an order that was not accepted, so the cached order stays and the
   rejection, which nobody handles, ends the process.
2. **The end of a refused duplicate silences the first stream** (`conflict`).
   `controllers/sse.controller.ts:23` registers `disconnectSSE` before `listenSSE`
   can throw `Conflict`, and `disconnectSSE` removes the user's only entry.
3. **Two stamp coupons for six stars** (`stamps`). `registerCoupon` compares and
   resets the stars in two statements of a READ COMMITTED transaction.
4. **The first log line can end the process** (`log`). `append` promises to make
   the folder (`common/filesystem/index.ts:44`), but the line may be written
   before the folder is made, or two appends may both make it; either way a
   callback throws where nobody catches. A process that found the folder at its
   start is safe (`SteadyLog`).

The passing properties state what is left around the findings: users whose
requests come one at a time (the others are `crowded`) pay for their coupons
and see a true box, and users who never made a duplicate request miss no notice.

## 6. Proofs

The theorems hold for every value of the constants: any number of orders,
users, codes, stores, sockets, requests in flight, and any bound. Every safety
invariant and every safety action property that a passing run checks is one of
them; what is left to TLC is in the list at the end of this section.

An invariant of this code is rarely inductive, for one reason in several
forms: a handler carries something over an `await` that it read before. The
strengthenings below say of each thing that is carried what is still true of it. TLC,
too, finds each of them an invariant of the instance its component's run uses.

**OrderDeskProofs.** `TypeCorrect`; `TablesAgree` (`SalesMatchOrders`);
`OrdersStaySettleable` (`AcceptedOrderIsSettleable`); `DeskImplementsBook`
(`ImplementsOrderBook`, assuming `MaxAccepts <= 1`: a second accept message for
a booked order fails and removes it, and the book has no such step);
`HistoriesAreBacked` (`HistoryBacked`); `VanishedOrdersAreExplained`
(`VanishedOrderIsExplained`); `WalletsAreSumsOfSales` (`WalletIsSumOfSales`).

* The invariant `Inductive` has, besides the type and the table invariant,
  `SalesWereDelivered` (sales numbers do not run ahead of the webhooks: with one
  webhook the cached and the booked sale are the same) and `OneAcceptInFlight`
  (with one accept message, the accept in flight is alone, nothing is booked yet
  and the cache entry it read is still there; a removal past its commit has
  deleted the row for good). Settleability is not inductive without these: a
  state with an accept in flight for an order that is already booked is
  type-correct, and one step breaks it. The refinement uses the same invariant
  to map every commit to `Open` or `Close`, a start to `StartOver` and
  everything else to a stutter.
* `Backed` counts, per order, the entries in the history, the row and the
  removals past their commit (`Settling`) against the acceptances: each of the
  three has one of its own, so a race can only lose entries, never add one.
* `AnswerIsDue` follows an order that is gone through the task that removed it:
  the buyer was told, the record was lost, or a task still owes the answer. It
  needs to know which cause can remove an accepted order at all (`CausesKnown`):
  not the webhook's own removal, since the order then never reached the
  merchant (`OneWebhookFor`), and not the accept's undo, since with one accept
  there is nothing booked to undo (`OneBookingFor`).
* `WalletIsSumOfSales` equates a column that is moved by increments with a fold
  over a table. What the fold does when a row comes or goes (`TotalAdds`) does
  not depend on the element it picks first. Induction schemes being out of
  reach, the lemmas under "Sums" argue with least counterexamples: a set of
  natural numbers has a least one (from the library's well-foundedness of `<`),
  so some smallest set of rows would violate the claim (`SmallestSet`). That
  the recursive function exists is proved the same way (`AdderExists`). The
  invariant adds that the table is finite.

**CounterProofs.** `CounterTypeCorrect`; `CouponsBuyOneOrder`
(`CouponBuysOneOrder`); `GiftsAreAnnounced` (`WrappedGiftIsAnnounced`);
`DeskServesCouponOrders`; `CounterImplementsBook`; `SpentCouponsAreAnswered`
(`SpentCouponIsAnswered`); `GiftsAreWorthTheirPayments` (`GiftsArePaidFor`).

* That a coupon buys one order is inductive with `BillsDrawn`: the coupon of an
  order was drawn, so it is not drawn again for a gift. For the notices the
  invariant follows each wrapped gift from the slot to `announced` or, when a
  crash ends the slot, to `cutoff`.
* `DeskServesCouponOrders` and `CounterImplementsBook` carry the desk's results
  over to the composition. A step of `Counter` is a step of the desk, or one of
  the till that leaves the desk alone, or `SpendCoupon` or `RefusalFails`, which
  change the desk in a way it has no action for. `DeskSide`, the desk's own
  invariant, survives these two because a coupon order counts as delivered from
  the moment its coupon is spent and not before (`CouponCalls`), and because a
  slot serves one request at a time (`OneRequestPerSlot`).
* `SpentIsServed`: as long as the buyer of a coupon order has heard nothing, a
  task that will tell them is under way, or was cut.
* `PaidFor` counts the webhooks that may still wrap a gift together with the
  gifts wrapped, against the payments reported. `OneCouponEach` says that a
  gift in the making has a code that nobody else has.

**FrontProofs.** About the hub alone: `TypeCorrect`; `NobodyIsLockedOut`;
`UndisturbedUsersAreNotified`, which is inductive together with
`AnsweredIsRefused` (only a duplicate is answered, so for a user without
duplicates nothing but the end of the live stream itself removes the entry).
About the hub behind guards, log and shared errors, where a failing append ends
the process and with it every stream: `FrontTypeCorrect`; `LogIsSteady`
(`SteadyLog`); `OwnSubstatusesAreAnswered` (`OwnSubstatusIsAnswered`);
`FrontLocksNobodyOut` (`NobodyLockedOut`); `FrontNotifiesTheUndisturbed`
(`UndisturbedUserIsNotified`). `FrontInductive` joins the hub's invariants to
`NothingWhileDown`: no job of the thread pool outlives its process, so a process
that finds the folder starts without appends that still ask for it.

**StoreRegistryProofs.** `TypeCorrect`; `SocketsAreRightful`
(`SocketLoggedInForStore`); `LoggedInStoresAreOpen` (`LoggedInStoreIsOpen`);
`RegisteredStoresAreListed` (`RegisteredStoreIsListed`). For the first the array
itself is not enough, because arrays travel inside tasks between a read and a
write: the invariant says the same of every array that some handler still
carries (`CopiesRightful`). The other two hold as long as no write was stale;
a write that is not stale started from the current array (`FreshWrite`), which
is what makes `Sound` inductive. `Sound` spells out what such writes rely on:
sockets in the array once connected (`SocketsKnown`), those a start finds are
over (`SeenIsOver`), open stores are on connected sockets or on ones whose
disconnect is under way or failed (`OpenIsConnected`), and what is registered during the
start is in neither of the two lists the load merges (`NewStoresListed`).

**ShopProofs.** `ShopTypeCorrect`; `ShopSocketsAreRightful`
(`SocketLoggedInForStore`); `OrdersGoToTheirMerchants`
(`OrderGoesToItsMerchant`); `ShopIsSound`, with `ShopLoggedInStoresAreOpen` and
`ShopRegisteredStoresAreListed`; `LostOrdersAreExplained`
(`LostOrderIsExplained`). The entry an order carries is one more copy
(`ErrandsRightful`). It stays rightful because a step of the registry takes no
login back (`LoginsGrow`), and `SocketsRightful` of `StoreRegistryProofs` makes
it rightful when it is read. Why an order was lost is settled when it arrives:
`OpenIsConnected` says that the socket it finds is connected then, or the array
had an excuse (`ErrandsExplained`).

**CouponLedgerProofs.** `TypeCorrect`; `CodesAreSpentOnce` (`SpentOnce`);
`StampsArePaidFor` (`StampsPaidFor`); `BoxesAreTrue` (`BoxIsTrue`).

* For the first the invariant adds that a transaction past its delete still has
  its row (`LockHeld`), that only one is there per code (`OneLock`) and that
  rows only exist for codes that were drawn (`Drawn`). For the second it adds
  that the requests of a user who is not `crowded` are one at most
  (`OneRequest`), and that a stamp request that read enough stars still finds
  them (`PayCovered`).
* The last needs to know where the code of a request comes from
  (`OriginsKnown`): a user can only name a code that somebody was told, and
  nobody is told the code of a stamp coupon in the making. The list a
  transaction is about to write back is the current one (`RequestCurrent`), and
  what the start is about to write drops nothing but expired codes
  (`StartCurrent`). Codes that expired, that others named, or whose list could
  not be written (`Shared`) are left aside, as in the property, and once one is
  left aside it stays so (`Growing`).

**UserCacheProofs.** `TypeCorrect`; `CacheNeverAhead` (`NeverAheadOfRows`);
`ShownUsersAreCurrent` (`UserShownIsCurrent`); `CachedSessionsAreOnRecord`
(`CachedSessionIsOnRecord`).

* The type needs `PatchedIsThere`: a patch only goes on when it found the user's
  entry, so what it writes is an entry again. `NeverAheadOfRows` is not
  inductive: the array is written from copies in tasks and in the load at the
  start, and from entries that a sign-in carries to `_upsertCache`. `Inductive`
  says of all of these that the rows have caught up with them (`NothingAhead`).
  Since rows only gain tokens and never disappear (`RowsOnlyGrow`), what was
  behind the old rows is behind the new ones (`NothingAheadGrows`), and every
  step then moves values that are already behind.
* For the other two, `EntriesFresh` follows a user's only request (`Alone`)
  from the change of the row to the write of the array: what it carries is the
  row, or what a sign-in found, or a patch that makes of the entry what shows
  the row (`Carries`). Requests of other users may rewrite the same array at
  any time. They leave the entry as it is, or their write marks the user as one
  whose entry was put back (`Undisturbed`).

**RegistrationProofs.** `TypeCorrect`; `RefinesSignup` (`ImplementsSignup`);
`AccountsAreLastVerified` (`AccountIsLastVerified`); `ApplicationsServeOnce`
(`ApplicationServesOnce`).

* The invariant `ApplicationsWereConfirmed` says that what is pending under an
  address, or was read from there by a `registUser` under way, was mailed to
  this address and typed in, and that a code in flight belongs to the user of
  its task. With it `CreateUser` is a step `Open` of `Signup`, `MailArrives` is
  `Mail` or a stutter, `CodeFound` and `ConfirmFails` are `Confirm`, and all
  else stutters.
* The other two hold for users whose calls did not overlap and were not cut
  short. `Orderly` says that there is one such call at most, that what is
  pending, or was read by it, is what was typed in last (`LastIsPending`), and
  that a code that served is gone or about to be deleted (`ServedIsGone`). Calls
  about other addresses, mails and expiry leave all this alone (`LeftAlone`).

The assumptions are the named `ASSUME`s of the modules: prices and bounds are
naturals, point orders are orders, coupon orders are orders without points that
cost nothing, a failure is an error with a substatus and the interceptor's
error is one, the two marks of the registry are neither equal nor sockets, a
stamp coupon costs at least one star and stars are naturals, the marks for a
missing entry and for missing points are neither entries nor points.

### Only model-checked

* Liveness: `CachedOrderIsAnswered`, `BookedOrderIsAnnounced`,
  `RemovedOrderLeavesCache`, `DeadSocketIsForgotten`. Temporal reasoning with
  fairness and `ENABLED` is out of the prover's reach.
* The four findings of section 5, which are counterexamples.

The theorems hold for the models; that a model is faithful to the code is a
matter of reading, with the map in `PROJECT.json`.

## 7. What is left

### Proofs to come

The safety properties of the runs are proved. What could still be stated and
proved about the same modules:

1. The safety half of the liveness properties: that the steps they wait for
   stay possible, for example that a cached order that nobody answered has a
   task, or a message that the merchant's app can still send.
2. `OrderBook` and `Signup` by themselves, as what a reader of the abstract
   specifications may rely on.

### Not modelled

* Menus: reads of tables that nothing here writes, from a cache that is filled
  once at the start. There is no state that could go wrong between two steps.
* The client's side of a session: which tokens a client holds and when it sends
  which. The server signs and verifies without state; what it compares a token
  with is in `UserCache`, and that a guard may turn a request down in `Front`.
* The content of notices and log lines, and so the finish notice of a coupon
  order whose total is a string.
* Calls without a caller: `deleteUser`; `useGift` of `StoreService`
  (`services/store.service.ts:134`) with `useGiftCoupon`, `deleteGiftCoupon`,
  `_deleteGift` and `_removeGiftFromUser` behind it; `reset` of the Redis
  client; `read` of the file system; broadcasts of the hub.
* A `verifyCode` that is given the name of an array instead of a code; a recall
  for an address that is no user's; a coupon order after a delete that was
  rolled back and reported as done.
* DTOs, request validation, Swagger and module wiring, which have no behaviour
  of their own. The one-line clients of Redis and Prisma are modelled where they
  are used.
